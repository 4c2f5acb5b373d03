# retryfs: TLA+ verification project

`retryfs` wraps a filesystem: every method is retried with exponential backoff,
optionally behind a circuit breaker (one for the whole filesystem, or one per
operation), and counted in metrics. This directory models what its goroutines
share and what is hard about it: results that arrive late, cancellations that
race timers, breakers created by whoever comes first, counters updated and read
in pieces, foreign code that runs under a lock, and calls that took effect
although they failed.

## The system

| Part | State | Operations | Interacts with |
|---|---|---|---|
| Circuit breaker (`circuit_breaker.go`) | state, consecutive errors and successes, time of the last failure, all under `cb.mu` | `Call` (= `allowCall`, the function, `recordResult`), `Reset`, reads | called by the retry layer; starts a goroutine per `OnStateChange` |
| Retry loop (`retryfs.go`) | locals of each call | `retry`, `retryWithoutCircuitBreaker`, `shouldRetry`, `retryWithResult` | breaker, metrics under `rfs.mu`, classifier, log, backend |
| Context variants (`context.go`) | locals, the caller's context | the same loop with a check and a `select` | global breaker only |
| Filesystem methods (`retryfs.go`, `context.go`) | none | 23 plain methods, 14 with a context | retry layer |
| Metrics (`types.go`) | totals, per class, per operation | `RecordAttempt/Success/Failure`, `GetMetrics` | written under `rfs.mu`, read through a live pointer |
| Per-operation breakers (`per_operation_circuit_breaker.go`) | map of breakers under an RWMutex | lazy creation, `Call`, `Reset`, `ResetOperation`, `GetAllStates`, `GetAllStats` | retry layer |
| Backoff (`retryfs.go`) | the random source under `rfs.mu` | `calculateBackoff` | retry loop |
| Error classification (`errors.go`) | none | a decision list over wrapped errors | retry loop, under `rfs.mu` at its end |
| Prometheus collector (`prometheus.go`) | descriptors | `Collect` | reads metrics without `rfs.mu`, breaker under `cb.mu` |
| Logging (`logging.go`) | none | `logRetry`, `logOperationComplete` | retry loop |
| Options, test helpers, examples | none that matters | | |

Hard behaviours: the breaker releases its lock while the function runs, so a
result may be recorded in a state other than that of the admission; several
probes run at once; the timer of the open state is shared; callbacks are
unordered; a context may be cancelled between any two statements of the loop; an
operation touches the metrics up to `MaxAttempts + 1` times with other
goroutines in between; the collector reads them without a lock; a classifier
runs with `rfs.mu` held; a retry may repeat what was already done.
`PROJECT.json` lists each hazard with its line and its properties.

## Modules

| Module | What it is |
|---|---|
| `Breaker` | the breaker as a record, its methods as functions on it; shared by the modules below |
| `AbstractBreaker` | what one breaker promises: nobody admitted while it cools down, the first call after that makes it half-open, results never close an open one |
| `CircuitBreaker` | goroutines sharing one breaker, with callbacks, clock and a backend that may recover; implements `AbstractBreaker` |
| `BreakerArray` | what users of several breakers rely on: one per key from the start, each result recorded where the call was admitted |
| `PerOperationCircuitBreaker` | the map of breakers behind its RWMutex; implements `BreakerArray` |
| `RetryFS` | goroutines calling methods of one RetryFS: breakers, loop, contexts, metrics, answers; uses its breakers as `BreakerArray` says |
| `Collector` | `RetryFS` extended by a scrape that reads the metrics without `rfs.mu` |
| `Backoff` | `calculateBackoff` as a function to sets of delays |
| `ErrorClassifier` | the decision list as a recursive function on chains of wrapped errors, of any length |
| `RetryLoop` | the loop composed with `Backoff`, `ErrorClassifier`, the lock `rfs.mu`, the log and a backend that holds a file |
| `BreakerProofs`, `CircuitBreakerProofs`, `PerOperationProofs` | proofs about the breakers |
| `RetryFSProofs`, `AccountingProofs`, `LedgerProofs` | proofs about `RetryFS`: the locals of the loop; the totals of the metrics; the entries of the metrics and what the breakers have to do with them |
| `CollectorProofs` | proofs about `Collector` |
| `RetryLoopProofs` | proofs about `RetryLoop`, `Backoff` and `ErrorClassifier` |
| `MC...` | instances for TLC |

### Breaker and CircuitBreaker

Every method of `CircuitBreaker` holds `cb.mu` throughout, so it is one function
from breaker to breaker (`allowCall`, `onSuccess`, `onFailure`, `reset`,
`setState`, the source's names). `lastFailureTime` is only read as
`time.Since(..) >= Timeout`; the model keeps `sinceFailure`, the age of the last
failure in ticks, saturated at `Timeout`. A new breaker has the zero time, which
is arbitrarily old. A negative `Timeout` behaves like zero.

`Call(fn)` is `Admit` or `Reject` (allowCall), then `RecordSuccess` or
`RecordFailure` (recordResult); the function runs between the two. `call[c]` is
"probing" if the admission left the breaker half-open. `Heal` is the
environment's promise that calls admitted from then on succeed; `sick` holds the
running calls that may still fail. `pending` holds the callback goroutines not
run yet, `Deliver` runs any of them, `ledger` is a listener that books, for each
state, how often it was entered minus left. `openFor` and `halfOpenSuccesses`
are history variables; no guard reads them. A function that panics is not
modelled.

### PerOperationCircuitBreaker

`breakers` is the map, from operation to the address of a breaker in `heap`, so
that two breakers for one operation would be visible. A goroutine's `Lookup`
under the read lock finds a breaker ("have") or not ("absent"); then it asks for
the write lock ("waiting"), and `FoundAfterAll` or `Create` is the critical
section with the second check. `Admit`, `Reject`, `RecordSuccess` and
`RecordFailure` are `cb.Call` on the breaker found. `Reset`, `GetAllStates` and
`GetAllStats` hold the read lock over a loop: they start with the operations in
the map, `Visit` them in any order, and end. `ResetOperation` looks up and then
resets without `pocb.mu`. As in Go's `sync.RWMutex`, a waiting writer keeps new
readers out, and enters when the readers have left.

The refinement maps an operation without a breaker to a new one. It is what
justifies that `RetryFS` has all breakers from the start.

### RetryFS and Collector

A goroutine's call is a record: program counter, operation, whether it has a
context, `attempt`, `lastErr` and `resultErr` of the source, the error handed to
the breaker (`err`) and the one returned (`ret`). Steps are cut at `rfs.mu`, at
the breaker's mutex, at the sleep or select and at the backend call:
`Method`/`ContextMethod` (with `Begin`, `Refused` or `NotImplemented`),
`Attempt`, `SeeCancelled`, `Exhausted`, `WakeUp`, `CancelledInBackoff`,
`Invoke`, `Succeed`, `Fail`, `Return`. The check of the context at the head of
the loop and `RecordAttempt` are one step: a cancellation between them has the
same effect as one right after. Operations differ by whether they return a
result (`retryWithResult` hands out `resultErr`), have a context variant, and
need `absfs.SymLinker`. A backend error is represented by its class, the only
thing the loop asks about it. `tally` and `openCalls` are history.

`Collector` adds one scrape at a time. `GetMetrics` takes `rfs.mu` and hands out
the live pointer: `scrape.seen` is what was recorded by then. Every counter is
then read without the lock. That is a data race; the model lets each read return
any value the counter has had since `GetMetrics`, in any order. An entry created
during the iteration may be visited or not. The breaker's gauges come from one
`GetStats` under `cb.mu` and are not stored. `last` is the previous scrape.

### RetryLoop, Backoff, ErrorClassifier

`RetryLoop` is the loop of `RetryFS` seen from the other side: no breakers,
contexts or metrics, but what surrounds the loop in detail. `mu` is `rfs.mu`;
critical sections without foreign code are one step that needs it free, and the
one that calls the ErrorClassifier is two (`LockToFail`, then `Fail`,
`PanicInFail` or `ReenterInFail`). A classifier is any function, so the model's
says for every error what a call with that error may do: return, call back into
the filesystem first, or panic (as a nil `Config.ErrorClassifier` does on all of
them); more than one of these if it does not always do the same. What it returns
is the class of `defaultErrorClassifier`. The program counters "blocked" and
"panicked" are the ends of a call whose classifier did not return. The backend is one file that is
removed and created by different goroutines; a call fails without effect, takes
effect, or takes effect while its answer is lost. `calculateBackoff` gives the
set of delays the random source may lead to. `log` counts the warnings of
`logRetry` and keeps the number `logOperationComplete` was given.

`Backoff` works on integers: the multiplier is a fraction, the jitter a
percentage, and delays are cut off like the conversion to `time.Duration`. In
`ErrorClassifier` an error is the sequence of the layers of its `Unwrap` chain;
a layer has a type, a value and the set of known patterns in its own text, so a
path such as `/errors/404` is a `PathError` layer with the text `404`.

## Runs

Passing runs:

| Run | Instance | Shows |
|---|---|---|
| `breaker` | 3 goroutines, thresholds 2 and 3, timeout 2 ticks, callbacks | counters, thresholds and timer; each transition announced once; `CircuitBreaker` implements `AbstractBreaker`; open is temporary, recovery closes for good |
| `retry_global` | 2 goroutines, 3 operations of 2 kinds, 2 attempts each, one breaker | answers, budget, cancellation, traffic behind an open breaker, metrics |
| `retry_per_operation` | 2 operations of 5 kinds, a policy without attempts, no symlinks, a breaker per operation and a global one | isolation, budget, accounting, termination, results reach the breaker that admitted the call |
| `per_operation_breakers` | 2 goroutines, 2 operations, room for 3 breakers | one breaker per operation, no write under a loop, no starvation, implements `BreakerArray` |
| `collector` | 2 scrapes against 2 operations with 2 attempts each | no counter goes back and no series of an operation or a class disappears between scrapes; how far one scrape can be off |
| `retry_loop` | 3 goroutines with 3, 1 and no attempts; classifiers that always return, re-enter or panic, one that panics on one retryable error only, one that may do anything; all error chains of up to three layers from 23 | the lock, the waits, the answers, the log, the classification, termination |

Runs that show a disagreement between the code and what is said of it (the
findings of `PROJECT.json` quote the lines):

| Run | Shows |
|---|---|
| `breaker_single_probe` | half-open admits concurrent probes |
| `retry_rejection` | methods with a result return nil when the breaker refused them or their context ended before the first attempt |
| `retry_context_bypass` | context variants ignore the per-operation breaker |
| `collector_race` | an operation writes a map the scrape iterates over |
| `lost_answer` | a Remove that removed the file returns an error |
| `backoff_max_delay` | the jitter is added after the cap and makes a delay longer than `MaxDelay` |

More consequences of the code that the models have and that no run is spent on:

- a success recorded while the breaker is open counts towards closing it, so a
  half-open period may need fewer successes than `SuccessThreshold`
  (`LateSuccessesBounded` says by how many), although a test says that successes
  only count in half-open state (`circuit_breaker_test.go:331`);
- a failure recorded while the breaker is open restarts its timer; the failure
  of a call admitted before the opening re-opens a half-open breaker;
- operations that were refused or cancelled are in neither `TotalSuccesses` nor
  `TotalFailures` (`OperationsAccounted` says where they are); a cancellation
  counts as a failure of the breaker, also if the backend was never called;
- with `MaxAttempts` 0 an operation returns nil without calling the backend, is
  a failure in the metrics and a success for the breaker;
- a policy without `MaxDelay`, such as the one of the repository's README (lines
  151-155), caps every delay at zero and retries without waiting;
- a failure is logged with `MaxAttempts`, also when a permanent error ended it
  after one call;
- a classifier that calls the filesystem deadlocks it when it runs for the
  metrics, with `rfs.mu` held; one that panics there leaves `rfs.mu` locked. A
  classifier that always panics on an error gets that far only with the error of
  the last attempt the policy allows (`LockedPanicIsLast`): `shouldRetry`
  classifies the error of every earlier attempt first, without the lock, but not
  that one. A `Config` as in the repository's README (lines 148-165) has no
  classifier and panics on every error.

Bounds. `MaxErrors` caps `consecutiveErrors`, which is compared with the
threshold only in the closed state; it is beyond the threshold plus the failures
of every other goroutine in flight. A call that cannot fail because of the cap
can still succeed, so the cap blocks nobody. `MaxPending` caps the callbacks of
one transition; with one of each of the transitions pending they are reordered
with each other. Three goroutines are one that opens the breaker, one that
probes and one whose result is late; a half-open period with three successes
distinguishes a leaked success. A run has one pair of thresholds: 2 and 3 in
`breaker`, 1 in the runs of `RetryFS`; zero and all other integers are left to
the proofs. Two goroutines race for the creation of one breaker while a third
address shows a second breaker for an operation. `MaxOps` bounds the operations
started: three let one open a breaker, one run behind it and one be refused or
probe. Two attempts have a first, a last and a backoff between them; three, in
`RetryLoop`, have a delay that is capped. `MaxScrapes` is two because a counter
can only go back between two. Runs of `RetryFS`, `Collector` and `RetryLoop` end
when their operations are done, hence no deadlock check there. Goroutines are
symmetric in the safety runs of `RetryFS` and `Collector`.

Fairness. `CircuitBreaker`: time passes (`Tick`), every function returns
(`RecordSuccess(c) \/ RecordFailure(c)`), callback goroutines are scheduled
(`Deliver`), and some goroutine keeps calling (`Admit` by anyone): a breaker
changes state only when called, so without a caller it would stay open. Nothing
is assumed of `Heal` and `Reset`. `PerOperationCircuitBreaker` and `RetryFS`:
every goroutine inside a method is scheduled, timers fire and the backend
answers (weak fairness of `Step`); nothing is assumed of new calls and
cancellations. `RetryLoop` has strong fairness of `Step`, because a goroutine
may find `rfs.mu` taken again and again: Go's mutex hands itself to a waiter
that has been starved.

## Proofs

`CircuitBreakerProofs` proves for every finite set of goroutines, every pair of
integer thresholds and every `Timeout \in Nat` (assumptions `BreakerAssumption`
and `CircuitBreakerAssumption`):

- `TypeCorrect`, `ClosedOnlyBelowThreshold`, `LateSuccessBound`,
  `ClosingThreshold`, `OpensForTimeout`, `NotificationsComplete`: the invariants
  of the run `breaker`;
- `Refinement`: `CircuitBreaker` implements `AbstractBreaker`.

The argument. One lemma per method (`AllowCallEffect`, `OnSuccessEffect`, ... in
`BreakerProofs`) says what the four fields of the result are; one lemma per
action shows that it preserves `IInv`. `IInv` is the conjunction of the
invariants, except that `ClosesByThreshold` is not inductive: it speaks of the
history of the half-open period while the code compares its own counter.
`HalfOpenCounted` relates the two: the successes of the period are among those
counted, and if there was one the counter is still below the threshold.
`LateSuccessesBounded` needs the number of running calls in its open case: a
late success moves one unit from the running calls to the counter, and no call
is admitted meanwhile. The refinement rests on `NeverEarly`: a call admitted by
an open breaker finds `sinceFailure` at `Timeout`, hence `openFor` too, hence
the abstract breaker has cooled down.

`PerOperationProofs` proves, for every set of goroutines, operations and
addresses (`PerOperationAssumption`), `TypeCorrect`, `OneBreaker`,
`LoopsAreSafe` and `Refinement` (of `BreakerArray`). `OneBreakerPerOperation`
becomes inductive with two facts: the addresses in the map are allocated, so a
new breaker is none of them, and a loop visits only operations that have a
breaker, because the map never loses one. In the refinement, creating a breaker
is invisible because the new breaker is what the map's absence stood for, and a
clock tick does not change a breaker that never failed (`NewIsAgeless`).

`RetryFSProofs` proves, for every finite set of goroutines and operations, all
policies (also zero and negative ones), every combination of breakers and every
bound on the operations (`RetryFSAssumption`), `TypeCorrect`, `Budget`,
`LateCallBound`, `Honest` and `Refinement` (of `BreakerArray`). `RetryBudget`
alone is not inductive: what may happen next depends on where in the loop the
goroutine is. `IInv` says at each program counter how the locals fit together
(`LoopInv`, `EndInv`): inside the loop the number of calls is `attempt`, the
closure's error is `lastErr`, which is not permanent, and a goroutine past the
check of the context has made no call since a cancellation; outside it, the
error for the breaker is nil exactly when the last call succeeded. Each
assignment to the locals has a lemma (`MovesOn`, `LeavesLoop`,
`AfterCallThread`, ...), so an action only has to name its own.

`AccountingProofs` proves `OperationsAccounted`, `AttemptsAccounted` and, if
every policy allows an attempt, `FirstAttemptsAccounted`. `Books` states each
as "what the counters leave open is the number of goroutines in a certain
place". `CountMove` says how a step of one goroutine changes such a number,
`Entry` how an entry in the metrics or the tally changes what is open, and
`Rebalance` that a step is harmless if the two agree; one lemma per group of
actions shows that they do. `FirstAttemptsAccounted` needs from `IInv` that a
backoff is only entered by a retry.

`LedgerProofs` proves `TotalsAreSums` (if every policy allows an attempt),
`OpenForItsOwnFailures` (always) and `OpenBoundsTraffic` (if there is a
goroutine).

- `Entered` says what any `Record...` function does to the metrics: a vector of
  zeros and ones is added to the totals and to the entry of one operation;
  `MetricsStep` shows that this, or nothing, is all a step does. That the totals
  stay the sums then follows from `SumChanges` (a sum changes by what its one
  changed element does), given that no success or failure of an operation
  without an entry is counted. `Entries` says so: a goroutine whose operation
  has made an attempt has an entry, and `RetryFSProofs` shows that without an
  attempt an operation can end only under a policy that allows none.
- `OpenForItsOwnFailures` is not inductive because the metrics hear of a failure
  before the breaker does. `Opened` adds the failures that are on their way: the
  errors the breaker has counted in a row, plus the goroutines about to report
  one to it, are at most the recorded failures.
- `OpenBoundsTraffic` is not inductive because the calls still to come are not
  in it. `Traffic` adds, for each goroutine behind the breaker, what is left of
  its budget; a call moves one unit from there to the count, nobody is admitted
  while the breaker is open, and the goroutine whose failure opened it has
  nothing left.

`CollectorProofs` proves `CountersNeverGoBack` and `ScrapeSkewBounded`. `Later`
orders the states of the metrics: no counter of an operation or a class and no
number of the attempts of the *other* operations is smaller. `Forward` derives
from `MetricsStep` that every step goes forward. `Scraping` places what the
scrape has sent between what it was given and what there is now, and the
previous scrape below what it was given. For the skew, `Within` says of each
operation that it has no more retries than attempts, and that successes,
failures and goroutines that owe one of them are no more than its attempts; the
attempts of one operation since the scrape began are at most all attempts since
then, because those of the others have not become fewer.

`RetryLoopProofs` proves, for every set of goroutines, all policies and every
classifier, whatever it may do with which error (`RetryLoopAssumption`,
`LayersAssumption`), the six invariants of the run `retry_loop`. `LoopInv` says
at each program counter how calls, log and the effect on the file fit together;
`GivenUp` is why the loop was left: the last call was made, or it failed for
good. `LockInv` says that `rfs.mu` is kept across steps only by a goroutine in
the classifier, and that a goroutine on its way there has made its last call or
has an error on which the classifier does not always panic, because it has come
back from it once (`Survived`). `WaitInv` says that the sleeps so far are within
the bounds of as many delays. `BackoffBounds` bounds one delay: `PowMonotone`
for the exponent, `Fraction` and `JitterBounds` for the rest. The run checks the
classifier on all chains of up to three layers; `NamesNeverDecide` and
`TypedCauseDecides` prove the same for errors of any number of layers.

Induction. The library's induction theorems take an operator, which the provers
cannot instantiate. `SetInduction` is derived from the well-foundedness of the
naturals for a *set* of numbers instead, and what is proved by induction is
stated as such a set. It gives the existence of the recursive functions (`Pow`,
the sum over a finite set, `defaultErrorClassifier`), without which nothing
follows from their definitions, and then facts about them.

The constants are unrestricted but for the assumptions named above. Three
theorems add a hypothesis, each because the property is false without it: under
a policy without attempts an operation is counted as failed but gets no entry
and makes no first attempt (`TotalsAreSums`, `FirstAttemptsAccounted`), and the
bound of `OpenBoundsTraffic` is negative if there is no goroutine at all.

Only model-checked: liveness (`OpenIsTemporary`, `RecoveryCloses`,
`MissingBreakerArrives`, `EveryOperationReturns`, `EveryCallEnds`); fairness and
`ENABLED` are beyond the prover. Every invariant and every refinement that a
passing run checks is also proved.

## Not modelled

Not modelled: the slog adapters and the log functions nothing calls; option
functions (they run before the filesystem is shared, and what they set are
constants or initial choices of the modules); registration and descriptors of
the collector; rounding and overflow of floating-point delays; names and
contents of files; test helpers and examples, which are not part of the library.
A panic of the backend inside a breaker is not modelled: `Call` would not record
a result.
