----------------------------- MODULE RetryLoop -----------------------------
(***************************************************************************)
(* retryWithoutCircuitBreaker (src/retryfs.go) with what RetryFS leaves    *)
(* out: rfs.mu as a lock that is held while the ErrorClassifier runs, the  *)
(* errors the classifier is given, how long a backoff is, what is logged,  *)
(* and what the calls do to a file.  Each goroutine makes one call on the  *)
(* same file, a Remove or a Create.                                        *)
(*                                                                         *)
(* The file is external: a call may fail and change nothing, take effect   *)
(* and say so, or take effect and have its answer lost on the way back.    *)
(*                                                                         *)
(* A critical section without foreign code is one step that needs rfs.mu   *)
(* to be free.                                                             *)
(***************************************************************************)
EXTENDS Backoff, ErrorClassifier

CONSTANTS
    Workers,        \* the goroutines
    Task,           \* worker -> "remove" or "create"
    Policy,         \* worker -> the policy of its operation
    Classifiers,    \* the ErrorClassifiers that may have been configured
    Faults,         \* the errors of calls that changed nothing
    LostAnswers,    \* the errors of calls that did
    NotFound,       \* the error of removing a file that is not there
    NoWorker        \* rfs.mu is free

Nil == <<>>

\* The errors the classifier may be asked about.
Errors == Faults \cup LostAnswers \cup {NotFound, Nil}

\* What one call of the classifier does: it returns the class; it calls
\* GetMetrics or a method of the filesystem first; it panics.
Behaviours == {"returns", "reenters", "panics"}

\* An ErrorClassifier is any function: for every error, what its calls may do.
\* (A nil Config.ErrorClassifier panics on all of them.)
ErrorClassifiers == [Errors -> SUBSET Behaviours \ {{}}]

ASSUME RetryLoopAssumption ==
    /\ \A w \in Workers :
           /\ Task[w] \in {"remove", "create"}
           /\ Policy[w].MaxAttempts \in Int
           /\ Policy[w].BaseDelay \in Nat /\ Policy[w].MaxDelay \in Nat
           /\ Policy[w].Jitter \in Nat
           /\ Policy[w].Multiplier \in Int \X (Nat \ {0})
    /\ Classifiers \subseteq ErrorClassifiers
    /\ Faults \cup LostAnswers \cup {NotFound} \subseteq Seq(Layers) \ {Nil}
    /\ NoWorker \notin Workers

VARIABLES
    mu,             \* rfs.mu: its holder, or NoWorker
    classifier,     \* rfs.config.ErrorClassifier, fixed by the options
    present,        \* external: whether the file is there
    thread,         \* the locals of each goroutine
    log             \* what rfs.logger was given for each goroutine's call

vars == <<mu, classifier, present, thread, log>>

Idle == [pc |-> "idle", attempt |-> 0, delay |-> 0, lastErr |-> Nil, ret |-> Nil,
         calls |-> 0, waited |-> 0, applied |-> 0, lost |-> FALSE]

Init ==
    /\ mu = NoWorker
    /\ classifier \in Classifiers
    /\ present = TRUE
    /\ thread = [w \in Workers |-> Idle]
    /\ log = [w \in Workers |-> [retries |-> 0, attempts |-> 0]]

Goto(w, t) == thread' = [thread EXCEPT ![w] = t]
Free == mu = NoWorker

\* The classifier, called with w's last error, may do this.
may(w, behaviour) == behaviour \in classifier[thread[w].lastErr]

Start(w) ==
    LET t == thread[w] IN
    /\ t.pc = "idle"
    /\ Goto(w, [t EXCEPT !.pc = "loop"])
    /\ UNCHANGED <<mu, classifier, present, log>>

\* for attempt < MaxAttempts
Exhausted(w) ==
    LET t == thread[w] IN
    /\ t.pc = "loop"
    /\ t.attempt >= Policy[w].MaxAttempts
    /\ Goto(w, [t EXCEPT !.pc = "failing"])
    /\ UNCHANGED <<mu, classifier, present, log>>

\* RecordAttempt under rfs.mu, then OnRetry without it.
Attempt(w) ==
    LET t == thread[w] IN
    /\ t.pc = "loop"
    /\ t.attempt < Policy[w].MaxAttempts
    /\ Free
    /\ Goto(w, [t EXCEPT !.pc = IF t.attempt > 0 THEN "backoff" ELSE "calling"])
    /\ UNCHANGED <<mu, classifier, present, log>>

\* calculateBackoff (the random number is drawn under rfs.mu), logRetry, Sleep.
Sleep(w) ==
    LET t == thread[w] IN
    /\ t.pc = "backoff"
    /\ Policy[w].Jitter > 0 => Free
    /\ \E d \in calculateBackoff(Policy[w], t.attempt) :
           Goto(w, [t EXCEPT !.pc = "calling", !.delay = d, !.waited = @ + d])
    /\ log' = [log EXCEPT ![w].retries = @ + 1]
    /\ UNCHANGED <<mu, classifier, present>>

-----------------------------------------------------------------------------
(* err := fn()                                                             *)

\* Mutant: the error of a call is only noticed if it is not the first.
AfterCallIgnoresFirst(t, err) ==
    LET u == [t EXCEPT !.calls = @ + 1]
    IN  IF err = Nil \/ t.calls = 0 THEN [u EXCEPT !.pc = "succeeding"]
        ELSE [u EXCEPT !.pc = "deciding", !.lastErr = err]

AfterCall(t, err) ==
    LET u == [t EXCEPT !.calls = @ + 1]
    IN  IF err = Nil THEN [u EXCEPT !.pc = "succeeding"]
        ELSE [u EXCEPT !.pc = "deciding", !.lastErr = err]

\* The call fails on its way to the backend, or in it.
CallFails(w) ==
    /\ thread[w].pc = "calling"
    /\ \E err \in Faults : Goto(w, AfterCall(thread[w], err))
    /\ UNCHANGED <<mu, classifier, present, log>>

\* There is no file to remove.
CallFindsNothing(w) ==
    /\ thread[w].pc = "calling"
    /\ Task[w] = "remove"
    /\ ~present
    /\ Goto(w, AfterCall(thread[w], NotFound))
    /\ UNCHANGED <<mu, classifier, present, log>>

\* The backend does what was asked, and its answer arrives or is lost.
CallTakesEffect(w) ==
    /\ thread[w].pc = "calling"
    /\ Task[w] = "remove" => present
    /\ present' = (Task[w] = "create")
    /\ \E err \in {Nil} \cup LostAnswers :
           LET t == AfterCall(thread[w], err)
           IN  Goto(w, [t EXCEPT !.applied = @ + 1, !.lost = @ \/ err # Nil])
    /\ UNCHANGED <<mu, classifier, log>>

-----------------------------------------------------------------------------
(* shouldRetry and what follows the loop                                   *)

\* Attempts are left: the classifier is called, without rfs.mu.
asks(w) == thread[w].attempt + 1 < Policy[w].MaxAttempts

Decide(w) ==
    LET t == thread[w] IN
    /\ t.pc = "deciding"
    /\ asks(w) => \/ may(w, "returns")
                  \/ may(w, "reenters") /\ Free
    /\ Goto(w, IF asks(w) /\ defaultErrorClassifier[t.lastErr] # ErrorPermanent
               THEN [t EXCEPT !.pc = "loop", !.attempt = @ + 1]
               ELSE [t EXCEPT !.pc = "failing"])
    /\ UNCHANGED <<mu, classifier, present, log>>

\* Mutant: shouldRetry asks the classifier with rfs.mu held.
PanicInDecideLocked(w) ==
    LET t == thread[w] IN
    /\ t.pc = "deciding"
    /\ asks(w)
    /\ may(w, "panics")
    /\ Free
    /\ mu' = w
    /\ Goto(w, [t EXCEPT !.pc = "panicked"])
    /\ UNCHANGED <<classifier, present, log>>

\* The classifier panics in shouldRetry: only this call is lost.
PanicInDecide(w) ==
    LET t == thread[w] IN
    /\ t.pc = "deciding"
    /\ asks(w)
    /\ may(w, "panics")
    /\ Goto(w, [t EXCEPT !.pc = "panicked"])
    /\ UNCHANGED <<mu, classifier, present, log>>

\* Mutant: the number of the last attempt is logged, counted from zero.
logOperationCompleteFromZero(w, attempts) == [log EXCEPT ![w].attempts = attempts - 1]

logOperationComplete(w, attempts) == [log EXCEPT ![w].attempts = attempts]

\* RecordSuccess under rfs.mu; the success is logged.
Succeed(w) ==
    LET t == thread[w] IN
    /\ t.pc = "succeeding"
    /\ Free
    /\ Goto(w, [t EXCEPT !.pc = "returned", !.ret = Nil])
    /\ log' = logOperationComplete(w, t.attempt + 1)
    /\ UNCHANGED <<mu, classifier, present>>

\* rfs.mu.Lock() before the error is classified for the metrics.
LockToFail(w) ==
    LET t == thread[w] IN
    /\ t.pc = "failing"
    /\ Free
    /\ mu' = w
    /\ Goto(w, [t EXCEPT !.pc = "classifying"])
    /\ UNCHANGED <<classifier, present, log>>

\* Mutant: the lock is not released when the last attempt failed.
FailKeepsLock(w) ==
    LET t == thread[w] IN
    /\ t.pc = "classifying"
    /\ may(w, "returns")
    /\ mu' = IF asks(w) THEN NoWorker ELSE mu
    /\ Goto(w, [t EXCEPT !.pc = "returned", !.ret = t.lastErr])
    /\ log' = logOperationComplete(w, Policy[w].MaxAttempts)
    /\ UNCHANGED <<classifier, present>>

\* The classifier returns; RecordFailure, Unlock, and the failure is logged.
Fail(w) ==
    LET t == thread[w] IN
    /\ t.pc = "classifying"
    /\ may(w, "returns")
    /\ mu' = NoWorker
    /\ Goto(w, [t EXCEPT !.pc = "returned", !.ret = t.lastErr])
    /\ log' = logOperationComplete(w, Policy[w].MaxAttempts)
    /\ UNCHANGED <<classifier, present>>

\* The classifier panics, and nothing releases rfs.mu.
PanicInFail(w) ==
    LET t == thread[w] IN
    /\ t.pc = "classifying"
    /\ may(w, "panics")
    /\ Goto(w, [t EXCEPT !.pc = "panicked"])
    /\ UNCHANGED <<mu, classifier, present, log>>

\* The classifier waits for the lock that its own goroutine holds.
ReenterInFail(w) ==
    LET t == thread[w] IN
    /\ t.pc = "classifying"
    /\ may(w, "reenters")
    /\ Goto(w, [t EXCEPT !.pc = "blocked"])
    /\ UNCHANGED <<mu, classifier, present, log>>

Step(w) ==
    \/ Exhausted(w) \/ Attempt(w) \/ Sleep(w)
    \/ CallFails(w) \/ CallFindsNothing(w) \/ CallTakesEffect(w)
    \/ Decide(w) \/ PanicInDecide(w)
    \/ Succeed(w) \/ LockToFail(w) \/ Fail(w) \/ PanicInFail(w) \/ ReenterInFail(w)

Next == \E w \in Workers : Start(w) \/ Step(w)

Spec == Init /\ [][Next]_vars

\* Goroutines run, sleeps end, the backend answers every call, and the mutex
\* is fair, as Go's is: a goroutine for which it is free again and again gets it.
FairSpec == Spec /\ \A w \in Workers : SF_vars(Step(w))

-----------------------------------------------------------------------------
(* Properties that hold.                                                   *)

returned(w) == thread[w].pc = "returned"
panicked(w) == thread[w].pc = "panicked"

\* The lock is lost: its holder waits for itself, or is gone.
Stuck == ~Free /\ thread[mu].pc \in {"blocked", "panicked"}

\* A panic of the classifier leaves rfs.mu locked only after the last attempt
\* the policy allows (or if it allows none): shouldRetry classifies every earlier
\* error first, without the lock, and a panic there costs only that call.  The
\* exception is a classifier that does not always do the same with that error.
LockedPanicIsLast ==
    \A w \in Workers : mu = w /\ panicked(w) =>
        \/ thread[w].calls >= Policy[w].MaxAttempts
        \/ classifier[thread[w].lastErr] # {"panics"}

\* Every call comes back, by a return or by the classifier's panic, unless the
\* classifier has made the lock useless for everybody.
EveryCallEnds ==
    \A w \in Workers : thread[w].pc = "loop" ~> returned(w) \/ panicked(w) \/ Stuck

\* The time an operation has slept stays within what its policy computes: per
\* retry no more than MaxDelay plus the jitter, which is added after the cap (so
\* a delay may exceed MaxDelay, see DelayAtMostMaxDelay), and, if delays do not
\* shrink, no less than the capped first delay minus the jitter.
WaitsWithinPolicy ==
    \A w \in Workers :
        LET p == Policy[w]
            m == multiplier(p)
            t == thread[w]
            slept == log[w].retries
        IN  /\ t.waited <= slept * Longest(p.MaxDelay, p.Jitter)
            /\ m[1] >= m[2] =>
                   t.waited >= slept * Shortest(Capped(p, p.BaseDelay), p.Jitter)

\* Unless an answer was lost, the caller is told exactly what its call did,
\* whatever other goroutines do to the file between its attempts: nil if and
\* only if one attempt took effect, and none took effect before a failure.
\* (A policy without attempts is nil for nothing.)
HonestUnlessLost ==
    \A w \in Workers : returned(w) /\ ~thread[w].lost =>
        thread[w].applied = (IF thread[w].ret = Nil /\ thread[w].calls > 0 THEN 1 ELSE 0)

\* The log tells how a call went: one warning per repeated call, and the number
\* of its calls.  A failure is logged with MaxAttempts instead, which is the
\* number of its calls unless a permanent error ended the loop early.
LogMatchesCalls ==
    \A w \in Workers :
        LET t == thread[w]
            max == Policy[w].MaxAttempts
        IN  returned(w) =>
                /\ log[w].retries = (IF t.calls = 0 THEN 0 ELSE t.calls - 1)
                /\ log[w].attempts = (IF t.ret = Nil /\ t.calls > 0 THEN t.calls ELSE max)
                /\ t.ret # Nil =>
                       t.calls = max \/ defaultErrorClassifier[t.ret] = ErrorPermanent

\* A classifier that returns for every error, as defaultErrorClassifier does.
AlwaysReturns == \A err \in Errors : classifier[err] = {"returns"}

\* The name of the file never decides whether a call is retried: a path such as
\* /errors/404 is part of the message of a *os.PathError or *os.LinkError, and
\* defaultErrorClassifier looks below those layers before it looks at messages.
\* Over all errors of at most three layers.
FileNamesDoNotDecide == AlwaysReturns => NamesAreIrrelevant

\* An error that carries a sentinel the classifier knows or an errno is
\* classified by it alone, whatever text was wrapped around it.
TypedErrorsBeatText == AlwaysReturns => CausesDecide

-----------------------------------------------------------------------------
(* What the documentation says, and the code does not do.                  *)

\* README.md:298, "Remove (if it fails, file wasn't removed)".
FailedRemoveLeavesFile ==
    \A w \in Workers : Task[w] = "remove" /\ returned(w) /\ thread[w].ret # Nil
                           => thread[w].applied = 0

\* types.go:67, "MaxDelay is the maximum delay between retries".
DelayAtMostMaxDelay ==
    \A w \in Workers : thread[w].delay <= Policy[w].MaxDelay
============================================================================
