-------------------------- MODULE CollectorProofs ---------------------------
(***************************************************************************)
(* A scrape reads the counters in a race with the operations.  It shows no *)
(* less than the previous one, and it is off by no more than the attempts  *)
(* made while it ran: for every set of goroutines and operations, every    *)
(* policy, and any number of scrapes.                                      *)
(***************************************************************************)
EXTENDS Collector, LedgerProofs

-----------------------------------------------------------------------------
(* The counters of one operation                                           *)

\* The goroutines that have counted an attempt of op and not its end.
Owed(op) ==
    {t \in Threads : /\ t.op = op
                     /\ \/ t.pc \in {"backoff", "calling"}
                        \/ t.pc \in {"loop", "succeeding", "failing"} /\ t.calls > 0}

\* No operation has more retries, or more ends, than attempts.
WithinOf(op) ==
    /\ recorded(metrics, op, "Retries") <= recorded(metrics, op, "Attempts")
    /\ recorded(metrics, op, "Successes") + recorded(metrics, op, "Failures") + Count(Owed(op))
           <= recorded(metrics, op, "Attempts")

Within == \A op \in Operations : WithinOf(op)

\* Steps that enter nothing, and owe nothing new.
LEMMA KeptWithin ==
    ASSUME IInv, Within, NEW w \in Workers, NEW v, Goto(w, v), metrics' = metrics,
           \A op \in Operations : v \in Owed(op) => thread[w] \in Owed(op)
    PROVE  Within'
<1> SUFFICES ASSUME NEW op \in Operations PROVE WithinOf(op)'
  BY DEF Within
<1> DEFINE a == recorded(metrics, op, "Attempts")
           r == recorded(metrics, op, "Retries")
           s == recorded(metrics, op, "Successes")
           f == recorded(metrics, op, "Failures")
           n == Count(Owed(op))
           m == Count(Owed(op))'
<1>1. n \in Nat /\ m \in Nat /\ m <= n
  BY CountMove
<1>2. a \in Nat /\ r \in Nat /\ s \in Nat /\ f \in Nat
  BY MetricsFields DEF IInv, counters
<1>3. r <= a /\ s + f + n <= a
  BY DEF Within, WithinOf
<1>4. recorded(metrics, op, "Attempts")' = a /\ recorded(metrics, op, "Retries")' = r
      /\ recorded(metrics, op, "Successes")' = s /\ recorded(metrics, op, "Failures")' = f
  BY DEF recorded
<1> HIDE DEF a, r, s, f, n, m
<1>5. r <= a /\ s + f + m <= a
  BY <1>1, <1>2, <1>3
<1> QED
  BY <1>4, <1>5 DEF WithinOf, m

\* Steps that enter something of the goroutine's operation: an attempt pays for
\* what it owes, an end is paid for by an attempt.
LEMMA EnteredWithin ==
    ASSUME IInv, Within, NEW w \in Workers, NEW v, Goto(w, v), NEW o \in Operations,
           thread[w].op = o, v.op = o,
           NEW d \in [counters -> {0, 1}], Entered(metrics, metrics', o, d),
           d["Retries"] <= d["Attempts"],
           LET change == moved(thread[w], v, Owed(o))
           IN  IF o \in DOMAIN metrics'.OperationMetrics
               THEN d["Successes"] + d["Failures"] + change <= d["Attempts"]
               ELSE change <= 0
    PROVE  Within'
<1> SUFFICES ASSUME NEW op \in Operations PROVE WithinOf(op)'
  BY DEF Within
<1> DEFINE in == o \in DOMAIN metrics'.OperationMetrics
           b == IF op = o /\ in THEN 1 ELSE 0
           n == Count(Owed(op))
           m == Count(Owed(op))'
           g == moved(thread[w], v, Owed(op))
           R(c) == recorded(metrics, op, c)
           Q(c) == recorded(metrics', op, c)
<1>1. n \in Nat /\ m \in Nat /\ m = n + g /\ g \in Int
  <2>1. /\ n \in Nat /\ m \in Nat
        /\ m = n + (IF v \in Owed(op) THEN 1 ELSE 0) - (IF thread[w] \in Owed(op) THEN 1 ELSE 0)
    BY CountMove
  <2> QED
    BY <2>1 DEF moved
<1>2. \A c \in counters : R(c) \in Nat /\ Q(c) \in Nat
  BY MetricsFields DEF Entered
<1>3. \A c \in counters : Q(c) = R(c) + (IF op = o /\ in THEN d[c] ELSE 0)
  BY <1>2 DEF Entered
<1>4. R("Retries") <= R("Attempts") /\ R("Successes") + R("Failures") + n <= R("Attempts")
  BY DEF Within, WithinOf
<1>5. /\ d["Attempts"] \in {0, 1} /\ d["Retries"] \in {0, 1}
      /\ d["Successes"] \in {0, 1} /\ d["Failures"] \in {0, 1}
      /\ {"Attempts", "Retries", "Successes", "Failures"} \subseteq counters
  BY DEF counters
<1>6. CASE op = o /\ in
  <2>1. d["Successes"] + d["Failures"] + g <= d["Attempts"]
    BY <1>6
  <2>2. /\ Q("Attempts") = R("Attempts") + d["Attempts"] /\ Q("Retries") = R("Retries") + d["Retries"]
        /\ Q("Successes") = R("Successes") + d["Successes"]
        /\ Q("Failures") = R("Failures") + d["Failures"]
    BY <1>3, <1>5, <1>6
  <2>3. R("Attempts") \in Nat /\ R("Retries") \in Nat /\ R("Successes") \in Nat /\ R("Failures") \in Nat
    BY <1>2, <1>5
  <2> HIDE DEF n, m, g, R, Q
  <2>4. Q("Retries") <= Q("Attempts") /\ Q("Successes") + Q("Failures") + m <= Q("Attempts")
    BY <1>1, <1>4, <1>5, <2>1, <2>2, <2>3
  <2> QED
    BY <2>4 DEF WithinOf, m, Q, recorded
<1>7. CASE ~(op = o /\ in)
  <2>1. g <= 0
    <3>1. CASE op = o
      BY <1>7, <3>1
    <3>2. CASE op # o
      BY <3>2 DEF moved, Owed
    <3> QED
      BY <3>1, <3>2
  <2>2. /\ Q("Attempts") = R("Attempts") /\ Q("Retries") = R("Retries")
        /\ Q("Successes") = R("Successes") /\ Q("Failures") = R("Failures")
    BY <1>2, <1>3, <1>5, <1>7
  <2>3. R("Attempts") \in Nat /\ R("Retries") \in Nat /\ R("Successes") \in Nat /\ R("Failures") \in Nat
    BY <1>2, <1>5
  <2> HIDE DEF n, m, g, R, Q
  <2>4. Q("Retries") <= Q("Attempts") /\ Q("Successes") + Q("Failures") + m <= Q("Attempts")
    BY <1>1, <1>4, <2>1, <2>2, <2>3
  <2> QED
    BY <2>4 DEF WithinOf, m, Q, recorded
<1> QED
  BY <1>6, <1>7

\* No step lets an operation end more often than it has tried.
LEMMA NextWithin == IInv /\ Books /\ Entries /\ Within /\ [Next]_vars => Within'
<1> SUFFICES ASSUME IInv, Books, Entries, Within, [Next]_vars PROVE Within'
  OBVIOUS
<1>0. tally \in TallyType /\ metrics \in MetricsType
  BY DEF Books, IInv
<1>1. CASE UNCHANGED vars \/ Tick
  <2>1. thread' = thread /\ metrics' = metrics
    BY <1>1 DEF vars, Tick
  <2> QED
    BY <2>1 DEF Within, WithinOf, Count, recorded
<1>2. ASSUME NEW w \in Workers, NEW op \in Operations, NEW ctx \in BOOLEAN,
             Begin(w, op, ctx) \/ Refused(w, op, ctx) \/ NotImplemented(w, op, ctx)
      PROVE  Within'
  <2>1. PICK v \in Threads : /\ Goto(w, v) /\ v.calls = 0 /\ v.pc \in {"loop", "returned"}
                             /\ metrics' = metrics
    BY <1>0, <1>2, EnterMove
  <2>2. \A o : v \notin Owed(o)
    BY <2>1 DEF Owed
  <2> QED
    BY <2>1, <2>2, KeptWithin
<1>3. ASSUME NEW w \in Workers, Step(w) \/ Cancel(w) PROVE Within'
  <2> DEFINE t == thread[w]
             o == t.op
  <2>0. KnownIn(metrics, t) /\ t \in Threads /\ t.calls \in Nat /\ o \in Operations
    BY DEF Entries, IInv, Threads
  <2>1. CASE Exhausted(w) \/ SeeCancelled(w) \/ WakeUp(w) \/ CancelledInBackoff(w) \/ Cancel(w)
    <3>1. PICK v : /\ Goto(w, v) /\ Keeps(t, v) /\ v.calls = t.calls
                   /\ t.pc \in {"loop", "backoff", "calling", "succeeding", "failing"}
                   /\ v.pc \in {"backoff", "calling"} => t.pc \in {"backoff", "calling"}
                   /\ metrics' = metrics
      BY <1>0, <2>1, QuietMove
    <3>2. \A x \in Operations : v \in Owed(x) => t \in Owed(x)
      <4> HIDE DEF t, o
      <4> QED
        BY <2>0, <3>1 DEF Owed, Keeps
    <3> QED
      BY <3>1, <3>2, KeptWithin
  <2>2. CASE Attempt(w)
    <3>1. PICK v : /\ Goto(w, v) /\ Keeps(t, v) /\ v.pc \in {"backoff", "calling"}
                   /\ t.pc = "loop"
                   /\ o \in DOMAIN metrics'.OperationMetrics
                   /\ \E d \in [counters -> {0, 1}] :
                          Entered(metrics, metrics', o, d) /\ d["Attempts"] = 1
                          /\ d["Failures"] = 0 /\ d["Successes"] = 0
      BY <2>2, AttemptMove
    <3>2. PICK d \in [counters -> {0, 1}] :
                    /\ Entered(metrics, metrics', o, d) /\ d["Attempts"] = 1
                    /\ d["Failures"] = 0 /\ d["Successes"] = 0
      BY <3>1
    <3>3. d["Retries"] <= d["Attempts"]
      BY <3>2 DEF counters
    <3>4. /\ moved(t, v, Owed(o)) \in Int /\ moved(t, v, Owed(o)) <= 1
      BY DEF moved
    <3>5. d["Successes"] + d["Failures"] + moved(t, v, Owed(o)) <= d["Attempts"]
      BY <3>2, <3>4
    <3> QED
      BY <2>0, <3>1, <3>2, <3>3, <3>5, EnteredWithin DEF Keeps
  <2>3. CASE Invoke(w)
    <3>1. PICK v : /\ Goto(w, v) /\ Keeps(t, v) /\ t.pc = "calling" /\ metrics' = metrics
      BY <1>0, <2>3, CallMove
    <3>2. \A x \in Operations : v \in Owed(x) => t \in Owed(x)
      BY <2>0, <3>1 DEF Owed, Keeps
    <3> QED
      BY <3>1, <3>2, KeptWithin
  <2>4. CASE Succeed(w) \/ Fail(w)
    <3>1. PICK v, c :
                   /\ Goto(w, v) /\ Keeps(t, v) /\ v.pc = "reporting"
                   /\ t.pc = (IF c = "Failures" THEN "failing" ELSE "succeeding")
                   /\ v.calls = t.calls /\ c \in {"Successes", "Failures"}
                   /\ Entered(metrics, metrics', o, only(c))
                   /\ DOMAIN metrics'.OperationMetrics = DOMAIN metrics.OperationMetrics
                   /\ v.err # NoError \/ GetPolicy(v.op) > 0 => v.calls > 0
      BY <2>4, EndMove, Zenon
    <3> DEFINE d == only(c)
               g == moved(t, v, Owed(o))
    <3>2. /\ d \in [counters -> {0, 1}] /\ d["Retries"] = 0 /\ d["Attempts"] = 0
          /\ d["Successes"] + d["Failures"] = 1
      BY <3>1 DEF only, counters
    <3>3. v \notin Owed(o)
      BY <3>1 DEF Owed
    <3>4. o \in DOMAIN metrics'.OperationMetrics => t \in Owed(o)
      BY <2>0, <3>1 DEF Owed, Entries, Keeps
    <3>5. g \in Int /\ g <= 0 /\ (o \in DOMAIN metrics'.OperationMetrics => g = 0 - 1)
      BY <3>3, <3>4 DEF moved
    <3>6. /\ d["Retries"] <= d["Attempts"]
          /\ o \in DOMAIN metrics'.OperationMetrics
                 => d["Successes"] + d["Failures"] + g <= d["Attempts"]
      BY <3>2, <3>5
    <3> HIDE DEF d
    <3> QED
      BY <2>0, <3>1, <3>2, <3>5, <3>6, EnteredWithin DEF Keeps, d
  <2>5. CASE Return(w)
    <3>1. PICK v : /\ Goto(w, v) /\ Keeps(t, v) /\ v.pc = "returned" /\ metrics' = metrics
      BY <2>5, ReturnMove
    <3>2. \A x : v \notin Owed(x)
      BY <3>1 DEF Owed
    <3> QED
      BY <3>1, <3>2, KeptWithin
  <2> QED
    BY <1>3, <2>1, <2>2, <2>3, <2>4, <2>5 DEF Step
<1> QED
  BY <1>1, <1>2, <1>3, TargetType DEF Next, Method, ContextMethod

\* Nothing has been tried.
LEMMA InitWithin == Init => Within
<1> SUFFICES ASSUME Init, NEW op \in Operations PROVE WithinOf(op)
  BY DEF Within
<1>1. \A w \in Workers : thread[w].pc = "idle"
  BY IdleThread, RetryFSAssumption DEF Init
<1>2. {w \in Workers : thread[w] \in Owed(op)} = {}
  BY <1>1 DEF Owed
<1>3. Count(Owed(op)) = 0
  BY <1>2, FS_EmptySet DEF Count
<1>4. \A c : recorded(metrics, op, c) = 0
  BY DEF Init, NewMetrics, recorded
<1> QED
  BY <1>3, <1>4 DEF WithinOf

-----------------------------------------------------------------------------
(* The scrape                                                              *)

\* n is m or comes after it: no counter of an operation is smaller, and neither
\* is the number of the attempts of the others.
Later(m, n) ==
    /\ DOMAIN m.OperationMetrics \subseteq DOMAIN n.OperationMetrics
    /\ \A op \in Operations :
           /\ \A c \in counters : recorded(m, op, c) <= recorded(n, op, c)
           /\ m.Total.Attempts - recorded(m, op, "Attempts")
                  <= n.Total.Attempts - recorded(n, op, "Attempts")
    /\ \A e \in ErrorClass : m.ErrorsByClass[e] <= n.ErrorsByClass[e]

\* What a scrape sends.
Samples == [ops     : UNION {[S -> Counts] : S \in SUBSET Operations},
            classes : UNION {[S -> Nat] : S \in SUBSET ErrorClass}]

\* s shows no more than there is in m.
NotAbove(s, m) ==
    /\ DOMAIN s.ops \subseteq DOMAIN m.OperationMetrics
    /\ \A op \in DOMAIN s.ops : \A c \in counters : s.ops[op][c] <= recorded(m, op, c)
    /\ DOMAIN s.classes \subseteq ClassesOf(m)
    /\ \A e \in DOMAIN s.classes : s.classes[e] <= m.ErrorsByClass[e]

\* s shows no less than there is in m.
NotBelow(s, m) ==
    /\ \A op \in DOMAIN s.ops : \A c \in counters : recorded(m, op, c) <= s.ops[op][c]
    /\ \A e \in DOMAIN s.classes : m.ErrorsByClass[e] <= s.classes[e]

\* The previous scrape shows no more than what this one has been given to start
\* from, and this one is between that and the present.
Scraping ==
    /\ scrape \in [pc : {"idle", "operations", "classes"}, seen : MetricsType, sent : Samples]
    /\ last \in Samples
    /\ scrape.pc = "idle" =>
           /\ DOMAIN sent.ops = {} /\ DOMAIN sent.classes = {}
           /\ NotAbove(last, metrics)
    /\ scrape.pc # "idle" =>
           /\ NotAbove(last, scrape.seen) /\ Later(scrape.seen, metrics)
           /\ NotBelow(sent, scrape.seen) /\ NotAbove(sent, metrics)
    /\ scrape.pc = "classes" => DOMAIN scrape.seen.OperationMetrics \subseteq DOMAIN sent.ops

\* The samples and the metrics are tables of numbers.
LEMMA SampleFields ==
    ASSUME NEW s \in Samples
    PROVE  /\ DOMAIN s.ops \subseteq Operations /\ s.ops \in [DOMAIN s.ops -> Counts]
           /\ DOMAIN s.classes \subseteq ErrorClass /\ s.classes \in [DOMAIN s.classes -> Nat]
           /\ \A op \in DOMAIN s.ops : \A c \in counters : s.ops[op][c] \in Nat
           /\ \A e \in DOMAIN s.classes : s.classes[e] \in Nat
<1>1. PICK S \in SUBSET Operations : s.ops \in [S -> Counts]
  BY DEF Samples
<1>2. PICK C \in SUBSET ErrorClass : s.classes \in [C -> Nat]
  BY DEF Samples
<1>3. \A T \in Counts : \A c \in counters : T[c] \in Nat
  BY DEF Counts, counters
<1> QED
  BY <1>1, <1>2, <1>3

\* Nothing has been sent.
LEMMA NothingSent ==
    /\ Nothing \in Samples /\ DOMAIN Nothing.ops = {} /\ DOMAIN Nothing.classes = {}
    /\ \A m : NotBelow(Nothing, m) /\ NotAbove(Nothing, m)
<1>1. Nothing.ops \in [{} -> Counts] /\ Nothing.classes \in [{} -> Nat]
  BY DEF Nothing
<1>2. Nothing \in Samples
  BY <1>1 DEF Nothing, Samples
<1>3. DOMAIN Nothing.ops = {} /\ DOMAIN Nothing.classes = {}
  BY <1>1
<1> QED
  BY <1>2, <1>3 DEF NotBelow, NotAbove

\* Nothing comes after itself.
LEMMA LaterSelf == ASSUME NEW m \in MetricsType PROVE Later(m, m)
<1>1. /\ \A op : \A c \in counters : recorded(m, op, c) \in Nat
      /\ m.Total \in Counts /\ m.ErrorsByClass \in [ErrorClass -> Nat]
  BY MetricsFields
<1>2. m.Total.Attempts \in Nat /\ "Attempts" \in counters
  BY <1>1 DEF Counts, counters
<1>3. \A op : m.Total.Attempts - recorded(m, op, "Attempts") \in Int
  BY <1>1, <1>2
<1> QED
  BY <1>1, <1>3 DEF Later

\* What comes after what comes after m comes after m.
LEMMA LaterStill ==
    ASSUME NEW l \in MetricsType, NEW m \in MetricsType, NEW n \in MetricsType,
           Later(l, m), Later(m, n)
    PROVE  Later(l, n)
<1>1. ASSUME NEW x \in {l, m, n}
      PROVE  /\ \A op : \A c \in counters : recorded(x, op, c) \in Int
             /\ x.Total.Attempts \in Int
             /\ \A e \in ErrorClass : x.ErrorsByClass[e] \in Int
             /\ "Attempts" \in counters
  <2>1. /\ \A op : \A c \in counters : recorded(x, op, c) \in Nat
        /\ x.Total \in Counts /\ x.ErrorsByClass \in [ErrorClass -> Nat]
    BY MetricsFields
  <2> QED
    BY <2>1 DEF Counts, counters
<1>2. \A i \in Int : \A j \in Int : \A k \in Int : i <= j /\ j <= k => i <= k
  OBVIOUS
<1>3. ASSUME NEW op \in Operations, NEW c \in counters
      PROVE  recorded(l, op, c) <= recorded(n, op, c)
  BY <1>1, <1>2 DEF Later
<1>4. ASSUME NEW op \in Operations
      PROVE  l.Total.Attempts - recorded(l, op, "Attempts")
                 <= n.Total.Attempts - recorded(n, op, "Attempts")
  <2> DEFINE others(x) == x.Total.Attempts - recorded(x, op, "Attempts")
  <2>1. others(l) <= others(m) /\ others(m) <= others(n)
    BY DEF Later
  <2>2. others(l) \in Int /\ others(m) \in Int /\ others(n) \in Int
    BY <1>1
  <2> HIDE DEF others
  <2>3. others(l) <= others(n)
    BY <2>1, <2>2
  <2> QED
    BY <2>3 DEF others
<1>5. ASSUME NEW e \in ErrorClass PROVE l.ErrorsByClass[e] <= n.ErrorsByClass[e]
  BY <1>1, <1>2 DEF Later
<1>6. DOMAIN l.OperationMetrics \subseteq DOMAIN n.OperationMetrics
  BY DEF Later
<1> QED
  BY <1>3, <1>4, <1>5, <1>6 DEF Later

\* What was not too much is not too much later.
LEMMA NotAboveLater ==
    ASSUME NEW m \in MetricsType, NEW n \in MetricsType, Later(m, n),
           NEW s \in Samples, NotAbove(s, m)
    PROVE  NotAbove(s, n)
<1>1. \A i \in Nat : \A j \in Nat : \A k \in Nat : i <= j /\ j <= k => i <= k
  OBVIOUS
<1>2. /\ \A op : \A c \in counters : recorded(m, op, c) \in Nat /\ recorded(n, op, c) \in Nat
      /\ \A e \in ErrorClass : m.ErrorsByClass[e] \in Nat /\ n.ErrorsByClass[e] \in Nat
  BY MetricsFields
<1>3. /\ DOMAIN s.ops \subseteq Operations /\ DOMAIN s.classes \subseteq ErrorClass
      /\ \A op \in DOMAIN s.ops : \A c \in counters : s.ops[op][c] \in Nat
      /\ \A e \in DOMAIN s.classes : s.classes[e] \in Nat
  BY SampleFields
<1>4. ASSUME NEW op \in DOMAIN s.ops, NEW c \in counters
      PROVE  s.ops[op][c] <= recorded(n, op, c)
  BY <1>1, <1>2, <1>3 DEF NotAbove, Later
<1>5. ASSUME NEW e \in DOMAIN s.classes PROVE s.classes[e] <= n.ErrorsByClass[e]
  BY <1>1, <1>2, <1>3 DEF NotAbove, Later
<1>6. DOMAIN s.classes \subseteq ClassesOf(n)
  <2> SUFFICES ASSUME NEW e \in DOMAIN s.classes PROVE e \in ClassesOf(n)
    OBVIOUS
  <2>1. e \in ErrorClass /\ m.ErrorsByClass[e] > 0 /\ m.ErrorsByClass[e] <= n.ErrorsByClass[e]
    BY <1>3 DEF NotAbove, Later, ClassesOf
  <2>2. m.ErrorsByClass[e] \in Nat /\ n.ErrorsByClass[e] \in Nat
    BY <1>2, <2>1
  <2>3. n.ErrorsByClass[e] > 0
    BY <2>1, <2>2
  <2> QED
    BY <2>1, <2>3 DEF ClassesOf
<1> QED
  BY <1>4, <1>5, <1>6 DEF NotAbove, Later

\* Every step of an operation takes the metrics forward.
LEMMA Forward ==
    ASSUME IInv, Books, Entries, [Next]_vars
    PROVE  metrics \in MetricsType /\ metrics' \in MetricsType /\ Later(metrics, metrics')
<1>0. metrics \in MetricsType
  BY DEF IInv
<1>1. CASE metrics' = metrics
  BY <1>0, <1>1, LaterSelf
<1>2. CASE metrics' # metrics
  <2>1. PICK o \in Operations : \E d \in [counters -> {0, 1}] :
            /\ Entered(metrics, metrics', o, d)
            /\ \/ metrics'.ErrorsByClass = metrics.ErrorsByClass
               \/ \E e \in ErrorClass : metrics'.ErrorsByClass =
                         [metrics.ErrorsByClass EXCEPT ![e] = metrics.ErrorsByClass[e] + 1]
    BY <1>2, MetricsStep
  <2>2. PICK d \in [counters -> {0, 1}] :
            /\ Entered(metrics, metrics', o, d)
            /\ \/ metrics'.ErrorsByClass = metrics.ErrorsByClass
               \/ \E e \in ErrorClass : metrics'.ErrorsByClass =
                         [metrics.ErrorsByClass EXCEPT ![e] = metrics.ErrorsByClass[e] + 1]
    BY <2>1
  <2> DEFINE m == metrics
             n == metrics'
  <2>3. m \in MetricsType /\ n \in MetricsType
    BY <2>2 DEF Entered
  <2>4. /\ \A op : \A c \in counters : recorded(m, op, c) \in Nat /\ recorded(n, op, c) \in Nat
        /\ m.Total.Attempts \in Nat /\ n.Total.Attempts \in Nat
        /\ m.ErrorsByClass \in [ErrorClass -> Nat]
        /\ "Attempts" \in counters
    <3>1. /\ \A op : \A c \in counters : recorded(m, op, c) \in Nat /\ recorded(n, op, c) \in Nat
          /\ m.ErrorsByClass \in [ErrorClass -> Nat] /\ m.Total \in Counts /\ n.Total \in Counts
      BY <2>3, MetricsFields
    <3> QED
      BY <3>1 DEF Counts, counters
  <2>5. \A c \in counters : d[c] \in {0, 1}
    OBVIOUS
  <2>6. DOMAIN m.OperationMetrics \subseteq DOMAIN n.OperationMetrics
    BY <2>2 DEF Entered
  <2>7. \A e \in ErrorClass : m.ErrorsByClass[e] <= n.ErrorsByClass[e]
    <3> DEFINE g == m.ErrorsByClass
               h == n.ErrorsByClass
    <3>1. g \in [ErrorClass -> Nat]
      BY <2>4
    <3>2. h = g \/ \E e \in ErrorClass : h = [g EXCEPT ![e] = g[e] + 1]
      BY <2>2
    <3> HIDE DEF g, h
    <3>3. \A e \in ErrorClass : g[e] <= h[e]
      BY <3>1, <3>2
    <3> QED
      BY <3>3 DEF g, h
  <2>8. /\ \A c \in counters : recorded(n, o, c) = recorded(m, o, c)
                              \/ recorded(n, o, c) = recorded(m, o, c) + d[c]
        /\ \A op \in Operations \ {o} : \A c \in counters : recorded(n, op, c) = recorded(m, op, c)
        /\ n.Total.Attempts = m.Total.Attempts + d["Attempts"]
    BY <2>2, <2>4 DEF Entered
  <2> HIDE DEF m, n
  <2>9. ASSUME NEW op \in Operations
        PROVE  /\ \A c \in counters : recorded(m, op, c) <= recorded(n, op, c)
               /\ m.Total.Attempts - recorded(m, op, "Attempts")
                      <= n.Total.Attempts - recorded(n, op, "Attempts")
    <3> DEFINE a == recorded(m, op, "Attempts")
               b == recorded(n, op, "Attempts")
               i == m.Total.Attempts
               j == n.Total.Attempts
               x == d["Attempts"]
    <3>1. ASSUME NEW c \in counters PROVE recorded(m, op, c) <= recorded(n, op, c)
      <4>1. recorded(n, op, c) = recorded(m, op, c) \/ recorded(n, op, c) = recorded(m, op, c) + d[c]
        BY <2>8
      <4>2. recorded(m, op, c) \in Nat /\ d[c] \in {0, 1}
        BY <2>4, <2>5
      <4> QED
        BY <4>1, <4>2
    <3>2. (b = a \/ b = a + x) /\ j = i + x
      BY <2>4, <2>8
    <3>3. a \in Nat /\ i \in Nat /\ x \in {0, 1}
      BY <2>4, <2>5
    <3> HIDE DEF a, b, i, j, x
    <3>4. i - a <= j - b
      BY <3>2, <3>3
    <3> QED
      BY <3>1, <3>4 DEF a, b, i, j
  <2>10. Later(m, n)
    BY <2>6, <2>7, <2>9 DEF Later, m, n
  <2> QED
    BY <2>3, <2>10 DEF m, n
<1> QED
  BY <1>1, <1>2

\* An operation makes a step while a scrape is going on, or none is.
LEMMA NextScraping ==
    ASSUME IInv, Books, Entries, Scraping, [Next]_vars, scrape' = scrape, last' = last
    PROVE  Scraping'
<1>1. metrics \in MetricsType /\ metrics' \in MetricsType /\ Later(metrics, metrics')
  BY Forward
<1>3. sent \in Samples /\ scrape.seen \in MetricsType /\ last \in Samples
  BY DEF Scraping, sent
<1>4. CASE scrape.pc = "idle"
  <2>1. NotAbove(last, metrics')
    BY <1>1, <1>3, <1>4, NotAboveLater DEF Scraping
  <2> QED
    BY <1>4, <2>1 DEF Scraping, sent
<1>5. CASE scrape.pc # "idle"
  <2>1. Later(scrape.seen, metrics')
    BY <1>1, <1>3, <1>5, LaterStill DEF Scraping
  <2>2. NotAbove(sent, metrics')
    BY <1>1, <1>3, <1>5, NotAboveLater DEF Scraping
  <2> QED
    BY <1>5, <2>1, <2>2 DEF Scraping, sent
<1> QED
  BY <1>4, <1>5

\* The scrape begins with what the previous one was given, or more.
LEMMA StartScraping ==
    ASSUME IInv, Scraping, StartCollect
    PROVE  Scraping'
<1>1. /\ metrics \in MetricsType /\ metrics' = metrics /\ last' = last /\ scrape.pc = "idle"
      /\ scrape' = [pc |-> "operations", seen |-> metrics, sent |-> Nothing]
  BY DEF IInv, StartCollect, vars, GetMetrics
<1>2. Nothing \in Samples /\ NotBelow(Nothing, metrics) /\ NotAbove(Nothing, metrics)
  BY NothingSent
<1>3. Later(metrics, metrics)
  BY <1>1, LaterSelf
<1>4. last \in Samples /\ NotAbove(last, metrics)
  BY <1>1 DEF Scraping
<1>5. /\ scrape' \in [pc : {"idle", "operations", "classes"}, seen : MetricsType, sent : Samples]
      /\ scrape'.pc = "operations" /\ scrape'.seen = metrics /\ scrape'.sent = Nothing
  BY <1>1, <1>2
<1> QED
  BY <1>1, <1>2, <1>3, <1>4, <1>5 DEF Scraping, sent

\* The four counters of an operation are read.
LEMMA OperationScraping ==
    ASSUME IInv, Scraping, NEW op \in Operations, CollectOperation(op)
    PROVE  Scraping'
<1> DEFINE m == metrics
           seen == scrape.seen
           old == scrape.sent
<1>1. /\ m \in MetricsType /\ seen \in MetricsType /\ old \in Samples /\ last \in Samples
      /\ scrape \in [pc : {"idle", "operations", "classes"}, seen : MetricsType, sent : Samples]
      /\ scrape.pc = "operations" /\ metrics' = metrics /\ last' = last
      /\ op \in DOMAIN m.OperationMetrics /\ op \notin DOMAIN old.ops
  BY DEF IInv, Scraping, CollectOperation, vars
<1>2. /\ NotAbove(last, seen) /\ Later(seen, m) /\ NotBelow(old, seen) /\ NotAbove(old, m)
  BY <1>1 DEF Scraping, sent
<1>3. PICK v : /\ scrape' = [scrape EXCEPT !.sent.ops = With(@, op, v)]
               /\ v \in Counts
               /\ \A c \in counters : recorded(seen, op, c) <= v[c] /\ v[c] <= recorded(m, op, c)
  <2>1. PICK a \in Racy(op, "Attempts"), r \in Racy(op, "Retries"),
             s \in Racy(op, "Successes"), f \in Racy(op, "Failures") :
           scrape' = [scrape EXCEPT !.sent.ops = With(@, op,
               [Attempts |-> a, Retries |-> r, Successes |-> s, Failures |-> f])]
    BY DEF CollectOperation
  <2>2. \A c \in counters : /\ recorded(seen, op, c) \in Nat /\ recorded(m, op, c) \in Nat
                             /\ Racy(op, c) = recorded(seen, op, c) .. recorded(m, op, c)
    <3>1. \A c \in counters : recorded(seen, op, c) \in Nat /\ recorded(m, op, c) \in Nat
      BY <1>1, MetricsFields
    <3>2. \A c : recorded(m, op, c) = m.OperationMetrics[op][c]
      BY <1>1 DEF recorded
    <3>3. \A c : Racy(op, c) = recorded(seen, op, c) .. recorded(m, op, c)
      BY <3>2, Zenon DEF Racy
    <3> QED
      BY <3>1, <3>3
  <2>3. \A c \in counters : \A x \in Racy(op, c) :
            x \in Nat /\ recorded(seen, op, c) <= x /\ x <= recorded(m, op, c)
    BY <2>2
  <2> DEFINE v == [Attempts |-> a, Retries |-> r, Successes |-> s, Failures |-> f]
  <2>4. v["Attempts"] = a /\ v["Retries"] = r /\ v["Successes"] = s /\ v["Failures"] = f
    OBVIOUS
  <2>5. {"Attempts", "Retries", "Successes", "Failures"} \subseteq counters
    BY DEF counters
  <2>6. a \in Nat /\ r \in Nat /\ s \in Nat /\ f \in Nat
    BY <2>3, <2>5
  <2>7. v \in Counts
    BY <2>6 DEF Counts
  <2>8. scrape' = [scrape EXCEPT !.sent.ops = With(@, op, v)]
    BY <2>1
  <2> HIDE DEF v
  <2>9. \A c \in counters : recorded(seen, op, c) <= v[c] /\ v[c] <= recorded(m, op, c)
    BY <2>3, <2>4, <2>5 DEF counters
  <2> QED
    BY <2>7, <2>8, <2>9
<1> DEFINE ops == With(old.ops, op, v)
           new == [old EXCEPT !.ops = ops]
<1>4. /\ scrape'.pc = "operations" /\ scrape'.seen = seen /\ scrape'.sent = new
      /\ scrape' = [scrape EXCEPT !.sent = new]
  BY <1>1, <1>3
<1>5. /\ DOMAIN old.ops \subseteq Operations /\ old.ops \in [DOMAIN old.ops -> Counts]
  BY <1>1, SampleFields
<1>6. /\ DOMAIN ops = DOMAIN old.ops \cup {op} /\ DOMAIN ops \in SUBSET Operations
      /\ ops \in [DOMAIN old.ops \cup {op} -> Counts] /\ ops[op] = v
      /\ \A x \in DOMAIN old.ops : x # op => ops[x] = old.ops[x]
  BY <1>3, <1>5 DEF With
<1> HIDE DEF ops
<1>7. new \in Samples /\ new.ops = ops /\ new.classes = old.classes
  BY <1>1, <1>6 DEF Samples
<1> HIDE DEF new
<1>8. NotBelow(new, seen) /\ NotAbove(new, m)
  <2>1. ASSUME NEW x \in DOMAIN ops, NEW c \in counters
        PROVE  recorded(seen, x, c) <= ops[x][c] /\ ops[x][c] <= recorded(m, x, c)
    BY <1>2, <1>3, <1>6 DEF NotBelow, NotAbove
  <2>2. DOMAIN ops \subseteq DOMAIN m.OperationMetrics
    BY <1>1, <1>2, <1>6 DEF NotAbove
  <2> QED
    BY <1>2, <1>7, <2>1, <2>2 DEF NotBelow, NotAbove
<1>9. scrape' \in [pc : {"idle", "operations", "classes"}, seen : MetricsType, sent : Samples]
  BY <1>1, <1>4, <1>7
<1> QED
  BY <1>1, <1>2, <1>4, <1>7, <1>8, <1>9 DEF Scraping, sent

\* The counter of a class is read.
LEMMA ClassScraping ==
    ASSUME IInv, Scraping, NEW e \in ErrorClass, CollectClass(e)
    PROVE  Scraping'
<1> DEFINE m == metrics
           seen == scrape.seen
           old == scrape.sent
<1>1. /\ m \in MetricsType /\ seen \in MetricsType /\ old \in Samples /\ last \in Samples
      /\ scrape \in [pc : {"idle", "operations", "classes"}, seen : MetricsType, sent : Samples]
      /\ scrape.pc = "classes" /\ metrics' = metrics /\ last' = last
  BY DEF IInv, Scraping, CollectClass, vars
<1>2. /\ NotAbove(last, seen) /\ Later(seen, m) /\ NotBelow(old, seen) /\ NotAbove(old, m)
      /\ DOMAIN seen.OperationMetrics \subseteq DOMAIN old.ops
  BY <1>1 DEF Scraping, sent
<1>3. PICK v \in seen.ErrorsByClass[e] .. m.ErrorsByClass[e] :
          scrape' = [scrape EXCEPT !.sent.classes = With(@, e, v)]
  BY DEF CollectClass
<1>4. v \in Nat /\ seen.ErrorsByClass[e] <= v /\ v <= m.ErrorsByClass[e]
  <2>1. seen.ErrorsByClass \in [ErrorClass -> Nat] /\ m.ErrorsByClass \in [ErrorClass -> Nat]
    BY <1>1, MetricsFields
  <2>2. seen.ErrorsByClass[e] \in Nat /\ m.ErrorsByClass[e] \in Nat
    BY <2>1
  <2> QED
    BY <2>2
<1> DEFINE classes == With(old.classes, e, v)
           new == [old EXCEPT !.classes = classes]
<1>5. /\ scrape'.pc = "classes" /\ scrape'.seen = seen /\ scrape'.sent = new
      /\ scrape' = [scrape EXCEPT !.sent = new]
  BY <1>1, <1>3
<1>6. DOMAIN old.classes \subseteq ErrorClass /\ old.classes \in [DOMAIN old.classes -> Nat]
  BY <1>1, SampleFields
<1>7. /\ DOMAIN classes = DOMAIN old.classes \cup {e} /\ DOMAIN classes \in SUBSET ErrorClass
      /\ classes \in [DOMAIN old.classes \cup {e} -> Nat] /\ classes[e] = v
      /\ \A x \in DOMAIN old.classes : x # e => classes[x] = old.classes[x]
  BY <1>4, <1>6 DEF With
<1> HIDE DEF classes
<1>8. new \in Samples /\ new.ops = old.ops /\ new.classes = classes
  BY <1>1, <1>7 DEF Samples
<1> HIDE DEF new
<1>9. NotBelow(new, seen) /\ NotAbove(new, m)
  <2>1. ASSUME NEW x \in DOMAIN classes
        PROVE  seen.ErrorsByClass[x] <= classes[x] /\ classes[x] <= m.ErrorsByClass[x]
    BY <1>2, <1>4, <1>7 DEF NotBelow, NotAbove
  <2>2. DOMAIN classes \subseteq ClassesOf(m)
    <3>1. e \in ClassesOf(m)
      BY DEF CollectClass
    <3> QED
      BY <1>2, <1>7, <3>1 DEF NotAbove
  <2> QED
    BY <1>2, <1>8, <2>1, <2>2 DEF NotBelow, NotAbove
<1>10. scrape' \in [pc : {"idle", "operations", "classes"}, seen : MetricsType, sent : Samples]
  BY <1>1, <1>5, <1>8
<1> QED
  BY <1>1, <1>2, <1>5, <1>8, <1>9, <1>10 DEF Scraping, sent

\* A range loop ends, and the scrape with the second one.
LEMMA EndScraping ==
    ASSUME IInv, Scraping, EndOperations \/ EndCollect
    PROVE  Scraping'
<1>1. /\ metrics' = metrics /\ last \in Samples /\ sent \in Samples
      /\ scrape \in [pc : {"idle", "operations", "classes"}, seen : MetricsType, sent : Samples]
  BY DEF Scraping, sent, EndOperations, EndCollect, vars
<1>2. CASE EndOperations
  <2>1. /\ scrape.pc = "operations" /\ last' = last
        /\ DOMAIN scrape.seen.OperationMetrics \subseteq DOMAIN sent.ops
        /\ scrape' = [scrape EXCEPT !.pc = "classes"]
    BY <1>2 DEF EndOperations, sent
  <2>2. /\ scrape' \in [pc : {"idle", "operations", "classes"}, seen : MetricsType, sent : Samples]
        /\ scrape'.pc = "classes" /\ scrape'.seen = scrape.seen /\ scrape'.sent = scrape.sent
    BY <1>1, <2>1
  <2> QED
    BY <1>1, <2>1, <2>2 DEF Scraping, sent
<1>3. CASE EndCollect
  <2>1. scrape.pc = "classes" /\ last' = sent /\ scrape' = NotCollecting
    BY <1>3 DEF EndCollect, sent
  <2>2. /\ scrape' \in [pc : {"idle", "operations", "classes"}, seen : MetricsType, sent : Samples]
        /\ scrape'.pc = "idle" /\ scrape'.sent = Nothing
    BY <2>1, NothingSent, NewMetricsType DEF NotCollecting
  <2> QED
    BY <1>1, <2>1, <2>2, NothingSent DEF Scraping, sent
<1> QED
  BY <1>2, <1>3

-----------------------------------------------------------------------------
(* The theorems                                                            *)

\* The inductive invariant.
CollectorInv == IInv /\ Books /\ Entries /\ Within /\ Scraping

\* What a scrape has shown and what it can show next, in every reachable state.
THEOREM CollectorInductive == CollectorSpec => []CollectorInv
<1>1. CollectorInit => CollectorInv
  <2> SUFFICES ASSUME CollectorInit PROVE CollectorInv
    OBVIOUS
  <2>1. IInv /\ Books /\ Entries /\ Within
    BY InitIInv, InitBooks, InitSums, InitWithin DEF CollectorInit
  <2>2. /\ scrape \in [pc : {"idle", "operations", "classes"}, seen : MetricsType, sent : Samples]
        /\ scrape.pc = "idle" /\ scrape.sent = Nothing /\ last = Nothing
    BY NothingSent, NewMetricsType DEF CollectorInit, NotCollecting
  <2>3. Scraping
    BY <2>2, NothingSent DEF Scraping, sent
  <2> QED
    BY <2>1, <2>3 DEF CollectorInv
<1>2. CollectorInv /\ [CollectorNext]_allVars => CollectorInv'
  <2> SUFFICES ASSUME CollectorInv, [CollectorNext]_allVars PROVE CollectorInv'
    OBVIOUS
  <2>1. [Next]_vars
    BY DEF CollectorNext, Collect, StartCollect, CollectOperation, EndOperations, CollectClass,
           EndCollect, allVars
  <2>2. IInv' /\ Books' /\ Entries' /\ Within'
    BY <2>1, NextIInv, NextBooks, NextEntries, NextWithin DEF CollectorInv
  <2>3. IInv /\ Books /\ Entries /\ Scraping
    BY DEF CollectorInv
  <2>4. ASSUME UNCHANGED collectorVars PROVE Scraping'
    <3>1. scrape' = scrape /\ last' = last
      BY <2>4 DEF collectorVars
    <3> QED
      BY <2>1, <2>3, <3>1, NextScraping
  <2>5. ASSUME StartCollect PROVE Scraping'
    BY <2>3, <2>5, StartScraping
  <2>6. ASSUME NEW op \in Operations, CollectOperation(op) PROVE Scraping'
    BY <2>3, <2>6, OperationScraping
  <2>7. ASSUME NEW e \in ErrorClass, CollectClass(e) PROVE Scraping'
    BY <2>3, <2>7, ClassScraping
  <2>8. ASSUME EndOperations \/ EndCollect PROVE Scraping'
    BY <2>3, <2>8, EndScraping
  <2>9. Scraping'
    BY <2>4, <2>5, <2>6, <2>7, <2>8 DEF CollectorNext, Collect, allVars
  <2> QED
    BY <2>2, <2>9 DEF CollectorInv
<1> QED
  BY <1>1, <1>2, PTL DEF CollectorSpec

\* From one scrape to the next no counter of the collector goes back and no
\* series of an operation or a class disappears, although every value is read in
\* a race.
THEOREM ScrapesGoForward == CollectorSpec => []CountersNeverGoBack
<1>1. CollectorInv => CountersNeverGoBack
  <2> SUFFICES ASSUME Scraping PROVE CountersNeverGoBack
    BY DEF CollectorInv
  <2>1. sent \in Samples /\ last \in Samples /\ scrape.seen \in MetricsType
    BY DEF Scraping, sent
  <2>2. CASE scrape.pc = "idle"
    BY <2>2 DEF Scraping, CountersNeverGoBack
  <2>3. CASE scrape.pc # "idle"
    <3> DEFINE m == scrape.seen
    <3>0. \A i \in Nat : \A j \in Nat : \A k \in Nat : i <= j /\ j <= k => k >= i
      OBVIOUS
    <3>1. NotAbove(last, m) /\ NotBelow(sent, m)
      BY <2>3 DEF Scraping
    <3>2. /\ \A op : \A c \in counters : recorded(m, op, c) \in Nat
          /\ \A e \in ErrorClass : m.ErrorsByClass[e] \in Nat
      BY <2>1, MetricsFields
    <3>3. ASSUME NEW op \in DOMAIN sent.ops \cap DOMAIN last.ops, NEW c \in counters
          PROVE  sent.ops[op][c] >= last.ops[op][c]
      <4>1. sent.ops[op][c] \in Nat /\ last.ops[op][c] \in Nat
        BY <2>1, SampleFields
      <4>2. last.ops[op][c] <= recorded(m, op, c) /\ recorded(m, op, c) <= sent.ops[op][c]
        BY <3>1 DEF NotAbove, NotBelow
      <4> QED
        BY <3>0, <3>2, <4>1, <4>2
    <3>4. ASSUME NEW e \in DOMAIN sent.classes \cap DOMAIN last.classes
          PROVE  sent.classes[e] >= last.classes[e]
      <4>1. sent.classes[e] \in Nat /\ last.classes[e] \in Nat /\ e \in ErrorClass
        BY <2>1, SampleFields
      <4>2. last.classes[e] <= m.ErrorsByClass[e] /\ m.ErrorsByClass[e] <= sent.classes[e]
        BY <3>1 DEF NotAbove, NotBelow
      <4> QED
        BY <3>0, <3>2, <4>1, <4>2
    <3>5. scrape.pc = "classes" => DOMAIN last.ops \subseteq DOMAIN sent.ops
      BY <3>1 DEF Scraping, NotAbove
    <3>6. ClassesOf(m) \subseteq DOMAIN sent.classes
              => DOMAIN last.classes \subseteq DOMAIN sent.classes
      BY <3>1 DEF NotAbove
    <3> QED
      BY <3>3, <3>4, <3>5, <3>6 DEF CountersNeverGoBack
  <2> QED
    BY <2>2, <2>3
<1> QED
  BY <1>1, CollectorInductive, PTL

\* A scrape is not a snapshot, but it shows at most as many retries, or ended
\* operations, above the attempts as attempts were made while it ran.
THEOREM SkewBounded == CollectorSpec => []ScrapeSkewBounded
<1>1. CollectorInv => ScrapeSkewBounded
  <2> SUFFICES ASSUME IInv, Within, Scraping, NEW op \in DOMAIN sent.ops
               PROVE  LET during == metrics.Total.Attempts - scrape.seen.Total.Attempts
                          m == sent.ops[op]
                      IN  /\ m.Retries <= m.Attempts + during
                          /\ m.Successes + m.Failures <= m.Attempts + during
    BY DEF CollectorInv, ScrapeSkewBounded
  <2> DEFINE m == sent.ops[op]
             old == scrape.seen
             now == metrics
             i == old.Total.Attempts
             j == now.Total.Attempts
  <2>1. /\ sent \in Samples /\ old \in MetricsType /\ now \in MetricsType
        /\ scrape.pc # "idle"
    BY DEF Scraping, sent, IInv
  <2>2. NotAbove(sent, now) /\ NotBelow(sent, old) /\ Later(old, now)
    BY <2>1 DEF Scraping
  <2>3. /\ op \in Operations /\ \A c \in counters : m[c] \in Nat
        /\ {"Attempts", "Retries", "Successes", "Failures"} \subseteq counters
    BY <2>1, SampleFields DEF counters
  <2>4. /\ \A c \in counters : recorded(old, op, c) \in Nat /\ recorded(now, op, c) \in Nat
        /\ i \in Nat /\ j \in Nat
    <3>1. /\ \A c \in counters : recorded(old, op, c) \in Nat /\ recorded(now, op, c) \in Nat
          /\ old.Total \in Counts /\ now.Total \in Counts
      BY <2>1, MetricsFields
    <3> QED
      BY <3>1 DEF Counts
  <2>5. \A c \in counters : recorded(old, op, c) <= m[c] /\ m[c] <= recorded(now, op, c)
    BY <2>2 DEF NotAbove, NotBelow
  <2>6. i - recorded(old, op, "Attempts") <= j - recorded(now, op, "Attempts")
    BY <2>2, <2>3 DEF Later
  <2>7. Count(Owed(op)) \in Nat
    <3>1. IsFiniteSet({w \in Workers : thread[w] \in Owed(op)})
      BY RetryFSAssumption, FS_Subset
    <3> QED
      BY <3>1, FS_CardinalityType DEF Count
  <2>8. /\ recorded(now, op, "Retries") <= recorded(now, op, "Attempts")
        /\ recorded(now, op, "Successes") + recorded(now, op, "Failures") + Count(Owed(op))
               <= recorded(now, op, "Attempts")
    BY <2>3 DEF Within, WithinOf
  <2> DEFINE a == m["Attempts"]
             r == m["Retries"]
             s == m["Successes"]
             f == m["Failures"]
             A == recorded(now, op, "Attempts")
             R == recorded(now, op, "Retries")
             S == recorded(now, op, "Successes")
             F == recorded(now, op, "Failures")
             o == recorded(old, op, "Attempts")
             n == Count(Owed(op))
  <2>9. /\ a \in Nat /\ r \in Nat /\ s \in Nat /\ f \in Nat /\ A \in Nat /\ R \in Nat
        /\ S \in Nat /\ F \in Nat /\ o \in Nat /\ n \in Nat /\ i \in Nat /\ j \in Nat
        /\ o <= a /\ r <= R /\ s <= S /\ f <= F /\ R <= A /\ S + F + n <= A /\ i - o <= j - A
    BY <2>3, <2>4, <2>5, <2>6, <2>7, <2>8
  <2> HIDE DEF a, r, s, f, A, R, S, F, o, n, i, j
  <2>10. r <= a + (j - i) /\ s + f <= a + (j - i)
    BY <2>9
  <2> QED
    BY <2>10 DEF a, r, s, f, i, j
<1> QED
  BY <1>1, CollectorInductive, PTL
============================================================================
