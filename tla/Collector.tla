----------------------------- MODULE Collector -----------------------------
(***************************************************************************)
(* PrometheusCollector.Collect (src/prometheus.go) scraping a RetryFS that *)
(* is in use.                                                              *)
(*                                                                         *)
(* GetMetrics takes rfs.mu only to return the pointer; the maps and the    *)
(* counters behind it are then read without any lock while operations      *)
(* write them.  Such a read returns some value the counter has had since   *)
(* the collector last synchronised with the writers, in GetMetrics, and    *)
(* nothing orders two of them: the model lets each return any value from   *)
(* the one at that moment to the current one.  Iterating over a map that   *)
(* is written may also abort the process (NoWriteDuringScrape); the        *)
(* behaviours here are those in which it does not.                         *)
(***************************************************************************)
EXTENDS RetryFS

CONSTANT MaxScrapes     \* bound on the scrapes started

ASSUME CollectorAssumption == MaxScrapes \in Nat

VARIABLES
    scrape,     \* where Collect is, and what it has sent to the channel
    last,       \* history: what the previous scrape sent
    scrapes     \* history: the scrapes started

collectorVars == <<scrape, last, scrapes>>
allVars == <<vars, collectorVars>>

Nothing == [ops |-> [op \in {} |-> NewOperationMetrics], classes |-> [e \in {} |-> 0]]

NotCollecting == [pc |-> "idle", seen |-> NewMetrics, sent |-> Nothing]

CollectorInit ==
    /\ Init
    /\ scrape = NotCollecting
    /\ last = Nothing
    /\ scrapes = 0

\* The classes that have an entry in the map ErrorsByClass.
ClassesOf(m) == {e \in ErrorClass : m.ErrorsByClass[e] > 0}

\* Mutant: the pointer is read without rfs.mu, so nothing is synchronised.
GetMetricsUnlocked == NewMetrics

\* The collector sees at least what was recorded before it had rfs.mu.
GetMetrics == metrics

StartCollect ==
    /\ scrape.pc = "idle"
    /\ scrapes < MaxScrapes
    /\ scrape' = [pc |-> "operations", seen |-> GetMetrics, sent |-> Nothing]
    /\ scrapes' = scrapes + 1
    /\ UNCHANGED <<last, vars>>

\* What an unlocked read of op's counter may return.
Racy(op, counter) ==
    recorded(scrape.seen, op, counter) .. metrics.OperationMetrics[op][counter]

With(f, k, v) == [x \in DOMAIN f \cup {k} |-> IF x = k THEN v ELSE f[x]]

\* The range loop reaches op and reads its four counters.  An entry made
\* during the loop may be reached or not.
CollectOperation(op) ==
    /\ scrape.pc = "operations"
    /\ op \in DOMAIN metrics.OperationMetrics \ DOMAIN scrape.sent.ops
    /\ \E a \in Racy(op, "Attempts"), r \in Racy(op, "Retries"),
          s \in Racy(op, "Successes"), f \in Racy(op, "Failures") :
           scrape' = [scrape EXCEPT !.sent.ops = With(@, op,
               [Attempts |-> a, Retries |-> r, Successes |-> s, Failures |-> f])]
    /\ UNCHANGED <<last, scrapes, vars>>

EndOperations ==
    /\ scrape.pc = "operations"
    /\ DOMAIN scrape.seen.OperationMetrics \subseteq DOMAIN scrape.sent.ops
    /\ scrape' = [scrape EXCEPT !.pc = "classes"]
    /\ UNCHANGED <<last, scrapes, vars>>

CollectClass(e) ==
    /\ scrape.pc = "classes"
    /\ e \in ClassesOf(metrics) \ DOMAIN scrape.sent.classes
    /\ \E n \in scrape.seen.ErrorsByClass[e] .. metrics.ErrorsByClass[e] :
           scrape' = [scrape EXCEPT !.sent.classes = With(@, e, n)]
    /\ UNCHANGED <<last, scrapes, vars>>

\* The circuit breaker's gauges follow, read under cb.mu; then Collect returns.
EndCollect ==
    /\ scrape.pc = "classes"
    /\ ClassesOf(scrape.seen) \subseteq DOMAIN scrape.sent.classes
    /\ scrape' = NotCollecting
    /\ last' = scrape.sent
    /\ UNCHANGED <<scrapes, vars>>

Collect ==
    \/ StartCollect
    \/ \E op \in Operations : CollectOperation(op)
    \/ EndOperations
    \/ \E e \in ErrorClass : CollectClass(e)
    \/ EndCollect

CollectorNext == Collect \/ (Next /\ UNCHANGED collectorVars)

CollectorSpec == CollectorInit /\ [][CollectorNext]_allVars

-----------------------------------------------------------------------------
(* Properties that hold.                                                   *)

sent == scrape.sent

\* A counter never goes back from one scrape to the next (a monitor would take
\* that for a restart), and no series disappears, neither an operation's from a
\* scrape past them nor a class's from one that may end, although every value is
\* read in a race: GetMetrics holds rfs.mu after everything the previous scrape saw.
CountersNeverGoBack ==
    /\ \A op \in DOMAIN sent.ops \cap DOMAIN last.ops, c \in counters :
           sent.ops[op][c] >= last.ops[op][c]
    /\ \A e \in DOMAIN sent.classes \cap DOMAIN last.classes :
           sent.classes[e] >= last.classes[e]
    /\ scrape.pc = "classes" => DOMAIN last.ops \subseteq DOMAIN sent.ops
    /\ scrape.pc = "classes" /\ ClassesOf(scrape.seen) \subseteq DOMAIN sent.classes =>
           DOMAIN last.classes \subseteq DOMAIN sent.classes

\* One scrape is not a snapshot: it may show more retries than attempts.  It
\* is off by no more than the attempts made while it ran.
ScrapeSkewBounded ==
    LET during == metrics.Total.Attempts - scrape.seen.Total.Attempts
    IN  \A op \in DOMAIN sent.ops :
            LET m == sent.ops[op]
            IN  /\ m.Retries <= m.Attempts + during
                /\ m.Successes + m.Failures <= m.Attempts + during

-----------------------------------------------------------------------------
(* What the documentation says, and the code does not do.                  *)

\* PROJECT_STATUS.md:245, "Thread-safe implementation": no map is written while
\* a range loop runs over it.
NoWriteDuringScrape ==
    [][/\ scrape.pc = "operations" =>
              DOMAIN metrics'.OperationMetrics = DOMAIN metrics.OperationMetrics
       /\ scrape.pc = "classes" => metrics'.ErrorsByClass = metrics.ErrorsByClass
      ]_allVars
============================================================================
