---------------------------- MODULE LedgerProofs ----------------------------
(***************************************************************************)
(* The metrics of RetryFS operation by operation: the totals are the sums  *)
(* of the entries, a breaker that is not closed has been given enough      *)
(* failures by its own operation, and the calls behind an open breaker are *)
(* bounded.  For every set of goroutines and operations, every policy and  *)
(* every configuration of breakers.                                        *)
(***************************************************************************)
EXTENDS AccountingProofs

-----------------------------------------------------------------------------
(* Sums over a finite set                                                  *)

\* Induction over the set of the numbers for which a statement holds.
LEMMA SetInduction ==
    ASSUME NEW S, 0 \in S, \A n \in Nat : n \in S => n + 1 \in S
    PROVE  \A n \in Nat : n \in S
<1> SUFFICES ASSUME Nat \ S # {} PROVE FALSE
  OBVIOUS
<1> DEFINE less == {ss \in Nat \X Nat : ss[1] < ss[2]}
<1>1. IsWellFoundedOn(less, Nat)
  BY NatLessThanWellFounded, Zenon DEF OpToRel
<1> HIDE DEF less
<1>2. PICK n \in Nat \ S : \A m \in Nat \ S : ~(<<m, n>> \in less)
  BY <1>1, WFMin
<1>3. n # 0 /\ n - 1 \in Nat
  BY <1>2
<1>4. <<n - 1, n>> \in less
  BY <1>3 DEF less
<1> QED
  BY <1>2, <1>3, <1>4

\* The element a fold takes next, and what it leaves.
pick(s) == CHOOSE x \in s : TRUE
rest(s) == s \ {pick(s)}

\* The sums of g over the subsets of S.
sums(g, S) == CHOOSE sum : sum = [s \in SUBSET S |-> IF s = {} THEN 0 ELSE g[pick(s)] + sum[rest(s)]]

\* What is left is smaller.
LEMMA RestSmaller ==
    ASSUME NEW S, IsFiniteSet(S), NEW s \in SUBSET S, s # {}
    PROVE  /\ pick(s) \in s /\ rest(s) \in SUBSET S
           /\ Cardinality(s) \in Nat /\ Cardinality(rest(s)) = Cardinality(s) - 1
<1>1. pick(s) \in s
  BY DEF pick
<1>2. IsFiniteSet(s) /\ Cardinality(s) \in Nat
  BY FS_Subset, FS_CardinalityType
<1>3. Cardinality(rest(s)) = Cardinality(s) - 1
  BY <1>1, <1>2, FS_RemoveElement DEF rest
<1> QED
  BY <1>1, <1>2, <1>3 DEF rest

\* The recursion that defines the sum over a finite set has a solution.
LEMMA SumsExist ==
    ASSUME NEW S, IsFiniteSet(S), NEW g
    PROVE  sums(g, S) = [s \in SUBSET S |->
                            IF s = {} THEN 0 ELSE g[pick(s)] + sums(g, S)[rest(s)]]
<1> DEFINE Small(n) == {s \in SUBSET S : Cardinality(s) <= n}
           Adds(f, D) == f = [s \in D |-> IF s = {} THEN 0 ELSE g[pick(s)] + f[rest(s)]]
           N == {n \in Nat : \E f : Adds(f, Small(n))}
<1>0. \A s \in SUBSET S : /\ Cardinality(s) \in Nat /\ (Cardinality(s) = 0 <=> s = {})
                          /\ Cardinality(s) <= Cardinality(S)
  BY FS_Subset, FS_CardinalityType, FS_EmptySet
<1>1. 0 \in N
  <2> DEFINE f == [s \in Small(0) |-> 0]
  <2>1. \A s \in Small(0) : s = {}
    BY <1>0
  <2>2. Adds(f, Small(0))
    BY <2>1
  <2> HIDE DEF f
  <2>3. \E h : Adds(h, Small(0))
    BY <2>2
  <2> QED
    BY <2>3
<1>2. ASSUME NEW n \in Nat, n \in N PROVE n + 1 \in N
  <2>1. PICK f : Adds(f, Small(n))
    BY <1>2
  <2> DEFINE h == [s \in Small(n + 1) |-> IF s = {} THEN 0 ELSE g[pick(s)] + f[rest(s)]]
  <2>2. ASSUME NEW s \in Small(n + 1), s # {} PROVE h[rest(s)] = f[rest(s)]
    <3>1. /\ rest(s) \in SUBSET S /\ Cardinality(s) \in Nat
          /\ Cardinality(rest(s)) = Cardinality(s) - 1
      BY <2>2, RestSmaller
    <3>2. rest(s) \in Small(n) /\ rest(s) \in Small(n + 1)
      BY <3>1
    <3> DEFINE r == rest(s)
    <3> HIDE DEF r, Small
    <3>3. r \in Small(n) /\ r \in Small(n + 1)
      BY <3>2 DEF r
    <3>4. h[r] = IF r = {} THEN 0 ELSE g[pick(r)] + f[rest(r)]
      BY <3>3
    <3>5. f[r] = IF r = {} THEN 0 ELSE g[pick(r)] + f[rest(r)]
      BY <2>1, <3>3
    <3> QED
      BY <3>4, <3>5 DEF r
  <2>3. ASSUME NEW s \in Small(n + 1)
        PROVE  h[s] = IF s = {} THEN 0 ELSE g[pick(s)] + h[rest(s)]
    <3>1. CASE s = {}
      BY <3>1
    <3>2. CASE s # {}
      <4>1. h[s] = g[pick(s)] + f[rest(s)]
        BY <3>2
      <4> HIDE DEF h
      <4> QED
        BY <2>2, <3>2, <4>1
    <3> QED
      BY <3>1, <3>2
  <2>4. Adds(h, Small(n + 1))
    <3>1. h = [s \in Small(n + 1) |-> h[s]]
      OBVIOUS
    <3> HIDE DEF h, Small
    <3> QED
      BY <2>3, <3>1
  <2> HIDE DEF h
  <2>5. \E x : Adds(x, Small(n + 1))
    BY <2>4
  <2>6. n + 1 \in Nat
    OBVIOUS
  <2> QED
    BY <2>5, <2>6, Zenon
<1> HIDE DEF N
<1>3. Cardinality(S) \in N
  BY <1>1, <1>2, SetInduction, FS_CardinalityType
<1>4. Small(Cardinality(S)) = SUBSET S
  BY <1>0
<1>5. \E f : Adds(f, SUBSET S)
  BY <1>3, <1>4, Zenon DEF N
<1>6. Adds(sums(g, S), SUBSET S)
  BY <1>5 DEF sums
<1> QED
  BY <1>6

\* A sum changes as much as the one element that changes.
LEMMA SumChanges ==
    ASSUME NEW S, IsFiniteSet(S), NEW g \in [S -> Int], NEW h \in [S -> Int], NEW x \in S,
           \A y \in S \ {x} : h[y] = g[y]
    PROVE  /\ SumFunction(g) \in Int
           /\ SumFunction(h) = SumFunction(g) + (h[x] - g[x])
<1> DEFINE G == sums(g, S)
           H == sums(h, S)
           d == h[x] - g[x]
           N == {n \in Nat : \A s \in SUBSET S : Cardinality(s) = n =>
                    G[s] \in Int /\ H[s] = G[s] + (IF x \in s THEN d ELSE 0)}
<1>0. DOMAIN g = S /\ DOMAIN h = S
  OBVIOUS
<1>1. SumFunction(g) = G[S] /\ SumFunction(h) = H[S]
  BY <1>0, Zenon DEF SumFunction, SumFunctionOnSet, FoldFunctionOnSet, MapThenFoldSet, sums, pick, rest
<1>2. \A s \in SUBSET S : /\ G[s] = IF s = {} THEN 0 ELSE g[pick(s)] + G[rest(s)]
                          /\ H[s] = IF s = {} THEN 0 ELSE h[pick(s)] + H[rest(s)]
  <2>1. G = [s \in SUBSET S |-> IF s = {} THEN 0 ELSE g[pick(s)] + G[rest(s)]]
    BY SumsExist
  <2>2. H = [s \in SUBSET S |-> IF s = {} THEN 0 ELSE h[pick(s)] + H[rest(s)]]
    BY SumsExist
  <2> HIDE DEF G, H
  <2> QED
    BY <2>1, <2>2, Zenon
<1>3. d \in Int
  OBVIOUS
<1>4. \A s \in SUBSET S : Cardinality(s) \in Nat /\ (Cardinality(s) = 0 <=> s = {})
  BY FS_Subset, FS_CardinalityType, FS_EmptySet
<1> HIDE DEF G, H
<1>5. 0 \in N
  BY <1>2, <1>4
<1>6. ASSUME NEW n \in Nat, n \in N PROVE n + 1 \in N
  <2> SUFFICES ASSUME NEW s \in SUBSET S, Cardinality(s) = n + 1
               PROVE  G[s] \in Int /\ H[s] = G[s] + (IF x \in s THEN d ELSE 0)
    OBVIOUS
  <2> DEFINE y == pick(s)
             r == rest(s)
  <2>1. s # {}
    BY <1>4
  <2>2. y \in s /\ y \in S /\ r \in SUBSET S /\ Cardinality(r) = n
    BY <2>1, RestSmaller
  <2>3. G[r] \in Int /\ H[r] = G[r] + (IF x \in r THEN d ELSE 0)
    BY <1>6, <2>2
  <2>4. G[s] = g[y] + G[r] /\ H[s] = h[y] + H[r]
    BY <1>2, <2>1
  <2>5. g[y] \in Int /\ h[y] = g[y] + (IF y = x THEN d ELSE 0)
    BY <2>2
  <2>6. x \in s <=> (x \in r \/ x = y)
    BY <2>2 DEF rest
  <2>7. ~(x \in r /\ x = y)
    BY DEF rest
  <2> HIDE DEF y, r, d
  <2> QED
    BY <1>3, <2>3, <2>4, <2>5, <2>6, <2>7
<1> HIDE DEF N
<1>7. Cardinality(S) \in N
  BY <1>5, <1>6, SetInduction, FS_CardinalityType
<1>8. G[S] \in Int /\ H[S] = G[S] + d
  BY <1>7 DEF N
<1> QED
  BY <1>1, <1>8

\* Nothing adds up to nothing.
LEMMA SumOfNothing ==
    ASSUME NEW S, IsFiniteSet(S), NEW g, DOMAIN g = S, \A y \in S : g[y] = 0
    PROVE  SumFunction(g) = 0
<1> DEFINE G == sums(g, S)
           N == {n \in Nat : \A s \in SUBSET S : Cardinality(s) = n => G[s] = 0}
<1>1. SumFunction(g) = G[S]
  BY Zenon DEF SumFunction, SumFunctionOnSet, FoldFunctionOnSet, MapThenFoldSet, sums, pick, rest
<1>2. G = [s \in SUBSET S |-> IF s = {} THEN 0 ELSE g[pick(s)] + G[rest(s)]]
  BY SumsExist
<1> HIDE DEF G
<1>3. \A s \in SUBSET S : G[s] = IF s = {} THEN 0 ELSE g[pick(s)] + G[rest(s)]
  BY <1>2, Zenon
<1>4. \A s \in SUBSET S : Cardinality(s) \in Nat /\ (Cardinality(s) = 0 <=> s = {})
  BY FS_Subset, FS_CardinalityType, FS_EmptySet
<1>5. 0 \in N
  BY <1>3, <1>4
<1>6. ASSUME NEW n \in Nat, n \in N PROVE n + 1 \in N
  <2> SUFFICES ASSUME NEW s \in SUBSET S, Cardinality(s) = n + 1 PROVE G[s] = 0
    OBVIOUS
  <2>1. s # {}
    BY <1>4
  <2>2. pick(s) \in S /\ rest(s) \in SUBSET S /\ Cardinality(rest(s)) = n
    BY <2>1, RestSmaller
  <2>3. G[rest(s)] = 0 /\ g[pick(s)] = 0
    BY <1>6, <2>2
  <2> QED
    BY <1>3, <2>1, <2>3
<1> HIDE DEF N
<1>7. Cardinality(S) \in N
  BY <1>5, <1>6, SetInduction, FS_CardinalityType
<1> QED
  BY <1>1, <1>7 DEF N

\* A sum of numbers that are not negative is not.
LEMMA SumNonNegative ==
    ASSUME NEW S, IsFiniteSet(S), NEW g \in [S -> Int], \A y \in S : 0 <= g[y]
    PROVE  SumFunction(g) \in Int /\ 0 <= SumFunction(g)
<1> DEFINE G == sums(g, S)
           N == {n \in Nat : \A s \in SUBSET S : Cardinality(s) = n => G[s] \in Int /\ 0 <= G[s]}
<1>0. DOMAIN g = S
  OBVIOUS
<1>1. SumFunction(g) = G[S]
  BY <1>0, Zenon DEF SumFunction, SumFunctionOnSet, FoldFunctionOnSet, MapThenFoldSet, sums, pick, rest
<1>2. G = [s \in SUBSET S |-> IF s = {} THEN 0 ELSE g[pick(s)] + G[rest(s)]]
  BY SumsExist
<1> HIDE DEF G
<1>3. \A s \in SUBSET S : G[s] = IF s = {} THEN 0 ELSE g[pick(s)] + G[rest(s)]
  BY <1>2, Zenon
<1>4. \A s \in SUBSET S : Cardinality(s) \in Nat /\ (Cardinality(s) = 0 <=> s = {})
  BY FS_Subset, FS_CardinalityType, FS_EmptySet
<1>5. 0 \in N
  BY <1>3, <1>4
<1>6. ASSUME NEW n \in Nat, n \in N PROVE n + 1 \in N
  <2> SUFFICES ASSUME NEW s \in SUBSET S, Cardinality(s) = n + 1 PROVE G[s] \in Int /\ 0 <= G[s]
    OBVIOUS
  <2>1. s # {}
    BY <1>4
  <2>2. pick(s) \in S /\ rest(s) \in SUBSET S /\ Cardinality(rest(s)) = n
    BY <2>1, RestSmaller
  <2>3. G[rest(s)] \in Int /\ 0 <= G[rest(s)] /\ g[pick(s)] \in Int /\ 0 <= g[pick(s)]
    BY <1>6, <2>2
  <2> QED
    BY <1>3, <2>1, <2>3
<1> HIDE DEF N
<1>7. Cardinality(S) \in N
  BY <1>5, <1>6, SetInduction, FS_CardinalityType
<1> QED
  BY <1>1, <1>7 DEF N

-----------------------------------------------------------------------------
(* What the Record functions do to the entries                             *)

\* n is m with d[c] added to each counter c, in the totals and in op's entry
\* if it has one.
Entered(m, n, op, d) ==
    /\ m \in MetricsType /\ n \in MetricsType /\ d \in [counters -> {0, 1}]
    /\ DOMAIN m.OperationMetrics \subseteq DOMAIN n.OperationMetrics
    /\ DOMAIN n.OperationMetrics \subseteq DOMAIN m.OperationMetrics \cup {op}
    /\ \A c \in counters :
           /\ n.Total[c] = m.Total[c] + d[c]
           /\ recorded(n, op, c) =
                  recorded(m, op, c) + (IF op \in DOMAIN n.OperationMetrics THEN d[c] ELSE 0)
           /\ \A o \in Operations \ {op} : recorded(n, o, c) = recorded(m, o, c)

\* The counter c goes up by one, the others stay.
only(c) == [x \in counters |-> IF x = c THEN 1 ELSE 0]
attempted(isRetry) == [x \in counters |-> IF x = "Attempts" \/ (x = "Retries" /\ isRetry) THEN 1 ELSE 0]

\* The entries are tables of four numbers.
LEMMA MetricsFields ==
    ASSUME NEW m \in MetricsType
    PROVE  /\ m.OperationMetrics \in [DOMAIN m.OperationMetrics -> Counts]
           /\ DOMAIN m.OperationMetrics \subseteq Operations
           /\ m.Total \in Counts /\ m.ErrorsByClass \in [ErrorClass -> Nat]
           /\ \A T \in Counts : DOMAIN T = counters /\ \A c \in counters : T[c] \in Nat
           /\ \A op : \A c \in counters : recorded(m, op, c) \in Nat
<1>1. PICK S \in SUBSET Operations : m.OperationMetrics \in [S -> Counts]
  BY DEF MetricsType
<1>2. ASSUME NEW T \in Counts PROVE DOMAIN T = counters /\ \A c \in counters : T[c] \in Nat
  BY DEF Counts, counters
<1>3. m.Total \in Counts /\ m.ErrorsByClass \in [ErrorClass -> Nat]
  BY DEF MetricsType
<1>4. ASSUME NEW op, NEW c \in counters PROVE recorded(m, op, c) \in Nat
  BY <1>1, <1>2 DEF recorded
<1> QED
  BY <1>1, <1>2, <1>3, <1>4

\* RecordAttempt makes the entry if it is missing and counts in it.
LEMMA AttemptEntered ==
    ASSUME NEW m \in MetricsType, NEW op \in Operations, NEW isRetry \in BOOLEAN
    PROVE  LET n == RecordAttempt(m, op, isRetry)
           IN  /\ Entered(m, n, op, attempted(isRetry))
               /\ op \in DOMAIN n.OperationMetrics
               /\ n.ErrorsByClass = m.ErrorsByClass
<1> DEFINE n == RecordAttempt(m, op, isRetry)
           known == DOMAIN m.OperationMetrics
           om == IF op \in known THEN m.OperationMetrics[op] ELSE NewOperationMetrics
           oms == [o \in known \cup {op} |->
                      IF o = op THEN CountAttempt(om, isRetry) ELSE m.OperationMetrics[o]]
           d == attempted(isRetry)
<1>1. n \in MetricsType /\ n.Total = CountAttempt(m.Total, isRetry)
  BY RecordAttemptEffect
<1>2. n.OperationMetrics = oms /\ n.ErrorsByClass = m.ErrorsByClass
  <2> DEFINE tt == CountAttempt(m.Total, isRetry)
  <2>1. n = [m EXCEPT !.Total = tt, !.OperationMetrics = oms]
    BY Zenon DEF RecordAttempt
  <2> HIDE DEF tt, oms, n
  <2> QED
    BY <2>1 DEF MetricsType
<1>3. om \in Counts /\ \A c \in counters : om[c] = recorded(m, op, c)
  <2>1. NewOperationMetrics \in Counts /\ \A c \in counters : NewOperationMetrics[c] = 0
    BY DEF NewOperationMetrics, Counts, counters
  <2> QED
    BY <2>1, MetricsFields DEF recorded
<1>4. ASSUME NEW T \in Counts, NEW c \in counters
      PROVE  CountAttempt(T, isRetry)[c] = T[c] + d[c]
  <2>1. /\ CountAttempt(T, isRetry).Attempts = T.Attempts + 1
        /\ CountAttempt(T, isRetry).Retries = T.Retries + (IF isRetry THEN 1 ELSE 0)
        /\ CountAttempt(T, isRetry).Successes = T.Successes
        /\ CountAttempt(T, isRetry).Failures = T.Failures
    BY CountAttemptEffect
  <2>2. T[c] \in Nat
    BY MetricsFields
  <2>3. /\ d["Attempts"] = 1 /\ d["Retries"] = (IF isRetry THEN 1 ELSE 0)
        /\ d["Successes"] = 0 /\ d["Failures"] = 0
    BY DEF attempted, counters
  <2> HIDE DEF d
  <2> QED
    BY <2>1, <2>2, <2>3 DEF counters
<1>5. d \in [counters -> {0, 1}]
  BY DEF attempted
<1> HIDE DEF om, d, n
<1>6. DOMAIN oms = known \cup {op}
  OBVIOUS
<1>7. ASSUME NEW c \in counters
      PROVE  /\ n.Total[c] = m.Total[c] + d[c]
             /\ recorded(n, op, c) = recorded(m, op, c) + d[c]
             /\ \A o \in Operations \ {op} : recorded(n, o, c) = recorded(m, o, c)
  <2>1. n.Total[c] = m.Total[c] + d[c]
    BY <1>1, <1>4, MetricsFields
  <2>2. recorded(n, op, c) = CountAttempt(om, isRetry)[c]
    BY <1>2 DEF recorded
  <2>3. recorded(n, op, c) = recorded(m, op, c) + d[c]
    BY <1>3, <1>4, <2>2
  <2>4. \A o \in Operations \ {op} : recorded(n, o, c) = recorded(m, o, c)
    BY <1>2 DEF recorded
  <2> QED
    BY <2>1, <2>3, <2>4
<1>8. op \in DOMAIN n.OperationMetrics /\ DOMAIN n.OperationMetrics = known \cup {op}
  BY <1>2, <1>6
<1>9. Entered(m, n, op, d)
  BY <1>1, <1>5, <1>7, <1>8 DEF Entered
<1> QED
  BY <1>2, <1>8, <1>9 DEF d, n

\* Bump counts in the entry, if there is one.
LEMMA BumpEntered ==
    ASSUME NEW m \in MetricsType, NEW n \in MetricsType, NEW op \in Operations,
           NEW c \in counters,
           n.OperationMetrics = Bump(m.OperationMetrics, op, c),
           \A x \in counters : n.Total[x] = m.Total[x] + only(c)[x]
    PROVE  Entered(m, n, op, only(c)) /\ DOMAIN n.OperationMetrics = DOMAIN m.OperationMetrics
<1> DEFINE oms == m.OperationMetrics
           bumped == [oms[op] EXCEPT ![c] = oms[op][c] + 1]
<1>1. n.OperationMetrics = IF op \in DOMAIN oms THEN [oms EXCEPT ![op] = bumped] ELSE oms
  BY Zenon DEF Bump
<1>2. DOMAIN n.OperationMetrics = DOMAIN oms
  BY <1>1
<1>3. op \in DOMAIN oms => /\ DOMAIN oms[op] = counters
                           /\ \A x \in counters : bumped[x] = oms[op][x] + only(c)[x]
  <2> HAVE op \in DOMAIN oms
  <2>1. DOMAIN oms[op] = counters /\ \A x \in counters : oms[op][x] \in Nat
    BY MetricsFields
  <2> QED
    BY <2>1 DEF only
<1>4. ASSUME NEW x \in counters
      PROVE  /\ recorded(n, op, x) =
                    recorded(m, op, x) + (IF op \in DOMAIN n.OperationMetrics THEN only(c)[x] ELSE 0)
             /\ \A o \in Operations \ {op} : recorded(n, o, x) = recorded(m, o, x)
  <2> HIDE DEF bumped
  <2>1. CASE op \in DOMAIN oms
    BY <1>1, <1>2, <1>3, <2>1 DEF recorded
  <2>2. CASE op \notin DOMAIN oms
    BY <1>1, <1>2, <2>2 DEF recorded
  <2> QED
    BY <2>1, <2>2
<1>5. only(c) \in [counters -> {0, 1}]
  BY DEF only
<1> QED
  BY <1>2, <1>4, <1>5 DEF Entered

\* RecordSuccess and RecordFailure.
LEMMA EndEntered ==
    ASSUME NEW m \in MetricsType, NEW op \in Operations, NEW e \in ErrorClass
    PROVE  /\ LET n == RecordSuccess(m, op)
              IN  /\ Entered(m, n, op, only("Successes"))
                  /\ DOMAIN n.OperationMetrics = DOMAIN m.OperationMetrics
                  /\ n.ErrorsByClass = m.ErrorsByClass
           /\ LET n == RecordFailure(m, op, e)
              IN  /\ Entered(m, n, op, only("Failures"))
                  /\ DOMAIN n.OperationMetrics = DOMAIN m.OperationMetrics
                  /\ n.ErrorsByClass = [m.ErrorsByClass EXCEPT ![e] = m.ErrorsByClass[e] + 1]
<1>1. m.Total \in Counts /\ \A x \in counters : m.Total[x] \in Nat
  BY MetricsFields
<1>2. ASSUME NEW c \in {"Successes", "Failures"}, NEW U,
             U = [m.Total EXCEPT ![c] = m.Total[c] + 1]
      PROVE  c \in counters /\ \A x \in counters : U[x] = m.Total[x] + only(c)[x]
  <2>1. DOMAIN m.Total = counters /\ c \in counters
    BY <1>1, MetricsFields DEF counters
  <2> QED
    BY <1>1, <1>2, <2>1 DEF only
<1>3. LET n == RecordSuccess(m, op)
      IN  /\ n \in MetricsType /\ n.Total = [m.Total EXCEPT !["Successes"] = m.Total["Successes"] + 1]
          /\ n.OperationMetrics = Bump(m.OperationMetrics, op, "Successes")
          /\ n.ErrorsByClass = m.ErrorsByClass
  <2> DEFINE n == RecordSuccess(m, op)
             tt == [m.Total EXCEPT !["Successes"] = m.Total["Successes"] + 1]
             oms == Bump(m.OperationMetrics, op, "Successes")
  <2>1. n = [m EXCEPT !.Total = tt, !.OperationMetrics = oms]
    BY Zenon DEF RecordSuccess
  <2>2. n \in MetricsType
    BY RecordSuccessEffect
  <2> HIDE DEF n, tt, oms
  <2>3. n.Total = tt /\ n.OperationMetrics = oms /\ n.ErrorsByClass = m.ErrorsByClass
    BY <2>1 DEF MetricsType
  <2> QED
    BY <2>2, <2>3 DEF n, tt, oms
<1>4. LET n == RecordFailure(m, op, e)
      IN  /\ n \in MetricsType /\ n.Total = [m.Total EXCEPT !["Failures"] = m.Total["Failures"] + 1]
          /\ n.OperationMetrics = Bump(m.OperationMetrics, op, "Failures")
          /\ n.ErrorsByClass = [m.ErrorsByClass EXCEPT ![e] = m.ErrorsByClass[e] + 1]
  <2> DEFINE n == RecordFailure(m, op, e)
             tt == [m.Total EXCEPT !["Failures"] = m.Total["Failures"] + 1]
             oms == Bump(m.OperationMetrics, op, "Failures")
             cl == [m.ErrorsByClass EXCEPT ![e] = m.ErrorsByClass[e] + 1]
  <2>1. n = [m EXCEPT !.Total = tt, !.ErrorsByClass = cl, !.OperationMetrics = oms]
    BY Zenon DEF RecordFailure
  <2>2. n \in MetricsType
    BY RecordFailureEffect
  <2> HIDE DEF n, tt, oms, cl
  <2>3. n.Total = tt /\ n.OperationMetrics = oms /\ n.ErrorsByClass = cl
    BY <2>1 DEF MetricsType
  <2> QED
    BY <2>2, <2>3 DEF n, tt, oms, cl
<1>5. LET n == RecordSuccess(m, op)
      IN  /\ Entered(m, n, op, only("Successes"))
          /\ DOMAIN n.OperationMetrics = DOMAIN m.OperationMetrics
  BY <1>2, <1>3, BumpEntered
<1>6. LET n == RecordFailure(m, op, e)
      IN  /\ Entered(m, n, op, only("Failures"))
          /\ DOMAIN n.OperationMetrics = DOMAIN m.OperationMetrics
  BY <1>2, <1>4, BumpEntered
<1> QED
  BY <1>3, <1>4, <1>5, <1>6, Zenon

-----------------------------------------------------------------------------
(* How a step moves its goroutine                                          *)

\* What every action keeps of the goroutine that moves.
Keeps(t, v) == v \in Threads /\ v.op = t.op /\ v.ctx = t.ctx

\* The notes that are not about cancelled operations leave their number alone.
LEMMA TallyKeeps ==
    ASSUME NEW y \in TallyType
    PROVE  /\ [y EXCEPT !.started = @ + 1].cancelled = y.cancelled
           /\ [y EXCEPT !.started = @ + 1, !.rejected = @ + 1].cancelled = y.cancelled
           /\ [y EXCEPT !.wasted = @ + 1].cancelled = y.cancelled
           /\ [y EXCEPT !.calls = @ + 1].cancelled = y.cancelled
<1>1. y.cancelled \in Nat
  BY DEF TallyType
<1>2. \A z, s, r, a, x, k : Noted(y, z, s, r, 0, a, x, k) => z.cancelled = y.cancelled
  BY <1>1 DEF Noted
<1> QED
  BY <1>2, Notes, Zenon

\* A method is turned away: by the breaker, or because the underlying filesystem lacks it.
LEMMA TurnedAway ==
    ASSUME IInv, tally \in TallyType,
           NEW w \in Workers, NEW op \in Operations, NEW ctx \in BOOLEAN,
           Refused(w, op, ctx) \/ NotImplemented(w, op, ctx)
    PROVE  \E v \in Threads :
               /\ Goto(w, v) /\ thread[w].pc \in {"idle", "returned"}
               /\ guardOf(v.op, v.ctx) = guardOf(op, ctx)
               /\ v.calls = 0 /\ v.cancelled = FALSE /\ v.pc = "returned"
               /\ metrics' = metrics /\ tally'.cancelled = tally.cancelled
<1>1. Idle \in Threads /\ Idle.calls = 0 /\ Idle.cancelled = FALSE
  BY IdleThread, RetryFSAssumption
<1>2. thread[w].pc \in {"idle", "returned"} /\ metrics' = metrics
  BY DEF Refused, NotImplemented, free
<1>3. tally'.cancelled = tally.cancelled
  BY TallyKeeps DEF Refused, NotImplemented
<1>4. thread' \in [Workers -> Threads]
  BY MethodStep DEF IInv
<1>5. PICK v : /\ Goto(w, v) /\ v.op = op /\ v.ctx = ctx /\ v.calls = 0
               /\ v.cancelled = FALSE /\ v.pc = "returned"
  <2>1. CASE Refused(w, op, ctx)
    <3> DEFINE t == [Idle EXCEPT !.pc = "returned", !.op = op, !.ctx = ctx,
                                 !.err = ErrCircuitOpen]
               r == Answer(t, ErrCircuitOpen)
               v == [t EXCEPT !.ret = r]
    <3>1. Goto(w, v)
      BY <2>1 DEF Refused
    <3>2. v = [Idle EXCEPT !.pc = "returned", !.op = op, !.ctx = ctx,
                           !.err = ErrCircuitOpen, !.ret = r]
      BY Zenon
    <3> HIDE DEF v, r
    <3>3. /\ v.op = op /\ v.ctx = ctx /\ v.calls = 0 /\ v.cancelled = FALSE
          /\ v.pc = "returned"
      BY <1>1, <3>2 DEF Threads
    <3> QED
      BY <3>1, <3>3
  <2>2. CASE NotImplemented(w, op, ctx)
    <3> DEFINE v == [Idle EXCEPT !.pc = "returned", !.op = op, !.ctx = ctx,
                                 !.err = ErrNotImplemented, !.ret = ErrNotImplemented]
    <3>1. Goto(w, v)
      BY <2>2 DEF NotImplemented
    <3>2. /\ v.op = op /\ v.ctx = ctx /\ v.calls = 0 /\ v.cancelled = FALSE
          /\ v.pc = "returned"
      BY <1>1 DEF Threads
    <3> HIDE DEF v
    <3> QED
      BY <3>1, <3>2
  <2> QED
    BY <2>1, <2>2
<1>6. thread'[w] = v
  BY <1>5 DEF Goto, IInv
<1>7. v \in Threads
  BY <1>4, <1>6
<1>8. guardOf(v.op, v.ctx) = guardOf(op, ctx)
  BY <1>5, Zenon
<1> QED
  BY <1>2, <1>3, <1>5, <1>7, <1>8

\* A method is called: the goroutine starts afresh.
LEMMA EnterMove ==
    ASSUME IInv, tally \in TallyType,
           NEW w \in Workers, NEW op \in Operations, NEW ctx \in BOOLEAN,
           Begin(w, op, ctx) \/ Refused(w, op, ctx) \/ NotImplemented(w, op, ctx)
    PROVE  \E v \in Threads :
               /\ Goto(w, v) /\ thread[w].pc \in {"idle", "returned"}
               /\ guardOf(v.op, v.ctx) = guardOf(op, ctx)
               /\ v.calls = 0 /\ v.cancelled = FALSE /\ v.pc \in {"loop", "returned"}
               /\ metrics' = metrics /\ tally'.cancelled = tally.cancelled
<1>1. Idle \in Threads /\ Idle.calls = 0 /\ Idle.cancelled = FALSE
  BY IdleThread, RetryFSAssumption
<1>3. thread[w].pc \in {"idle", "returned"} /\ metrics' = metrics
  BY DEF Begin, Refused, NotImplemented, free
<1>4. tally'.cancelled = tally.cancelled
  BY TallyKeeps DEF Begin, Refused, NotImplemented
<1>5. CASE Begin(w, op, ctx)
  <2> DEFINE v == [Idle EXCEPT !.pc = "loop", !.op = op, !.ctx = ctx]
  <2>1. Goto(w, v)
    BY <1>5 DEF Begin
  <2>2. /\ v \in Threads /\ v.op = op /\ v.ctx = ctx /\ v.calls = 0 /\ v.cancelled = FALSE
        /\ v.pc = "loop"
    BY <1>1 DEF Threads, Labels
  <2> HIDE DEF v
  <2>3. guardOf(v.op, v.ctx) = guardOf(op, ctx)
    BY <2>2, Zenon
  <2> QED
    BY <1>3, <1>4, <2>1, <2>2, <2>3
<1>6. CASE Refused(w, op, ctx) \/ NotImplemented(w, op, ctx)
  BY <1>6, TurnedAway
<1> QED
  BY <1>5, <1>6

\* The steps of the loop that touch neither metrics nor breakers.
LEMMA QuietMove ==
    ASSUME IInv, tally \in TallyType, NEW w \in Workers,
           \/ Exhausted(w) \/ SeeCancelled(w) \/ WakeUp(w) \/ CancelledInBackoff(w)
           \/ Cancel(w)
    PROVE  \E v : /\ Goto(w, v) /\ Keeps(thread[w], v)
                  /\ thread[w].pc \in {"loop", "backoff", "calling", "succeeding", "failing"}
                  /\ v.pc \in {"loop", "backoff", "calling", "succeeding", "failing", "reporting"}
                  /\ v.calls = thread[w].calls
                  /\ v.cancelled = thread[w].cancelled \/ thread[w].ctx
                  /\ v.pc = "reporting" => thread[w].cancelled /\ v.err = CtxErr
                  /\ v.pc \in {"backoff", "calling"} => thread[w].pc \in {"backoff", "calling"}
                  /\ UNCHANGED <<breaker, metrics, openCalls>>
                  /\ tally'.cancelled = tally.cancelled
<1> DEFINE t == thread[w]
<1>1. t \in Threads /\ t.pc \in Labels
  BY DEF IInv, ThreadInv, Threads
<1>2. UNCHANGED <<breaker, metrics, openCalls>> /\ tally'.cancelled = tally.cancelled
  BY TallyKeeps DEF Exhausted, SeeCancelled, WakeUp, CancelledInBackoff, Cancel
<1> HIDE DEF t
<1>3. ASSUME NEW q \in Labels
      PROVE  LET v == [t EXCEPT !.pc = q]
             IN  /\ Keeps(t, v) /\ v.pc = q /\ v.calls = t.calls /\ v.cancelled = t.cancelled
  BY <1>1 DEF Threads, Keeps
<1>4. LET v == [t EXCEPT !.pc = "reporting", !.err = CtxErr]
      IN  /\ Keeps(t, v) /\ v.pc = "reporting" /\ v.calls = t.calls
          /\ v.cancelled = t.cancelled /\ v.err = CtxErr
  BY <1>1, ErrorsDiffer DEF Threads, Keeps, Labels
<1>5. LET v == [t EXCEPT !.cancelled = TRUE]
      IN  Keeps(t, v) /\ v.pc = t.pc /\ v.calls = t.calls
  BY <1>1 DEF Threads, Keeps
<1>6. CASE Exhausted(w)
  <2> DEFINE v == [t EXCEPT !.pc = "failing"]
  <2>1. Goto(w, v) /\ t.pc = "loop"
    BY <1>6 DEF Exhausted, t
  <2>2. Keeps(t, v) /\ v.pc = "failing" /\ v.calls = t.calls /\ v.cancelled = t.cancelled
    BY <1>3 DEF Labels
  <2> HIDE DEF v
  <2> QED
    BY <1>2, <2>1, <2>2 DEF t
<1>7. CASE WakeUp(w)
  <2> DEFINE v == [t EXCEPT !.pc = "calling"]
  <2>1. Goto(w, v) /\ t.pc = "backoff"
    BY <1>7 DEF WakeUp, t
  <2>2. Keeps(t, v) /\ v.pc = "calling" /\ v.calls = t.calls /\ v.cancelled = t.cancelled
    BY <1>3 DEF Labels
  <2> HIDE DEF v
  <2> QED
    BY <1>2, <2>1, <2>2 DEF t
<1>8. CASE SeeCancelled(w) \/ CancelledInBackoff(w)
  <2> DEFINE v == [t EXCEPT !.pc = "reporting", !.err = CtxErr]
  <2>1. Goto(w, v) /\ t.pc \in {"loop", "backoff"} /\ t.cancelled
    BY <1>8 DEF SeeCancelled, CancelledInBackoff, t
  <2> HIDE DEF v
  <2> QED
    BY <1>2, <1>4, <2>1 DEF t, v
<1>9. CASE Cancel(w)
  <2> DEFINE v == [t EXCEPT !.cancelled = TRUE]
  <2>1. Goto(w, v) /\ t.pc \notin {"idle", "reporting", "returned"} /\ t.ctx
    BY <1>9 DEF Cancel, t
  <2>2. Keeps(t, v) /\ v.pc = t.pc /\ v.calls = t.calls
    BY <1>5
  <2> HIDE DEF v
  <2> QED
    BY <1>1, <1>2, <2>1, <2>2 DEF t, Labels
<1> QED
  BY <1>6, <1>7, <1>8, <1>9

\* An attempt is recorded and begins.
LEMMA AttemptMove ==
    ASSUME IInv, NEW w \in Workers, Attempt(w)
    PROVE  \E v : /\ Goto(w, v) /\ Keeps(thread[w], v)
                  /\ thread[w].pc = "loop" /\ v.pc \in {"backoff", "calling"}
                  /\ v.calls = thread[w].calls /\ v.cancelled = thread[w].cancelled
                  /\ \E d \in [counters -> {0, 1}] : 
                         Entered(metrics, metrics', thread[w].op, d) /\ d["Attempts"] = 1
                         /\ d["Failures"] = 0 /\ d["Successes"] = 0
                  /\ thread[w].op \in DOMAIN metrics'.OperationMetrics
                  /\ metrics'.ErrorsByClass = metrics.ErrorsByClass
                  /\ GetPolicy(thread[w].op) > 0
                  /\ UNCHANGED <<breaker, tally, openCalls>>
<1> DEFINE t == thread[w]
           isRetry == t.attempt > 0
           q == IF isRetry THEN "backoff" ELSE "calling"
           v == [t EXCEPT !.pc = q]
           d == attempted(isRetry)
<1>1. /\ t \in Threads /\ t.op \in Operations /\ t.attempt \in Nat /\ metrics \in MetricsType
      /\ GetPolicy(t.op) \in Int
  BY PolicyType DEF IInv, ThreadInv, Threads
<1>2. /\ t.pc = "loop" /\ t.attempt < GetPolicy(t.op) /\ Goto(w, v)
      /\ UNCHANGED <<breaker, tally, openCalls>>
      /\ metrics' = RecordAttempt(metrics, t.op, isRetry)
  BY Zenon DEF Attempt
<1>3. isRetry \in BOOLEAN /\ q \in {"backoff", "calling"}
  OBVIOUS
<1>4. GetPolicy(t.op) > 0
  BY <1>1, <1>2
<1>5. /\ d \in [counters -> {0, 1}] /\ d["Attempts"] = 1 /\ d["Failures"] = 0
      /\ d["Successes"] = 0
  BY DEF attempted, counters
<1>6. /\ Entered(metrics, metrics', t.op, d)
      /\ t.op \in DOMAIN metrics'.OperationMetrics
      /\ metrics'.ErrorsByClass = metrics.ErrorsByClass
  BY <1>1, <1>2, <1>3, AttemptEntered, Zenon
<1> HIDE DEF q, d, t, isRetry
<1>7. Keeps(t, v) /\ v.pc = q /\ v.calls = t.calls /\ v.cancelled = t.cancelled
  BY <1>1, <1>3 DEF Threads, Keeps, Labels
<1> HIDE DEF v
<1>8. Goto(w, v)
  BY <1>2
<1> QED
  BY <1>2, <1>3, <1>4, <1>5, <1>6, <1>7, <1>8 DEF t

\* The backend is called.
LEMMA CallMove ==
    ASSUME IInv, tally \in TallyType, NEW w \in Workers, Invoke(w)
    PROVE  \E v : /\ Goto(w, v) /\ Keeps(thread[w], v)
                  /\ thread[w].pc = "calling" /\ v.pc \in {"loop", "succeeding", "failing"}
                  /\ v.calls = thread[w].calls + 1 /\ v.cancelled = thread[w].cancelled
                  /\ UNCHANGED <<breaker, metrics>>
                  /\ tally'.cancelled = tally.cancelled
<1> DEFINE t == thread[w]
<1>1. t \in Threads /\ t.pc = "calling" /\ UNCHANGED <<breaker, metrics>>
  BY DEF IInv, ThreadInv, Invoke
<1>2. PICK e \in BackendErr : Goto(w, AfterCall(t, e))
  BY DEF Invoke, BackendErr
<1> DEFINE v == AfterCall(t, e)
<1>3. /\ v \in Threads /\ v.op = t.op /\ v.ctx = t.ctx /\ v.calls = t.calls + 1
      /\ v.cancelled = t.cancelled /\ v.pc \in {"loop", "succeeding", "failing"}
  BY <1>1, AfterCallEffect
<1>4. tally'.cancelled = tally.cancelled
  BY TallyKeeps DEF Invoke
<1>5. Goto(w, v)
  BY <1>2
<1> HIDE DEF v
<1> QED
  BY <1>1, <1>3, <1>4, <1>5 DEF Keeps

\* The loop ends, which is counted.  An end with an error counts as a failure
\* of an operation that has made an attempt.
LEMMA EndMove ==
    ASSUME IInv, NEW w \in Workers, Succeed(w) \/ Fail(w)
    PROVE  \E v, c : \E e \in ErrorClass :
                  /\ Goto(w, v) /\ Keeps(thread[w], v)
                  /\ thread[w].pc = (IF c = "Failures" THEN "failing" ELSE "succeeding")
                  /\ v.pc = "reporting" /\ v.err # CtxErr
                  /\ v.calls = thread[w].calls /\ v.cancelled = thread[w].cancelled
                  /\ c \in {"Successes", "Failures"}
                  /\ Entered(metrics, metrics', thread[w].op, only(c))
                  /\ DOMAIN metrics'.OperationMetrics = DOMAIN metrics.OperationMetrics
                  /\ metrics'.ErrorsByClass =
                         IF c = "Successes" THEN metrics.ErrorsByClass
                         ELSE [metrics.ErrorsByClass EXCEPT ![e] = metrics.ErrorsByClass[e] + 1]
                  /\ v.err # NoError => c = "Failures"
                  /\ v.err # NoError \/ GetPolicy(v.op) > 0 => v.calls > 0
                  /\ UNCHANGED <<breaker, tally, openCalls>>
<1> DEFINE t == thread[w]
           e == ErrorClassifier(t.lastErr)
<1>1. /\ t \in Threads /\ t.op \in Operations /\ t.lastErr \in BackendErr
      /\ metrics \in MetricsType /\ LoopInv(t) /\ t.attempt \in Nat /\ t.calls \in Nat
      /\ GetPolicy(t.op) \in Int
  BY PolicyType DEF IInv, ThreadInv, Threads
<1>2. e \in ErrorClass
  BY <1>1, RetryFSAssumption DEF BackendErr, ErrorClassifier, ErrorClass
<1>3. UNCHANGED <<breaker, tally, openCalls>>
  BY DEF Succeed, Fail
<1>4. ASSUME NEW x \in BackendErr, NEW v, v = [t EXCEPT !.pc = "reporting", !.err = x]
      PROVE  /\ Keeps(t, v) /\ v.pc = "reporting" /\ v.err = x /\ x # CtxErr
             /\ v.calls = t.calls /\ v.cancelled = t.cancelled
  <2>1. x # CtxErr /\ x \in Error
    BY ErrorsDiffer DEF BackendErr
  <2> HIDE DEF t
  <2> QED
    BY <1>1, <1>4, <2>1 DEF Threads, Labels, Keeps
<1> HIDE DEF e
<1>5. CASE Succeed(w)
  <2> DEFINE v == [t EXCEPT !.pc = "reporting", !.err = NoError]
  <2>1. t.pc = "succeeding" /\ Goto(w, v) /\ metrics' = RecordSuccess(metrics, t.op)
    BY <1>5 DEF Succeed
  <2>2. /\ Entered(metrics, metrics', t.op, only("Successes"))
        /\ DOMAIN metrics'.OperationMetrics = DOMAIN metrics.OperationMetrics
        /\ metrics'.ErrorsByClass = metrics.ErrorsByClass
    BY <1>1, <1>2, <2>1, EndEntered, Zenon
  <2>3. t.calls > 0
    BY <1>1, <2>1 DEF LoopInv, Called
  <2>4. /\ Keeps(t, v) /\ v.pc = "reporting" /\ v.err = NoError /\ NoError # CtxErr
        /\ v.calls = t.calls /\ v.cancelled = t.cancelled
    BY <1>4 DEF BackendErr
  <2>5. Goto(w, v)
    BY <2>1
  <2> HIDE DEF v
  <2>6. /\ v.err # NoError => "Successes" = "Failures"
        /\ v.err # NoError \/ GetPolicy(v.op) > 0 => v.calls > 0
    BY <2>3, <2>4
  <2> WITNESS v, "Successes"
  <2> WITNESS e \in ErrorClass
  <2> QED
    BY <1>3, <2>1, <2>2, <2>4, <2>5, <2>6
<1>6. CASE Fail(w)
  <2> DEFINE v == [t EXCEPT !.pc = "reporting", !.err = t.lastErr]
  <2>1. t.pc = "failing" /\ Goto(w, v) /\ metrics' = RecordFailure(metrics, t.op, e)
    BY <1>6 DEF Fail, e
  <2>2. /\ Entered(metrics, metrics', t.op, only("Failures"))
        /\ DOMAIN metrics'.OperationMetrics = DOMAIN metrics.OperationMetrics
        /\ metrics'.ErrorsByClass =
               [metrics.ErrorsByClass EXCEPT ![e] = metrics.ErrorsByClass[e] + 1]
    <3> HIDE DEF t, v
    <3> QED
      BY <1>1, <1>2, <2>1, EndEntered
  <2>3. t.lastErr # NoError \/ GetPolicy(t.op) > 0 => t.calls > 0
    BY <1>1, <2>1 DEF LoopInv, Called, NonPositive
  <2>4. /\ Keeps(t, v) /\ v.pc = "reporting" /\ v.err = t.lastErr /\ v.err # CtxErr
        /\ v.calls = t.calls /\ v.cancelled = t.cancelled
    BY <1>1, <1>4
  <2>5. Goto(w, v)
    BY <2>1
  <2> HIDE DEF v
  <2>6. v.err # NoError \/ GetPolicy(v.op) > 0 => v.calls > 0
    BY <2>3, <2>4 DEF Keeps
  <2> WITNESS v, "Failures"
  <2> WITNESS e \in ErrorClass
  <2> QED
    BY <1>3, <2>1, <2>2, <2>4, <2>5, <2>6
<1> QED
  BY <1>5, <1>6

\* The breaker is told, and the method returns.
LEMMA ReturnMove ==
    ASSUME IInv, NEW w \in Workers, Return(w)
    PROVE  \E v : /\ Goto(w, v) /\ Keeps(thread[w], v)
                  /\ thread[w].pc = "reporting" /\ v.pc = "returned"
                  /\ v.calls = thread[w].calls /\ v.cancelled = thread[w].cancelled
                  /\ Through(myBreaker(w), recordResult(breaker[myBreaker(w)], thread[w].err))
                  /\ metrics' = metrics
<1> DEFINE t == thread[w]
           r == Answer(t, t.err)
           v == [t EXCEPT !.pc = "returned", !.ret = r]
<1>1. t \in Threads
  BY DEF IInv
<1>2. r \in Error
  BY <1>1, ErrorsDiffer DEF Answer, Threads
<1>3. /\ Goto(w, v) /\ t.pc = "reporting" /\ metrics' = metrics
      /\ Through(myBreaker(w), recordResult(breaker[myBreaker(w)], t.err))
  BY DEF Return
<1> HIDE DEF t, r
<1>4. Keeps(t, v) /\ v.pc = "returned" /\ v.calls = t.calls /\ v.cancelled = t.cancelled
  BY <1>1, <1>2 DEF Keeps, Threads, Labels
<1>5. Goto(w, v)
  BY <1>3
<1> HIDE DEF v
<1> QED
  BY <1>3, <1>4, <1>5 DEF t

-----------------------------------------------------------------------------
(* The totals are the sums                                                 *)

\* An operation that has made an attempt has an entry.
KnownIn(m, t) ==
    t.pc \in {"backoff", "calling"} \/ t.calls > 0 => t.op \in DOMAIN m.OperationMetrics

\* Only calls with a context are cancelled; any other error is the backend's.
Causes(t) ==
    /\ ~t.ctx => ~t.cancelled /\ (t.pc = "reporting" => t.err # CtxErr)
    /\ t.pc = "reporting" /\ t.err \notin {NoError, CtxErr} => t.calls > 0

\* Every goroutine is known to the metrics, and only operations that may make an
\* attempt have an entry.
Entries ==
    /\ \A w \in Workers : KnownIn(metrics, thread[w]) /\ Causes(thread[w])
    /\ \A op \in DOMAIN metrics.OperationMetrics : GetPolicy(op) > 0

\* The totals are the sums (see TotalsAreSums).
Sums ==
    /\ EveryPolicyAllows => \A c \in counters : metrics.Total[c] = SumOf(c)
    /\ metrics.Total.Failures = SumFunction(metrics.ErrorsByClass)

\* It is enough to look at the goroutine that moves.
LEMMA MoveEntries ==
    ASSUME IInv, Entries, NEW w \in Workers, NEW v, Goto(w, v),
           DOMAIN metrics.OperationMetrics \subseteq DOMAIN metrics'.OperationMetrics,
           \A op \in DOMAIN metrics'.OperationMetrics :
               op \in DOMAIN metrics.OperationMetrics \/ GetPolicy(op) > 0,
           KnownIn(metrics', v), Causes(v)
    PROVE  Entries'
<1>1. thread'[w] = v /\ \A u \in Workers : u # w => thread'[u] = thread[u]
  BY DEF Goto, IInv
<1>2. ASSUME NEW u \in Workers PROVE KnownIn(metrics', thread'[u]) /\ Causes(thread'[u])
  <2>1. CASE u = w
    BY <1>1, <2>1
  <2>2. CASE u # w
    BY <1>1, <2>2 DEF Entries, KnownIn
  <2> QED
    BY <2>1, <2>2
<1> QED
  BY <1>2 DEF Entries, KnownIn, Causes

\* No step leaves an attempt without an entry.
LEMMA NextEntries == IInv /\ Books /\ Entries /\ [Next]_vars => Entries'
<1> SUFFICES ASSUME IInv, Books, Entries, [Next]_vars PROVE Entries'
  OBVIOUS
<1>0. tally \in TallyType /\ metrics \in MetricsType
  BY DEF Books, IInv
<1>1. CASE UNCHANGED vars \/ Tick
  BY <1>1 DEF vars, Tick, Entries
<1>2. ASSUME NEW w \in Workers, NEW op \in Operations, NEW ctx \in BOOLEAN,
             Begin(w, op, ctx) \/ Refused(w, op, ctx) \/ NotImplemented(w, op, ctx)
      PROVE  Entries'
  <2>1. PICK v \in Threads : /\ Goto(w, v) /\ v.calls = 0 /\ v.cancelled = FALSE
                             /\ v.pc \in {"loop", "returned"} /\ metrics' = metrics
    BY <1>0, <1>2, EnterMove
  <2> QED
    BY <2>1, MoveEntries DEF KnownIn, Causes
<1>3. ASSUME NEW w \in Workers, Step(w) \/ Cancel(w) PROVE Entries'
  <2> DEFINE t == thread[w]
  <2>0. KnownIn(metrics, t) /\ Causes(t) /\ t \in Threads /\ t.calls \in Nat
    BY DEF Entries, IInv, Threads
  <2> HIDE DEF t
  <2>1. CASE Exhausted(w) \/ SeeCancelled(w) \/ WakeUp(w) \/ CancelledInBackoff(w) \/ Cancel(w)
    <3>1. PICK v : /\ Goto(w, v) /\ Keeps(t, v) /\ v.calls = t.calls
                   /\ v.cancelled = t.cancelled \/ t.ctx
                   /\ v.pc = "reporting" => t.cancelled /\ v.err = CtxErr
                   /\ v.pc \in {"backoff", "calling"} => t.pc \in {"backoff", "calling"}
                   /\ metrics' = metrics
      BY <1>0, <2>1, QuietMove DEF t
    <3>2. KnownIn(metrics', v) /\ Causes(v)
      BY <2>0, <3>1 DEF KnownIn, Causes, Keeps
    <3> QED
      BY <3>1, <3>2, MoveEntries
  <2>2. CASE Attempt(w)
    <3>1. PICK v : /\ Goto(w, v) /\ Keeps(t, v) /\ v.pc \in {"backoff", "calling"}
                   /\ v.cancelled = t.cancelled
                   /\ t.op \in DOMAIN metrics'.OperationMetrics
                   /\ GetPolicy(t.op) > 0
                   /\ \E d : Entered(metrics, metrics', t.op, d)
      BY <2>2, AttemptMove DEF t
    <3>2. KnownIn(metrics', v) /\ Causes(v)
      BY <2>0, <3>1 DEF KnownIn, Causes, Keeps
    <3> QED
      BY <3>1, <3>2, MoveEntries DEF Entered
  <2>3. CASE Invoke(w)
    <3>1. PICK v : /\ Goto(w, v) /\ Keeps(t, v) /\ t.pc = "calling"
                   /\ v.pc \in {"loop", "succeeding", "failing"}
                   /\ v.cancelled = t.cancelled /\ metrics' = metrics
      BY <1>0, <2>3, CallMove DEF t
    <3>2. KnownIn(metrics', v) /\ Causes(v)
      BY <2>0, <3>1 DEF KnownIn, Causes, Keeps
    <3> QED
      BY <3>1, <3>2, MoveEntries
  <2>4. CASE Succeed(w) \/ Fail(w)
    <3>1. PICK v : /\ Goto(w, v) /\ Keeps(t, v) /\ v.pc = "reporting" /\ v.err # CtxErr
                   /\ v.err # NoError => v.calls > 0
                   /\ v.calls = t.calls /\ v.cancelled = t.cancelled
                   /\ DOMAIN metrics'.OperationMetrics = DOMAIN metrics.OperationMetrics
      BY <2>4, EndMove DEF t
    <3>2. KnownIn(metrics', v) /\ Causes(v)
      BY <2>0, <3>1 DEF KnownIn, Causes, Keeps
    <3> QED
      BY <3>1, <3>2, MoveEntries
  <2>5. CASE Return(w)
    <3>1. PICK v : /\ Goto(w, v) /\ Keeps(t, v) /\ v.pc = "returned"
                   /\ v.calls = t.calls /\ v.cancelled = t.cancelled /\ metrics' = metrics
      BY <2>5, ReturnMove DEF t
    <3>2. KnownIn(metrics', v) /\ Causes(v)
      BY <2>0, <3>1 DEF KnownIn, Causes, Keeps
    <3> QED
      BY <3>1, <3>2, MoveEntries
  <2> QED
    BY <1>3, <2>1, <2>2, <2>3, <2>4, <2>5 DEF Step
<1> QED
  BY <1>1, <1>2, <1>3, TargetType DEF Next, Method, ContextMethod

\* What a step enters in the metrics: nothing, or something of one operation,
\* and a failure of one class if it is a failure.
LEMMA MetricsStep ==
    ASSUME IInv, Books, Entries, [Next]_vars
    PROVE  \/ metrics' = metrics
           \/ \E op \in Operations : \E d \in [counters -> {0, 1}] :
                  /\ Entered(metrics, metrics', op, d)
                  /\ GetPolicy(op) > 0 => op \in DOMAIN metrics'.OperationMetrics
                  /\ \/ d["Failures"] = 0 /\ metrics'.ErrorsByClass = metrics.ErrorsByClass
                     \/ /\ d["Failures"] = 1
                        /\ \E e \in ErrorClass : metrics'.ErrorsByClass =
                               [metrics.ErrorsByClass EXCEPT ![e] = metrics.ErrorsByClass[e] + 1]
<1>0. tally \in TallyType
  BY DEF Books
<1>1. CASE UNCHANGED vars \/ Tick
  BY <1>1 DEF vars, Tick
<1>2. ASSUME NEW w \in Workers, NEW op \in Operations, Method(w, op) \/ ContextMethod(w, op)
      PROVE  metrics' = metrics
  BY <1>2 DEF Method, ContextMethod, Begin, Refused, NotImplemented
<1>3. ASSUME NEW w \in Workers,
             \/ Exhausted(w) \/ SeeCancelled(w) \/ WakeUp(w) \/ CancelledInBackoff(w)
             \/ Cancel(w) \/ Invoke(w) \/ Return(w)
      PROVE  metrics' = metrics
  BY <1>3 DEF Exhausted, SeeCancelled, WakeUp, CancelledInBackoff, Cancel, Invoke, Return
<1>4. ASSUME NEW w \in Workers, Attempt(w)
      PROVE  \E op \in Operations : \E d \in [counters -> {0, 1}] :
                  /\ Entered(metrics, metrics', op, d)
                  /\ op \in DOMAIN metrics'.OperationMetrics
                  /\ d["Failures"] = 0 /\ metrics'.ErrorsByClass = metrics.ErrorsByClass
  <2>1. thread[w].op \in Operations
    BY DEF IInv, Threads
  <2> QED
    BY <1>4, <2>1, AttemptMove
<1>5. ASSUME NEW w \in Workers, Succeed(w) \/ Fail(w)
      PROVE  \E op \in Operations : \E d \in [counters -> {0, 1}] :
                  /\ Entered(metrics, metrics', op, d)
                  /\ GetPolicy(op) > 0 => op \in DOMAIN metrics'.OperationMetrics
                  /\ \/ d["Failures"] = 0 /\ metrics'.ErrorsByClass = metrics.ErrorsByClass
                     \/ /\ d["Failures"] = 1
                        /\ \E e \in ErrorClass : metrics'.ErrorsByClass =
                               [metrics.ErrorsByClass EXCEPT ![e] = metrics.ErrorsByClass[e] + 1]
  <2> DEFINE t == thread[w]
  <2>1. t.op \in Operations /\ KnownIn(metrics, t)
    BY DEF IInv, Threads, Entries
  <2>2. PICK v, c : \E e \in ErrorClass :
                 /\ Keeps(t, v) /\ v.calls = t.calls
                 /\ c \in {"Successes", "Failures"}
                 /\ Entered(metrics, metrics', t.op, only(c))
                 /\ DOMAIN metrics'.OperationMetrics = DOMAIN metrics.OperationMetrics
                 /\ metrics'.ErrorsByClass =
                        IF c = "Successes" THEN metrics.ErrorsByClass
                        ELSE [metrics.ErrorsByClass EXCEPT ![e] = metrics.ErrorsByClass[e] + 1]
                 /\ v.err # NoError \/ GetPolicy(v.op) > 0 => v.calls > 0
    BY <1>5, EndMove, Zenon
  <2>3. GetPolicy(t.op) > 0 => t.op \in DOMAIN metrics'.OperationMetrics
    BY <2>1, <2>2 DEF KnownIn, Keeps
  <2>4. /\ only(c) \in [counters -> {0, 1}]
        /\ only(c)["Failures"] = IF c = "Failures" THEN 1 ELSE 0
    BY DEF only, counters
  <2> HIDE DEF t
  <2>5. \/ only(c)["Failures"] = 0 /\ metrics'.ErrorsByClass = metrics.ErrorsByClass
        \/ /\ only(c)["Failures"] = 1
           /\ \E e \in ErrorClass : metrics'.ErrorsByClass =
                  [metrics.ErrorsByClass EXCEPT ![e] = metrics.ErrorsByClass[e] + 1]
    BY <2>2, <2>4
  <2> QED
    BY <2>1, <2>2, <2>3, <2>4, <2>5
<1>6. CASE Next
  BY <1>1, <1>2, <1>3, <1>4, <1>5, <1>6 DEF Next, Step
<1> QED
  BY <1>1, <1>6

\* There are three classes.
LEMMA FewClasses == IsFiniteSet(ErrorClass)
<1>1. IsFiniteSet({ErrorRetryable} \cup {ErrorPermanent})
  BY FS_Singleton, FS_Union
<1>2. IsFiniteSet(({ErrorRetryable} \cup {ErrorPermanent}) \cup {ErrorUnknown})
  BY <1>1, FS_Singleton, FS_Union
<1>3. ErrorClass = ({ErrorRetryable} \cup {ErrorPermanent}) \cup {ErrorUnknown}
  BY DEF ErrorClass
<1> QED
  BY <1>2, <1>3, Zenon

\* Nothing has been entered.
LEMMA InitSums == Init => Entries /\ Sums
<1> SUFFICES ASSUME Init PROVE Entries /\ Sums
  OBVIOUS
<1>1. /\ DOMAIN metrics.OperationMetrics = {} /\ metrics.ErrorsByClass = [e \in ErrorClass |-> 0]
      /\ \A c \in counters : metrics.Total[c] = 0
  BY DEF Init, NewMetrics, NewOperationMetrics, counters
<1>2. \A w \in Workers : thread[w].pc = "idle" /\ thread[w].calls = 0 /\ thread[w].cancelled = FALSE
  BY IdleThread, RetryFSAssumption DEF Init
<1>3. Entries
  BY <1>1, <1>2 DEF Entries, KnownIn, Causes
<1>4. ASSUME NEW c \in counters PROVE SumOf(c) = 0
  <2> DEFINE g == [op \in Operations |-> recorded(metrics, op, c)]
  <2>1. DOMAIN g = Operations /\ \A op \in Operations : g[op] = 0
    BY <1>1 DEF recorded
  <2> HIDE DEF g
  <2>2. SumFunction(g) = 0
    BY <2>1, RetryFSAssumption, SumOfNothing
  <2> QED
    BY <2>2 DEF SumOf, g
<1>5. SumFunction(metrics.ErrorsByClass) = 0
  <2> DEFINE g == metrics.ErrorsByClass
  <2>1. DOMAIN g = ErrorClass /\ \A e \in ErrorClass : g[e] = 0
    BY <1>1
  <2> HIDE DEF g
  <2> QED
    BY <2>1, FewClasses, SumOfNothing DEF g
<1>6. metrics.Total.Failures = 0
  BY <1>1 DEF counters
<1> QED
  BY <1>1, <1>3, <1>4, <1>5, <1>6 DEF Sums

\* What is entered in one entry is entered in the total.
LEMMA NextSums == IInv /\ Books /\ Entries /\ Sums /\ [Next]_vars => Sums'
<1> SUFFICES ASSUME IInv, Books, Entries, Sums, [Next]_vars PROVE Sums'
  OBVIOUS
<1>1. CASE metrics' = metrics
  BY <1>1 DEF Sums, SumOf, recorded, EveryPolicyAllows
<1>2. CASE metrics' # metrics
  <2>1. PICK op \in Operations : \E d \in [counters -> {0, 1}] :
                  /\ Entered(metrics, metrics', op, d)
                  /\ GetPolicy(op) > 0 => op \in DOMAIN metrics'.OperationMetrics
                  /\ \/ d["Failures"] = 0 /\ metrics'.ErrorsByClass = metrics.ErrorsByClass
                     \/ /\ d["Failures"] = 1
                        /\ \E e \in ErrorClass : metrics'.ErrorsByClass =
                               [metrics.ErrorsByClass EXCEPT ![e] = metrics.ErrorsByClass[e] + 1]
    BY <1>2, MetricsStep
  <2>2. PICK d \in [counters -> {0, 1}] :
                  /\ Entered(metrics, metrics', op, d)
                  /\ GetPolicy(op) > 0 => op \in DOMAIN metrics'.OperationMetrics
                  /\ \/ d["Failures"] = 0 /\ metrics'.ErrorsByClass = metrics.ErrorsByClass
                     \/ /\ d["Failures"] = 1
                        /\ \E e \in ErrorClass : metrics'.ErrorsByClass =
                               [metrics.ErrorsByClass EXCEPT ![e] = metrics.ErrorsByClass[e] + 1]
    BY <2>1
  <2>3. metrics \in MetricsType /\ metrics' \in MetricsType
    BY <2>2 DEF Entered
  <2>4. EveryPolicyAllows => \A c \in counters : metrics'.Total[c] = SumOf(c)'
    <3> SUFFICES ASSUME EveryPolicyAllows, NEW c \in counters
                 PROVE  metrics'.Total[c] = SumOf(c)'
      OBVIOUS
    <3> DEFINE g == [o \in Operations |-> recorded(metrics, o, c)]
               h == [o \in Operations |-> recorded(metrics', o, c)]
    <3>1. g \in [Operations -> Int] /\ h \in [Operations -> Int]
      <4>1. \A o \in Operations : recorded(metrics, o, c) \in Int /\ recorded(metrics', o, c) \in Int
        BY <2>3, MetricsFields
      <4> QED
        BY <4>1
    <3>2. \A o \in Operations \ {op} : h[o] = g[o]
      BY <2>2 DEF Entered
    <3>3. h[op] = g[op] + d[c] /\ d[c] \in Int
      BY <2>2 DEF Entered, EveryPolicyAllows
    <3>4. SumOf(c) = SumFunction(g) /\ SumOf(c)' = SumFunction(h)
      BY DEF SumOf
    <3>5. metrics.Total[c] = SumFunction(g) /\ metrics'.Total[c] = metrics.Total[c] + d[c]
      BY <2>2, <3>4 DEF Entered, Sums
    <3> HIDE DEF g, h
    <3>6. /\ SumFunction(g) \in Int
          /\ SumFunction(h) = SumFunction(g) + (h[op] - g[op])
      BY <3>1, <3>2, RetryFSAssumption, SumChanges
    <3>7. g[op] \in Int
      BY <3>1
    <3> QED
      BY <3>3, <3>4, <3>5, <3>6, <3>7
  <2>5. metrics'.Total.Failures = SumFunction(metrics'.ErrorsByClass)
    <3> DEFINE g == metrics.ErrorsByClass
               h == metrics'.ErrorsByClass
    <3>1. g \in [ErrorClass -> Int] /\ h \in [ErrorClass -> Int] /\ IsFiniteSet(ErrorClass)
      <4>1. g \in [ErrorClass -> Nat] /\ h \in [ErrorClass -> Nat]
        BY <2>3, MetricsFields
      <4>2. IsFiniteSet(ErrorClass)
        BY FewClasses
      <4> QED
        BY <4>1, <4>2
    <3>2. /\ metrics'.Total.Failures = metrics.Total.Failures + d["Failures"]
          /\ metrics.Total.Failures = SumFunction(g)
      BY <2>2 DEF Entered, Sums, counters
    <3>3. CASE d["Failures"] = 0 /\ h = g
      <4>1. metrics.Total.Failures \in Nat
        BY <2>3 DEF MetricsType, Counts
      <4> HIDE DEF g, h
      <4> QED
        BY <3>2, <3>3, <4>1 DEF h
    <3>4. ASSUME d["Failures"] = 1, NEW e \in ErrorClass, h = [g EXCEPT ![e] = g[e] + 1]
          PROVE  metrics'.Total.Failures = SumFunction(h)
      <4> HIDE DEF g, h
      <4>1. h[e] = g[e] + 1 /\ g[e] \in Int /\ \A x \in ErrorClass \ {e} : h[x] = g[x]
        BY <3>1, <3>4
      <4>2. /\ SumFunction(g) \in Int
            /\ SumFunction(h) = SumFunction(g) + (h[e] - g[e])
        BY <3>1, <4>1, SumChanges
      <4> QED
        BY <3>2, <3>4, <4>1, <4>2
    <3> QED
      BY <2>2, <3>3, <3>4
  <2> QED
    BY <2>4, <2>5 DEF Sums, EveryPolicyAllows
<1> QED
  BY <1>1, <1>2

\* The books, the entries and the sums fit in every reachable state.
THEOREM AlwaysEntered == Spec => [](IInv /\ Books /\ Entries /\ Sums)
<1>1. Init => IInv /\ Books /\ Entries /\ Sums
  BY InitIInv, InitBooks, InitSums
<1>2. (IInv /\ Books /\ Entries /\ Sums) /\ [Next]_vars => (IInv /\ Books /\ Entries /\ Sums)'
  BY NextIInv, NextBooks, NextEntries, NextSums
<1> QED
  BY <1>1, <1>2, PTL DEF Spec

\* TotalAttempts, TotalRetries, TotalSuccesses and TotalFailures are the sums of
\* the per-operation counters, and TotalFailures that of ErrorsByClass, whatever
\* the goroutines are doing (for policies that allow an attempt).
THEOREM TotalsAddUp ==
    ASSUME \A op \in Operations : GetPolicy(op) > 0
    PROVE  Spec => []TotalsAreSums
<1>1. EveryPolicyAllows
  BY DEF EveryPolicyAllows
<1>2. Sums => TotalsAreSums
  BY <1>1 DEF Sums, TotalsAreSums
<1> QED
  BY <1>2, AlwaysEntered, PTL

-----------------------------------------------------------------------------
(* A breaker opens for its own failures                                    *)

\* The goroutines about to report a failure: to the breaker of op, or to any.
Failing(op) == {t \in Threads : t.pc = "reporting" /\ ~t.ctx /\ t.op = op /\ t.err # NoError}
AllFailing == {t \in Threads : t.pc = "reporting" /\ t.err \notin {NoError, CtxErr}}

\* The failures that were recorded and may have reached the global breaker.
failures == metrics.Total.Failures + tally.cancelled

\* A breaker has been told of no more failures than have been recorded and are
\* not about to be reported.
Opened ==
    /\ \A op \in Operations :
           /\ breaker[op].consecutiveErrors + Count(Failing(op)) <= recorded(metrics, op, "Failures")
           /\ breaker[op].state # StateClosed =>
                  /\ op \in DOMAIN metrics.OperationMetrics
                  /\ recorded(metrics, op, "Failures") >= FailureThreshold
    /\ breaker[Global].consecutiveErrors + Count(AllFailing) <= failures
    /\ breaker[Global].state # StateClosed => failures >= FailureThreshold

\* The breakers have counted no failure, and none has opened or closed.
Unmoved ==
    \A k \in Keys : /\ breaker'[k].consecutiveErrors = breaker[k].consecutiveErrors
                    /\ breaker'[k].state = StateClosed <=> breaker[k].state = StateClosed

\* The numbers the invariant compares.
LEMMA OpenedTypes ==
    ASSUME IInv, tally \in TallyType
    PROVE  /\ \A k \in Keys : breaker[k] \in Breakers /\ breaker[k].consecutiveErrors \in Nat
           /\ \A op \in Operations : recorded(metrics, op, "Failures") \in Nat
           /\ \A S : Count(S) \in Nat
           /\ failures \in Nat
           /\ metrics.Total.Failures \in Nat /\ tally.cancelled \in Nat
           /\ Global \in Keys /\ Operations \subseteq Keys
<1>1. metrics \in MetricsType
  BY DEF IInv
<1>2. \A op \in Operations : recorded(metrics, op, "Failures") \in Nat
  BY <1>1, MetricsFields DEF counters
<1>3. metrics.Total.Failures \in Nat
  BY <1>1 DEF MetricsType, Counts
<1>4. tally.cancelled \in Nat
  BY DEF TallyType
<1>5. failures \in Nat
  BY <1>3, <1>4 DEF failures
<1>6. \A k \in Keys : breaker[k] \in Breakers /\ breaker[k].consecutiveErrors \in Nat
  BY BreakerFields DEF IInv
<1> QED
  BY <1>2, <1>3, <1>4, <1>5, <1>6, SameCounts DEF Keys

\* Recording at least the failures about to be reported keeps the invariant.
LEMMA Recording ==
    ASSUME IInv, tally \in TallyType, IInv', tally' \in TallyType, Opened, Unmoved,
           NEW w \in Workers, NEW v, Goto(w, v), thread[w].pc # "reporting",
           DOMAIN metrics.OperationMetrics \subseteq DOMAIN metrics'.OperationMetrics,
           \A op \in Operations : recorded(metrics', op, "Failures") >=
               recorded(metrics, op, "Failures") + (IF v \in Failing(op) THEN 1 ELSE 0),
           failures' >= failures + (IF v \in AllFailing THEN 1 ELSE 0)
    PROVE  Opened'
<1>1. ASSUME NEW S, thread[w] \notin S
      PROVE  Count(S) \in Nat /\ Count(S)' = Count(S) + (IF v \in S THEN 1 ELSE 0)
  <2>1. /\ Count(S) \in Nat /\ Count(S)' \in Nat
        /\ Count(S)' = Count(S) + (IF v \in S THEN 1 ELSE 0) - (IF thread[w] \in S THEN 1 ELSE 0)
    BY CountMove
  <2> QED
    BY <1>1, <2>1
<1>2. ASSUME NEW op \in Operations
      PROVE  /\ breaker'[op].consecutiveErrors + Count(Failing(op))' <= recorded(metrics', op, "Failures")
             /\ breaker'[op].state # StateClosed =>
                    /\ op \in DOMAIN metrics'.OperationMetrics
                    /\ recorded(metrics', op, "Failures") >= FailureThreshold
  <2> DEFINE x == breaker[op].consecutiveErrors
             n == Count(Failing(op))
             r == recorded(metrics, op, "Failures")
             q == recorded(metrics', op, "Failures")
             b == v \in Failing(op)
  <2>1. x \in Nat /\ n \in Nat /\ r \in Nat /\ q \in Nat
    <3>1. metrics' \in MetricsType
      BY DEF IInv
    <3>2. q \in Nat
      BY <3>1, MetricsFields DEF counters
    <3> QED
      BY <3>2, OpenedTypes
  <2>2. thread[w] \notin Failing(op)
    BY DEF Failing
  <2>3. Count(Failing(op))' = n + (IF b THEN 1 ELSE 0)
    BY <1>1, <2>2
  <2>4. /\ x + n <= r
        /\ breaker[op].state # StateClosed => op \in DOMAIN metrics.OperationMetrics
                                              /\ r >= FailureThreshold
    BY DEF Opened
  <2>5. /\ breaker'[op].consecutiveErrors = x
        /\ breaker'[op].state = StateClosed <=> breaker[op].state = StateClosed
    BY DEF Unmoved, Keys
  <2>6. q >= r + (IF b THEN 1 ELSE 0)
    OBVIOUS
  <2> HIDE DEF x, n, r, q, b
  <2>7. x + (n + (IF b THEN 1 ELSE 0)) <= q
    BY <2>1, <2>4, <2>6
  <2>8. r >= FailureThreshold => q >= FailureThreshold
    BY <2>1, <2>6, BreakerAssumption
  <2> QED
    BY <2>3, <2>4, <2>5, <2>7, <2>8 DEF q
<1>3. /\ breaker'[Global].consecutiveErrors + Count(AllFailing)' <= failures'
      /\ breaker'[Global].state # StateClosed => failures' >= FailureThreshold
  <2> DEFINE x == breaker[Global].consecutiveErrors
             n == Count(AllFailing)
             b == v \in AllFailing
  <2>1. x \in Nat /\ n \in Nat /\ failures \in Nat /\ failures' \in Nat
    <3>1. failures' \in Nat
      <4>1. metrics'.Total.Failures \in Nat /\ tally'.cancelled \in Nat
        BY DEF IInv, MetricsType, Counts, TallyType
      <4> QED
        BY <4>1 DEF failures
    <3> QED
      BY <3>1, OpenedTypes
  <2>2. thread[w] \notin AllFailing
    BY DEF AllFailing
  <2>3. Count(AllFailing)' = n + (IF b THEN 1 ELSE 0)
    BY <1>1, <2>2
  <2>4. x + n <= failures /\ (breaker[Global].state # StateClosed => failures >= FailureThreshold)
    BY DEF Opened
  <2>5. /\ breaker'[Global].consecutiveErrors = x
        /\ breaker'[Global].state = StateClosed <=> breaker[Global].state = StateClosed
    BY DEF Unmoved, Keys
  <2>6. failures' >= failures + (IF b THEN 1 ELSE 0)
    OBVIOUS
  <2> HIDE DEF x, n, b
  <2> QED
    BY <2>1, <2>3, <2>4, <2>5, <2>6, BreakerAssumption
<1> QED
  BY <1>2, <1>3 DEF Opened, Failing, AllFailing

\* Letting a call through, and the clock, count no failure.
LEMMA Admitting ==
    ASSUME IInv,
           \/ Tick
           \/ \E w \in Workers, op \in Operations, ctx \in BOOLEAN :
                  Begin(w, op, ctx) \/ Refused(w, op, ctx) \/ NotImplemented(w, op, ctx)
    PROVE  Unmoved
<1>1. ASSUME NEW b \in Breakers
      PROVE  /\ allowCall(b).consecutiveErrors = b.consecutiveErrors
             /\ allowCall(b).state = StateClosed <=> b.state = StateClosed
             /\ Age(b).consecutiveErrors = b.consecutiveErrors /\ Age(b).state = b.state
  <2>1. Has(allowCall(b), IF b.state = StateOpen /\ b.sinceFailure >= Timeout
                          THEN StateHalfOpen ELSE b.state,
            b.consecutiveErrors, b.consecutiveSuccess, b.sinceFailure)
    BY AllowCallEffect
  <2>2. Has(Age(b), b.state, b.consecutiveErrors, b.consecutiveSuccess, Advance(b.sinceFailure))
    BY AgeEffect
  <2> QED
    BY <2>1, <2>2 DEF Has, StateOpen, StateHalfOpen, StateClosed
<1>2. breaker \in [Keys -> Breakers]
  BY DEF IInv
<1>3. CASE Tick
  BY <1>1, <1>2, <1>3 DEF Tick, Unmoved
<1>4. ASSUME NEW w \in Workers, NEW op \in Operations, NEW ctx \in BOOLEAN,
             Begin(w, op, ctx) \/ Refused(w, op, ctx) \/ NotImplemented(w, op, ctx)
      PROVE  Unmoved
  <2> DEFINE k == guardOf(op, ctx)
  <2>1. k \in Keys \cup {NoBreaker}
    BY GuardType
  <2>2. breaker' = breaker \/ (k \in Keys /\ breaker' = [breaker EXCEPT ![k] = allowCall(breaker[k])])
    BY <1>4, <2>1, GuardType DEF Begin, Refused, NotImplemented, Through
  <2> HIDE DEF k
  <2> QED
    BY <1>1, <1>2, <2>2 DEF Unmoved
<1> QED
  BY <1>3, <1>4

\* A result reaches the breaker.
LEMMA Reporting ==
    ASSUME IInv, Books, Entries, Opened, NEW w \in Workers, Return(w)
    PROVE  Opened'
<1> DEFINE t == thread[w]
           k == myBreaker(w)
<1>1. PICK v : /\ Goto(w, v) /\ t.pc = "reporting" /\ v.pc = "returned" /\ metrics' = metrics
               /\ Through(k, recordResult(breaker[k], t.err))
  BY ReturnMove
<1>2. /\ t \in Threads /\ t.op \in Operations /\ t.ctx \in BOOLEAN /\ t.calls \in Nat
      /\ tally \in TallyType /\ KnownIn(metrics, t) /\ Causes(t) /\ EndInv(t)
  BY DEF IInv, ThreadInv, Threads, Books, Entries
<1>3. k \in Keys \cup {NoBreaker} /\ k = guardOf(t.op, t.ctx)
  BY <1>2, GuardType DEF myBreaker
<1>4. /\ k \in Operations => ~t.ctx /\ k = t.op
      /\ Global \notin Operations
  BY <1>3, RetryFSAssumption DEF guardOf, plainGuard, contextGuard, Global, NoBreaker
<1>5. \A x \in Keys : x # k => breaker'[x] = breaker[x]
  BY <1>1, <1>3 DEF Through, IInv
<1>6. k \in Keys => breaker'[k] = recordResult(breaker[k], t.err)
  BY <1>1, <1>3, GuardType DEF Through, IInv
<1> HIDE DEF k
<1>7. ASSUME NEW b \in Breakers
      PROVE  LET c == recordResult(b, t.err)
             IN  /\ c.consecutiveErrors = IF t.err = NoError THEN 0 ELSE b.consecutiveErrors + 1
                 /\ c.state # StateClosed =>
                        \/ b.state # StateClosed
                        \/ t.err # NoError /\ b.consecutiveErrors + 1 >= FailureThreshold
  <2>1. CASE t.err = NoError
    <3> DEFINE closes == /\ b.state = StateHalfOpen
                         /\ b.consecutiveSuccess + 1 >= SuccessThreshold
    <3>1. Has(onSuccess(b), IF closes THEN StateClosed ELSE b.state, 0,
              IF closes \/ b.state = StateClosed THEN 0 ELSE b.consecutiveSuccess + 1,
              b.sinceFailure)
      BY OnSuccessEffect
    <3> QED
      BY <2>1, <3>1 DEF Has, recordResult
  <2>2. CASE t.err # NoError
    <3>1. Has(onFailure(b), IF b.state = StateClosed /\ b.consecutiveErrors + 1 < FailureThreshold
                            THEN StateClosed ELSE StateOpen, b.consecutiveErrors + 1, 0, 0)
      BY OnFailureEffect
    <3>2. b.consecutiveErrors \in Nat
      BY BreakerFields
    <3> QED
      BY <2>2, <3>1, <3>2, BreakerAssumption DEF Has, recordResult
  <2> QED
    BY <2>1, <2>2
<1>8. ASSUME NEW S
      PROVE  /\ Count(S) \in Nat
             /\ v \notin S => Count(S)' = Count(S) - (IF t \in S THEN 1 ELSE 0)
  <2>1. /\ Count(S) \in Nat /\ Count(S)' \in Nat
        /\ Count(S)' = Count(S) + (IF v \in S THEN 1 ELSE 0) - (IF thread[w] \in S THEN 1 ELSE 0)
    BY <1>1, CountMove
  <2> QED
    BY <2>1
<1>9. \A op : v \notin Failing(op) /\ v \notin AllFailing
  BY <1>1 DEF Failing, AllFailing
<1>10. /\ t \in AllFailing <=> t.err \notin {NoError, CtxErr}
       /\ \A op : t \in Failing(op) <=> ~t.ctx /\ t.op = op /\ t.err # NoError
  BY <1>1, <1>2 DEF Failing, AllFailing
<1>11. /\ tally.cancelled \in Nat
       /\ tally'.cancelled = tally.cancelled + (IF t.err = CtxErr THEN 1 ELSE 0)
  <2> DEFINE first == IF t.attempt = 0 THEN 1 ELSE 0
  <2>1. tally.cancelled \in Nat
    BY <1>2 DEF TallyType
  <2>2. CASE t.err # CtxErr
    BY <2>1, <2>2 DEF Return
  <2>3. CASE t.err = CtxErr
    <3>1. first \in {0, 1} /\ (first = 1 <=> t.attempt = 0)
      OBVIOUS
    <3> HIDE DEF t, first
    <3>2. tally' = [tally EXCEPT !.cancelled = @ + 1,
                                 !.unattempted = IF first = 1 THEN @ + 1 ELSE @]
      BY <2>3, <3>1, Zenon DEF Return, t
    <3>3. Noted(tally, tally', 0, 0, 1, first, 0, 0)
      BY <1>2, <3>1, <3>2, CancelNote
    <3> QED
      BY <2>1, <2>3, <3>3 DEF Noted
  <2> QED
    BY <2>2, <2>3
<1>12. failures' = failures + (IF t.err = CtxErr THEN 1 ELSE 0) /\ failures \in Nat
  <2>1. metrics.Total.Failures \in Nat /\ failures \in Nat
    BY <1>2, OpenedTypes
  <2>2. failures' = metrics.Total.Failures + tally'.cancelled
    BY <1>1 DEF failures
  <2> HIDE DEF t
  <2> QED
    BY <1>11, <2>1, <2>2 DEF failures
<1>13. ASSUME NEW op \in Operations
       PROVE  /\ breaker'[op].consecutiveErrors + Count(Failing(op))' <= recorded(metrics', op, "Failures")
              /\ breaker'[op].state # StateClosed =>
                     /\ op \in DOMAIN metrics'.OperationMetrics
                     /\ recorded(metrics', op, "Failures") >= FailureThreshold
  <2> DEFINE x == breaker[op].consecutiveErrors
             n == Count(Failing(op))
             r == recorded(metrics, op, "Failures")
  <2>1. x \in Nat /\ n \in Nat /\ r \in Nat /\ op \in Keys /\ breaker[op] \in Breakers
    BY <1>2, OpenedTypes
  <2>2. Count(Failing(op))' = n - (IF t \in Failing(op) THEN 1 ELSE 0)
    BY <1>8, <1>9
  <2>3. /\ x + n <= r
        /\ breaker[op].state # StateClosed => op \in DOMAIN metrics.OperationMetrics
                                              /\ r >= FailureThreshold
    BY DEF Opened
  <2>4. recorded(metrics', op, "Failures") = r
    BY <1>1
  <2> HIDE DEF t
  <2>5. t \in Failing(op) => n >= 1
    <3> HAVE t \in Failing(op)
    <3>1. w \in {u \in Workers : thread[u] \in Failing(op)}
      BY DEF t
    <3>2. IsFiniteSet({u \in Workers : thread[u] \in Failing(op)})
      BY RetryFSAssumption, FS_Subset
    <3>3. n # 0
      BY <3>1, <3>2, FS_EmptySet DEF Count
    <3> HIDE DEF n
    <3> QED
      BY <2>1, <3>3
  <2>6. CASE op # k
    <3> HIDE DEF x, n, r
    <3>1. breaker'[op] = breaker[op]
      BY <1>5, <2>1, <2>6
    <3>2. breaker'[op].consecutiveErrors = x
      BY <3>1 DEF x
    <3>3. x + (n - (IF t \in Failing(op) THEN 1 ELSE 0)) <= r
      BY <2>1, <2>3
    <3> QED
      BY <1>1, <2>2, <2>3, <2>4, <3>1, <3>2, <3>3
  <2>7. CASE op = k
    <3>1. ~t.ctx /\ t.op = op
      BY <1>4, <2>7
    <3>2. t \in Failing(op) <=> t.err # NoError
      BY <1>10, <3>1
    <3>3. /\ breaker'[op].consecutiveErrors = IF t.err = NoError THEN 0 ELSE x + 1
          /\ breaker'[op].state # StateClosed =>
                 \/ breaker[op].state # StateClosed
                 \/ t.err # NoError /\ x + 1 >= FailureThreshold
      BY <1>6, <1>7, <2>1, <2>7
    <3>4. t.err # NoError => op \in DOMAIN metrics.OperationMetrics
      <4> HAVE t.err # NoError
      <4>1. t.err # CtxErr
        BY <1>1, <1>2, <3>1 DEF Causes, t
      <4>2. t.calls > 0
        BY <1>1, <1>2, <4>1 DEF Causes, t
      <4> QED
        BY <1>2, <3>1, <4>2 DEF KnownIn
    <3> HIDE DEF x, n, r
    <3>5. CASE t.err = NoError
      BY <1>1, <2>1, <2>2, <2>3, <2>4, <3>2, <3>3, <3>5
    <3>6. CASE t.err # NoError
      <4>1. n >= 1 /\ Count(Failing(op))' = n - 1
        BY <2>2, <2>5, <3>2, <3>6
      <4>2. (x + 1) + (n - 1) <= r
        BY <2>1, <2>3
      <4>3. x + 1 >= FailureThreshold => r >= FailureThreshold
        BY <2>1, <2>3, <4>1, BreakerAssumption
      <4> QED
        BY <1>1, <2>3, <2>4, <3>3, <3>4, <3>6, <4>1, <4>2, <4>3
    <3> QED
      BY <3>5, <3>6
  <2> QED
    BY <2>6, <2>7
<1>14. /\ breaker'[Global].consecutiveErrors + Count(AllFailing)' <= failures'
       /\ breaker'[Global].state # StateClosed => failures' >= FailureThreshold
  <2> DEFINE x == breaker[Global].consecutiveErrors
             n == Count(AllFailing)
  <2>1. x \in Nat /\ n \in Nat /\ Global \in Keys /\ breaker[Global] \in Breakers
    BY <1>2, OpenedTypes
  <2>2. Count(AllFailing)' = n - (IF t \in AllFailing THEN 1 ELSE 0)
    BY <1>8, <1>9
  <2>3. x + n <= failures /\ (breaker[Global].state # StateClosed => failures >= FailureThreshold)
    BY DEF Opened
  <2> HIDE DEF t
  <2>4. t \in AllFailing => n >= 1
    <3> HAVE t \in AllFailing
    <3>1. w \in {u \in Workers : thread[u] \in AllFailing}
      BY DEF t
    <3>2. IsFiniteSet({u \in Workers : thread[u] \in AllFailing})
      BY RetryFSAssumption, FS_Subset
    <3>3. n # 0
      BY <3>1, <3>2, FS_EmptySet DEF Count
    <3> HIDE DEF n
    <3> QED
      BY <2>1, <3>3
  <2>5. /\ breaker'[Global].consecutiveErrors \in {0, x}
           \/ (t.err # NoError /\ breaker'[Global].consecutiveErrors = x + 1)
        /\ breaker'[Global].state # StateClosed =>
               \/ breaker[Global].state # StateClosed
               \/ t.err # NoError /\ x + 1 >= FailureThreshold
    <3>1. CASE k = Global
      BY <1>6, <1>7, <2>1, <3>1
    <3>2. CASE k # Global
      BY <1>5, <2>1, <3>2
    <3> QED
      BY <3>1, <3>2
  <2> DEFINE y == breaker'[Global].consecutiveErrors
             z == breaker'[Global].state
             p == Count(AllFailing)'
             q == failures'
  <2>6. CASE t.err = NoError
    <3>1. p = n /\ q = failures /\ y \in {0, x}
          /\ (z # StateClosed => breaker[Global].state # StateClosed)
      BY <1>10, <1>12, <2>1, <2>2, <2>5, <2>6, ErrorsDiffer
    <3> HIDE DEF x, n, y, z, p, q
    <3> QED
      BY <1>12, <2>1, <2>3, <3>1 DEF y, z, p, q
  <2>7. CASE t.err = CtxErr
    <3>1. p = n /\ q = failures + 1 /\ y \in {0, x, x + 1}
          /\ (z # StateClosed => breaker[Global].state # StateClosed \/ x + 1 >= FailureThreshold)
      BY <1>10, <1>12, <2>1, <2>2, <2>5, <2>7, ErrorsDiffer
    <3> HIDE DEF x, n, y, z, p, q
    <3> QED
      BY <1>12, <2>1, <2>3, <3>1, BreakerAssumption DEF y, z, p, q
  <2>8. CASE t.err \notin {NoError, CtxErr}
    <3>1. p = n - 1 /\ n >= 1 /\ q = failures /\ y \in {0, x, x + 1}
          /\ (z # StateClosed => breaker[Global].state # StateClosed \/ x + 1 >= FailureThreshold)
      BY <1>10, <1>12, <2>1, <2>2, <2>4, <2>5, <2>8
    <3> HIDE DEF x, n, y, z, p, q
    <3> QED
      BY <1>12, <2>1, <2>3, <3>1, BreakerAssumption DEF y, z, p, q
  <2> QED
    BY <2>6, <2>7, <2>8
<1> QED
  BY <1>13, <1>14 DEF Opened, Failing, AllFailing

\* No step tells a breaker of a failure that was not recorded.
LEMMA NextOpened ==
    ASSUME IInv, Books, Entries, Opened, [Next]_vars
    PROVE  Opened'
<1>0. /\ IInv' /\ tally \in TallyType /\ tally' \in TallyType /\ metrics \in MetricsType
  BY NextIInv, NextBooks DEF Books, IInv
<1>1. CASE UNCHANGED vars
  BY <1>1 DEF vars, Opened, Count, failures, recorded
<1>2. CASE Tick
  <2>1. Unmoved /\ UNCHANGED <<thread, metrics, tally>>
    BY <1>2, Admitting DEF Tick
  <2>2. ASSUME NEW S PROVE Count(S)' = Count(S)
    BY <2>1 DEF Count
  <2>3. failures' = failures
    BY <2>1 DEF failures
  <2>4. \A k \in Operations \cup {Global} :
            /\ breaker'[k].consecutiveErrors = breaker[k].consecutiveErrors
            /\ breaker'[k].state = StateClosed <=> breaker[k].state = StateClosed
    BY <2>1 DEF Unmoved, Keys
  <2>5. \A op : Count(Failing(op))' = Count(Failing(op)) /\ Count(AllFailing)' = Count(AllFailing)
    BY <2>2
  <2> QED
    BY <2>1, <2>3, <2>4, <2>5 DEF Opened
<1>3. ASSUME NEW w \in Workers, NEW op \in Operations, NEW ctx \in BOOLEAN,
             Begin(w, op, ctx) \/ Refused(w, op, ctx) \/ NotImplemented(w, op, ctx)
      PROVE  Opened'
  <2>1. Unmoved
    BY <1>3, Admitting
  <2>2. PICK v \in Threads : /\ Goto(w, v) /\ thread[w].pc \in {"idle", "returned"}
                             /\ v.pc \in {"loop", "returned"} /\ metrics' = metrics
                             /\ tally'.cancelled = tally.cancelled
    BY <1>0, <1>3, EnterMove
  <2>3. v \notin AllFailing /\ \A o : v \notin Failing(o)
    BY <2>2 DEF Failing, AllFailing
  <2>4. failures' = failures /\ failures \in Nat
    BY <1>0, <2>2, OpenedTypes DEF failures
  <2>5. \A o \in Operations : recorded(metrics, o, "Failures") \in Nat
    BY <1>0, OpenedTypes
  <2> QED
    BY <1>0, <2>1, <2>2, <2>3, <2>4, <2>5, Recording
<1>4. ASSUME NEW w \in Workers, Step(w) \/ Cancel(w) PROVE Opened'
  <2> DEFINE t == thread[w]
  <2>0. t.op \in Operations /\ KnownIn(metrics, t) /\ Causes(t)
    BY DEF IInv, Threads, Entries
  <2>00. /\ failures \in Nat /\ metrics.Total.Failures \in Nat /\ tally.cancelled \in Nat
         /\ \A o \in Operations : recorded(metrics, o, "Failures") \in Nat
    BY <1>0, OpenedTypes
  <2> HIDE DEF t
  <2>1. ASSUME breaker' = breaker PROVE Unmoved
    BY <2>1 DEF Unmoved
  <2>2. CASE Exhausted(w) \/ SeeCancelled(w) \/ WakeUp(w) \/ CancelledInBackoff(w) \/ Cancel(w)
    <3>1. PICK v : /\ Goto(w, v) /\ Keeps(t, v) /\ t.pc # "reporting"
                   /\ v.pc = "reporting" => t.cancelled /\ v.err = CtxErr
                   /\ UNCHANGED <<breaker, metrics>> /\ tally'.cancelled = tally.cancelled
      BY <1>0, <2>2, QuietMove DEF t
    <3>2. v \notin AllFailing /\ \A o : v \notin Failing(o)
      BY <2>0, <3>1 DEF Failing, AllFailing, Causes, Keeps
    <3>3. failures' = failures /\ Unmoved
      BY <2>1, <3>1 DEF failures
    <3>4. thread[w].pc # "reporting"
      BY <3>1 DEF t
    <3> QED
      BY <1>0, <2>00, <3>1, <3>2, <3>3, <3>4, Recording
  <2>3. CASE Invoke(w)
    <3>1. PICK v : /\ Goto(w, v) /\ t.pc = "calling" /\ v.pc \in {"loop", "succeeding", "failing"}
                   /\ UNCHANGED <<breaker, metrics>> /\ tally'.cancelled = tally.cancelled
      BY <1>0, <2>3, CallMove DEF t
    <3>2. v \notin AllFailing /\ \A o : v \notin Failing(o)
      BY <3>1 DEF Failing, AllFailing
    <3>3. failures' = failures /\ Unmoved
      BY <2>1, <3>1 DEF failures
    <3>4. thread[w].pc # "reporting"
      BY <3>1 DEF t
    <3> QED
      BY <1>0, <2>00, <3>1, <3>2, <3>3, <3>4, Recording
  <2>4. CASE Attempt(w)
    <3>1. PICK v : /\ Goto(w, v) /\ t.pc = "loop" /\ v.pc \in {"backoff", "calling"}
                   /\ \E d \in [counters -> {0, 1}] :
                          Entered(metrics, metrics', t.op, d) /\ d["Failures"] = 0
                   /\ UNCHANGED <<breaker, tally>>
      BY <2>4, AttemptMove DEF t
    <3>2. v \notin AllFailing /\ \A o : v \notin Failing(o)
      BY <3>1 DEF Failing, AllFailing
    <3>3. PICK d \in [counters -> {0, 1}] : Entered(metrics, metrics', t.op, d) /\ d["Failures"] = 0
      BY <3>1
    <3>4. /\ \A o \in Operations : recorded(metrics', o, "Failures") = recorded(metrics, o, "Failures")
          /\ metrics'.Total["Failures"] = metrics.Total["Failures"] + 0
      BY <2>00, <3>3 DEF Entered, counters
    <3>5. failures' = failures /\ Unmoved
      BY <2>00, <2>1, <3>1, <3>4 DEF failures
    <3>6. DOMAIN metrics.OperationMetrics \subseteq DOMAIN metrics'.OperationMetrics
      BY <3>3 DEF Entered
    <3>7. thread[w].pc # "reporting"
      BY <3>1 DEF t
    <3> QED
      BY <1>0, <2>00, <3>1, <3>2, <3>4, <3>5, <3>6, <3>7, Recording
  <2>5. CASE Succeed(w) \/ Fail(w)
    <3>1. PICK v, c : /\ Goto(w, v) /\ Keeps(t, v) /\ v.calls = t.calls
                      /\ t.pc = (IF c = "Failures" THEN "failing" ELSE "succeeding")
                      /\ c \in {"Successes", "Failures"}
                      /\ Entered(metrics, metrics', t.op, only(c))
                      /\ DOMAIN metrics'.OperationMetrics = DOMAIN metrics.OperationMetrics
                      /\ v.err # NoError => c = "Failures" /\ v.calls > 0
                      /\ UNCHANGED <<breaker, tally>>
      BY <2>5, EndMove DEF t
    <3> DEFINE f == only(c)["Failures"]
    <3>2. f = IF c = "Failures" THEN 1 ELSE 0
      BY DEF only, counters
    <3> HIDE DEF f
    <3>3. /\ metrics'.Total["Failures"] = metrics.Total["Failures"] + f
          /\ recorded(metrics', t.op, "Failures") = recorded(metrics, t.op, "Failures")
                 + (IF t.op \in DOMAIN metrics'.OperationMetrics THEN f ELSE 0)
          /\ \A o \in Operations \ {t.op} :
                 recorded(metrics', o, "Failures") = recorded(metrics, o, "Failures")
      BY <3>1 DEF Entered, counters, f
    <3>4. \A o : v \in Failing(o) => /\ o = t.op /\ c = "Failures"
                                     /\ t.op \in DOMAIN metrics'.OperationMetrics
      BY <2>0, <3>1 DEF Failing, Keeps, KnownIn
    <3>5. v \in AllFailing => c = "Failures"
      BY <3>1 DEF AllFailing
    <3>6. \A o \in Operations : recorded(metrics', o, "Failures") >=
               recorded(metrics, o, "Failures") + (IF v \in Failing(o) THEN 1 ELSE 0)
      BY <2>0, <2>00, <3>2, <3>3, <3>4
    <3>7. failures' = failures + f
      BY <2>00, <3>1, <3>2, <3>3 DEF failures
    <3>8. failures' >= failures + (IF v \in AllFailing THEN 1 ELSE 0) /\ Unmoved
      BY <2>00, <2>1, <3>1, <3>2, <3>5, <3>7
    <3>9. thread[w].pc # "reporting"
      BY <3>1 DEF t
    <3> QED
      BY <1>0, <3>1, <3>6, <3>8, <3>9, Recording
  <2>6. CASE Return(w)
    BY <2>6, Reporting
  <2> QED
    BY <1>4, <2>2, <2>3, <2>4, <2>5, <2>6 DEF Step
<1> QED
  BY <1>1, <1>2, <1>3, <1>4, TargetType DEF Next, Method, ContextMethod

\* No breaker has been told of anything.
LEMMA InitOpened == Init => Opened
<1> SUFFICES ASSUME Init PROVE Opened
  OBVIOUS
<1>1. \A w \in Workers : thread[w].pc = "idle"
  BY IdleThread, RetryFSAssumption DEF Init
<1>2. /\ {w \in Workers : thread[w] \in AllFailing} = {}
      /\ \A op : {w \in Workers : thread[w] \in Failing(op)} = {}
  BY <1>1 DEF Failing, AllFailing
<1>3. Count(AllFailing) = 0 /\ \A op : Count(Failing(op)) = 0
  BY <1>2, FS_EmptySet DEF Count
<1>4. \A k \in Operations \cup {Global} :
          breaker[k].state = StateClosed /\ breaker[k].consecutiveErrors = 0
  BY DEF Init, NewCircuitBreaker, Keys
<1>5. metrics.Total.Failures = 0 /\ \A op : recorded(metrics, op, "Failures") = 0
  BY DEF Init, NewMetrics, NewOperationMetrics, recorded
<1>6. tally.cancelled = 0
  BY DEF Init
<1> QED
  BY <1>3, <1>4, <1>5, <1>6 DEF Opened, failures

\* A breaker of an operation leaves the closed state no sooner than
\* FailureThreshold operations of that kind have been recorded as failed, and
\* the global breaker no sooner than that many operations have failed or were
\* given up for their context: for any number of goroutines, operations,
\* policies and breakers.
THEOREM OpensForItsOwn == Spec => []OpenForItsOwnFailures
<1>1. Init => IInv /\ Books /\ Entries /\ Opened
  BY InitIInv, InitBooks, InitSums, InitOpened
<1>2. (IInv /\ Books /\ Entries /\ Opened) /\ [Next]_vars => (IInv /\ Books /\ Entries /\ Opened)'
  BY NextIInv, NextBooks, NextEntries, NextOpened
<1>3. Opened => OpenForItsOwnFailures
  BY DEF Opened, OpenForItsOwnFailures, recorded, failures
<1> QED
  BY <1>1, <1>2, <1>3, PTL DEF Spec

-----------------------------------------------------------------------------
(* The calls behind an open breaker                                        *)

\* The calls a goroutine behind k may still make.
left(t, k) ==
    IF t \in Inside /\ guardOf(t.op, t.ctx) = k THEN budget(t.op) - t.calls ELSE 0

\* The calls all goroutines behind k may still make.
Left(k) == SumFunction([w \in Workers |-> left(thread[w], k)])

\* What was let through before k opened is used up, call by call.
TrafficOf(k) ==
    /\ breaker[k].state # StateOpen => openCalls[k] = 0
    /\ breaker[k].state = StateOpen =>
           Left(k) + openCalls[k] <= (Cardinality(Workers) - 1) * MaxBudget

\* The same for all breakers.
Traffic == \A k \in Keys : TrafficOf(k)

\* A sum of numbers up to M, one of which is zero.
LEMMA SumBounded ==
    ASSUME NEW S, IsFiniteSet(S), NEW g \in [S -> Int], NEW M \in Nat, NEW x \in S,
           g[x] = 0, \A y \in S : g[y] <= M
    PROVE  SumFunction(g) \in Int /\ SumFunction(g) <= (Cardinality(S) - 1) * M
<1> DEFINE G == sums(g, S)
           z(s) == IF x \in s THEN 1 ELSE 0
           N == {n \in Nat : \A s \in SUBSET S : Cardinality(s) = n =>
                    G[s] \in Int /\ G[s] <= (n - z(s)) * M}
<1>0. DOMAIN g = S
  OBVIOUS
<1>1. SumFunction(g) = G[S]
  BY <1>0, Zenon DEF SumFunction, SumFunctionOnSet, FoldFunctionOnSet, MapThenFoldSet, sums, pick, rest
<1>2. G = [s \in SUBSET S |-> IF s = {} THEN 0 ELSE g[pick(s)] + G[rest(s)]]
  BY SumsExist
<1> HIDE DEF G
<1>3. \A s \in SUBSET S : G[s] = IF s = {} THEN 0 ELSE g[pick(s)] + G[rest(s)]
  BY <1>2, Zenon
<1>4. \A s \in SUBSET S : Cardinality(s) \in Nat /\ (Cardinality(s) = 0 <=> s = {})
  BY FS_Subset, FS_CardinalityType, FS_EmptySet
<1>5. 0 \in N
  <2> SUFFICES ASSUME NEW s \in SUBSET S, Cardinality(s) = 0
               PROVE  G[s] \in Int /\ G[s] <= (0 - z(s)) * M
    OBVIOUS
  <2>1. s = {} /\ z(s) = 0
    BY <1>4
  <2>2. G[s] = 0
    BY <1>3, <2>1
  <2>3. (0 - 0) * M = 0
    OBVIOUS
  <2> QED
    BY <2>1, <2>2, <2>3
<1>6. ASSUME NEW n \in Nat, n \in N PROVE n + 1 \in N
  <2> SUFFICES ASSUME NEW s \in SUBSET S, Cardinality(s) = n + 1
               PROVE  G[s] \in Int /\ G[s] <= ((n + 1) - z(s)) * M
    OBVIOUS
  <2> DEFINE y == pick(s)
             r == rest(s)
             a == z(r)
             b == z(s)
  <2>1. s # {}
    BY <1>4
  <2>2. y \in s /\ y \in S /\ r \in SUBSET S /\ Cardinality(r) = n
    BY <2>1, RestSmaller
  <2>3. G[r] \in Int /\ G[r] <= (n - a) * M
    BY <1>6, <2>2
  <2>4. G[s] = g[y] + G[r] /\ g[y] \in Int /\ g[y] <= M
    BY <1>3, <2>1, <2>2
  <2>5. /\ a \in {0, 1} /\ b \in {0, 1}
        /\ IF y = x THEN a = 0 /\ b = 1 ELSE a = b
    BY <2>2 DEF rest
  <2>6. y = x => g[y] = 0
    OBVIOUS
  <2> DEFINE p == G[r]
             q == g[y]
  <2>7. p \in Int /\ q \in Int /\ p <= (n - a) * M /\ q <= M /\ (y = x => q = 0)
    BY <2>3, <2>4, <2>6
  <2> HIDE DEF y, r, a, b, p, q
  <2>8. q + p <= ((n + 1) - b) * M
    <3>1. CASE y = x
      <4>1. a = 0 /\ b = 1 /\ q = 0
        BY <2>5, <2>7, <3>1
      <4>2. (n - a) = ((n + 1) - b)
        BY <4>1
      <4> QED
        BY <2>7, <4>1, <4>2
    <3>2. CASE y # x
      <4>1. a = b /\ n - a \in Int
        BY <2>5, <3>2
      <4>2. \A i \in Int : (i + 1) * M = i * M + M /\ i * M \in Int
        OBVIOUS
      <4>3. (n + 1) - b = (n - a) + 1
        BY <2>5, <4>1
      <4>4. ((n + 1) - b) * M = (n - a) * M + M /\ (n - a) * M \in Int
        BY <4>1, <4>2, <4>3
      <4> QED
        BY <2>7, <4>4
    <3> QED
      BY <3>1, <3>2
  <2> QED
    BY <2>4, <2>7, <2>8 DEF p, q, b
<1> HIDE DEF N
<1>7. Cardinality(S) \in N
  BY <1>5, <1>6, SetInduction, FS_CardinalityType
<1>8. G[S] \in Int /\ G[S] <= (Cardinality(S) - 1) * M
  BY <1>7 DEF N
<1> QED
  BY <1>1, <1>8

\* A finite set of integers has a largest element.
LEMMA Largest ==
    ASSUME NEW S \in SUBSET Int, IsFiniteSet(S), S # {}
    PROVE  Max(S) \in S /\ \A y \in S : y <= Max(S)
<1> DEFINE top(T, x) == x \in T /\ \A y \in T : x >= y
           N == {n \in Nat : \A T \in SUBSET Int :
                    IsFiniteSet(T) /\ Cardinality(T) = n + 1 => \E x : top(T, x)}
<1>1. 0 \in N
  <2> SUFFICES ASSUME NEW T \in SUBSET Int, IsFiniteSet(T), Cardinality(T) = 1
               PROVE  \E x : top(T, x)
    OBVIOUS
  <2>1. PICK x : T = {x}
    BY FS_Singleton
  <2>2. top(T, x)
    BY <2>1
  <2> QED
    BY <2>2
<1>2. ASSUME NEW n \in Nat, n \in N PROVE n + 1 \in N
  <2> SUFFICES ASSUME NEW T \in SUBSET Int, IsFiniteSet(T), Cardinality(T) = (n + 1) + 1
               PROVE  \E x : top(T, x)
    OBVIOUS
  <2>0. T # {}
    <3>1. Cardinality({}) = 0 /\ (n + 1) + 1 # 0
      BY FS_EmptySet
    <3> QED
      BY <3>1
  <2>1. PICK z \in T : TRUE
    BY <2>0
  <2> DEFINE R == T \ {z}
  <2>2. R \in SUBSET Int /\ IsFiniteSet(R) /\ Cardinality(R) = n + 1
    BY FS_RemoveElement
  <2>3. \E x : top(R, x)
    BY <1>2, <2>2
  <2>4. PICK x : top(R, x)
    BY <2>3
  <2>5. top(T, IF x >= z THEN x ELSE z)
    BY <2>1, <2>4
  <2> QED
    BY <2>5
<1> HIDE DEF N
<1>3. Cardinality(S) \in Nat /\ Cardinality(S) # 0
  BY FS_CardinalityType, FS_EmptySet
<1>4. Cardinality(S) - 1 \in Nat
  BY <1>3
<1>5. Cardinality(S) - 1 \in N
  BY <1>1, <1>2, <1>4, SetInduction
<1>6. \E x : top(S, x)
  BY <1>3, <1>5 DEF N
<1>7. top(S, Max(S))
  BY <1>6 DEF Max
<1> QED
  BY <1>7

\* No policy allows more attempts than MaxBudget.
LEMMA Budgets == MaxBudget \in Nat /\ \A op \in Operations : budget(op) \in Nat /\ budget(op) <= MaxBudget
<1> DEFINE P == {GetPolicy(op) : op \in Operations}
           B == {0, DefaultPolicy} \cup P
           f == [op \in Operations |-> GetPolicy(op)]
<1>1. f \in Surjection(Operations, P)
  BY DEF Surjection
<1>2. IsFiniteSet(P)
  BY <1>1, RetryFSAssumption, FS_Surjection
<1>3. IsFiniteSet({0} \cup {DefaultPolicy})
  BY FS_Singleton, FS_Union
<1>4. IsFiniteSet(({0} \cup {DefaultPolicy}) \cup P)
  BY <1>2, <1>3, FS_Union
<1>5. B = ({0} \cup {DefaultPolicy}) \cup P
  OBVIOUS
<1>6. IsFiniteSet(B)
  BY <1>4, <1>5, Zenon
<1>7. B \in SUBSET Int /\ B # {} /\ 0 \in B /\ \A op \in Operations : GetPolicy(op) \in B
  BY PolicyType, RetryFSAssumption
<1> HIDE DEF B
<1>8. Max(B) \in B /\ \A y \in B : y <= Max(B)
  BY <1>6, <1>7, Largest
<1>9. MaxBudget = Max(B)
  BY Zenon DEF MaxBudget, B
<1> DEFINE m == Max(B)
<1>10. m \in Int /\ 0 <= m /\ \A op \in Operations : GetPolicy(op) \in Int /\ GetPolicy(op) <= m
  BY <1>7, <1>8
<1> HIDE DEF m
<1>11. m \in Nat /\ \A op \in Operations : budget(op) \in Nat /\ budget(op) <= m
  BY <1>10 DEF budget, NonPositive
<1> QED
  BY <1>9, <1>11 DEF m

\* A goroutine has between none and MaxBudget calls left.
LEMMA LeftBounds ==
    ASSUME NEW t, ThreadInv(t), NEW k
    PROVE  left(t, k) \in Int /\ 0 <= left(t, k) /\ left(t, k) <= MaxBudget
<1>1. /\ t \in Threads /\ t.op \in Operations /\ t.calls \in Nat /\ t.attempt \in Nat
      /\ GetPolicy(t.op) \in Int /\ LoopInv(t)
  BY PolicyType DEF ThreadInv, Threads
<1>2. budget(t.op) \in Nat /\ budget(t.op) <= MaxBudget /\ MaxBudget \in Nat
  BY <1>1, Budgets
<1>3. t \in Inside => t.calls <= budget(t.op)
  BY <1>1, Places DEF LoopInv, Looping, Called, budget, NonPositive
<1> QED
  BY <1>1, <1>2, <1>3 DEF left

\* What is left changes with the goroutine that moves.
LEMMA LeftMoves ==
    ASSUME IInv, IInv', NEW w \in Workers, NEW v, Goto(w, v), NEW k
    PROVE  /\ Left(k) \in Int /\ left(v, k) \in Int /\ left(thread[w], k) \in Int
           /\ Left(k)' = Left(k) + (left(v, k) - left(thread[w], k))
<1> DEFINE g == [u \in Workers |-> left(thread[u], k)]
           h == [u \in Workers |-> left(thread'[u], k)]
<1>1. thread'[w] = v /\ \A u \in Workers : u # w => thread'[u] = thread[u]
  BY DEF Goto, IInv
<1>2. \A u \in Workers : ThreadInv(thread[u]) /\ ThreadInv(thread'[u])
  BY DEF IInv
<1>3. \A u \in Workers : left(thread[u], k) \in Int /\ left(thread'[u], k) \in Int
  BY <1>2, LeftBounds
<1>4. g \in [Workers -> Int] /\ h \in [Workers -> Int] /\ g[w] = left(thread[w], k)
      /\ h[w] = left(v, k)
  BY <1>1, <1>3
<1>5. \A u \in Workers \ {w} : h[u] = g[u]
  BY <1>1
<1>6. Left(k) = SumFunction(g) /\ Left(k)' = SumFunction(h)
  BY DEF Left
<1> HIDE DEF g, h
<1>7. SumFunction(g) \in Int /\ SumFunction(h) = SumFunction(g) + (h[w] - g[w])
  BY <1>4, <1>5, RetryFSAssumption, SumChanges
<1>8. g[w] \in Int /\ h[w] \in Int
  BY <1>4
<1> QED
  BY <1>4, <1>6, <1>7, <1>8

\* Calls are made out of what is left.
LEMMA Spent ==
    ASSUME IInv, IInv', NEW k \in Keys, TrafficOf(k), NEW w \in Workers, NEW v, Goto(w, v),
           NEW c \in Nat, openCalls'[k] = openCalls[k] + c,
           c = 0 \/ breaker[k].state = StateOpen,
           breaker'[k].state = breaker[k].state, left(v, k) + c <= left(thread[w], k)
    PROVE  TrafficOf(k)'
<1> DEFINE a == left(v, k)
           b == left(thread[w], k)
           L == Left(k)
           n == (Cardinality(Workers) - 1) * MaxBudget
           o == openCalls[k]
           state == breaker[k].state
<1>1. L \in Int /\ a \in Int /\ b \in Int /\ Left(k)' = L + (a - b) /\ o \in Nat
  BY LeftMoves DEF IInv
<1>2. n \in Int
  <2>1. Cardinality(Workers) \in Nat /\ MaxBudget \in Nat
    BY Budgets, RetryFSAssumption, FS_CardinalityType
  <2> HIDE DEF n
  <2>2. \A i, j \in Nat : (i - 1) * j \in Int
    OBVIOUS
  <2> QED
    BY <2>1, <2>2 DEF n
<1>3. /\ state # StateOpen => o = 0
      /\ state = StateOpen => L + o <= n
  BY DEF TrafficOf
<1>4. /\ openCalls'[k] = o + c /\ (c = 0 \/ state = StateOpen) /\ a + c <= b
      /\ breaker'[k].state = state
  OBVIOUS
<1> HIDE DEF a, b, L, n, o, state
<1>5. state # StateOpen => openCalls'[k] = 0
  BY <1>1, <1>3, <1>4
<1>6. state = StateOpen => Left(k)' + openCalls'[k] <= n
  BY <1>1, <1>2, <1>3, <1>4
<1> QED
  BY <1>4, <1>5, <1>6 DEF TrafficOf, n

\* A breaker opens: the goroutine that opened it has no call left.
LEMMA JustOpened ==
    ASSUME IInv, IInv', NEW k \in Keys, NEW w \in Workers, NEW v, Goto(w, v), left(v, k) = 0,
           openCalls'[k] = 0
    PROVE  TrafficOf(k)'
<1> DEFINE h == [u \in Workers |-> left(thread'[u], k)]
           n == (Cardinality(Workers) - 1) * MaxBudget
<1>1. thread'[w] = v /\ \A u \in Workers : ThreadInv(thread'[u])
  BY DEF Goto, IInv
<1>2. \A u \in Workers : left(thread'[u], k) \in Int /\ left(thread'[u], k) <= MaxBudget
  BY <1>1, LeftBounds
<1>3. h \in [Workers -> Int] /\ h[w] = 0 /\ \A u \in Workers : h[u] <= MaxBudget
  BY <1>1, <1>2
<1>4. Left(k)' = SumFunction(h)
  BY DEF Left
<1> HIDE DEF h
<1>5. SumFunction(h) \in Int /\ SumFunction(h) <= n
  BY <1>3, Budgets, RetryFSAssumption, SumBounded
<1> HIDE DEF n
<1>6. Left(k)' + openCalls'[k] <= n
  BY <1>4, <1>5
<1> QED
  BY <1>6 DEF TrafficOf, n

\* No call is left to a goroutine that is not in its loop.
LEMMA NoneLeft ==
    ASSUME NEW t \in Threads, NEW k,
           t.pc \in {"idle", "reporting", "returned"} \/ guardOf(t.op, t.ctx) # k
    PROVE  left(t, k) = 0
  BY Places DEF left

\* A method is called.  The breaker it enters is not open afterwards.
LEMMA EnterTraffic ==
    ASSUME IInv, IInv', Books, Traffic, NEW k \in Keys,
           NEW w \in Workers, NEW op \in Operations, NEW ctx \in BOOLEAN,
           Begin(w, op, ctx) \/ Refused(w, op, ctx) \/ NotImplemented(w, op, ctx)
    PROVE  TrafficOf(k)'
<1> DEFINE t == thread[w]
           j == guardOf(op, ctx)
<1>0. /\ t \in Threads /\ tally \in TallyType /\ TrafficOf(k) /\ breaker \in [Keys -> Breakers]
      /\ openCalls \in [Keys -> Nat]
  BY DEF IInv, Books, Traffic
<1>3. CASE Begin(w, op, ctx) /\ k = j
  <2>1. Allows(breaker[k]) /\ Through(k, allowCall(breaker[k])) /\ k # NoBreaker
    BY <1>3, GuardType DEF Begin
  <2>2. Has(allowCall(breaker[k]),
            IF breaker[k].state = StateOpen /\ breaker[k].sinceFailure >= Timeout
            THEN StateHalfOpen ELSE breaker[k].state,
            breaker[k].consecutiveErrors, breaker[k].consecutiveSuccess, breaker[k].sinceFailure)
    BY <1>0, AllowCallEffect
  <2>3. allowCall(breaker[k]).state =
            IF breaker[k].state = StateOpen THEN StateHalfOpen ELSE breaker[k].state
    BY <2>1, <2>2 DEF Has, Allows
  <2>4. /\ breaker'[k] = allowCall(breaker[k])
        /\ openCalls'[k] = IF allowCall(breaker[k]).state = breaker[k].state THEN openCalls[k] ELSE 0
    BY <1>0, <2>1 DEF Through
  <2>5. breaker'[k].state # StateOpen /\ openCalls'[k] = 0
    BY <1>0, <2>3, <2>4 DEF TrafficOf, StateOpen, StateHalfOpen
  <2> QED
    BY <2>5 DEF TrafficOf
<1>4. CASE ~Begin(w, op, ctx) \/ k # j
  <2>0. PICK v \in Threads : /\ Goto(w, v) /\ t.pc \in {"idle", "returned"}
                             /\ v.pc = "returned" \/ guardOf(v.op, v.ctx) # k
    <3>1. CASE Begin(w, op, ctx)
      <4>1. k # guardOf(op, ctx)
        BY <1>4, <3>1, Zenon
      <4>2. PICK v \in Threads : /\ Goto(w, v) /\ t.pc \in {"idle", "returned"}
                                 /\ guardOf(v.op, v.ctx) = guardOf(op, ctx)
        BY <1>0, <3>1, EnterMove
      <4> QED
        BY <4>1, <4>2
    <3>2. CASE ~Begin(w, op, ctx)
      BY <1>0, <3>2, TurnedAway
    <3> QED
      BY <3>1, <3>2
  <2>1. left(t, k) = 0 /\ left(v, k) = 0
    BY <1>0, <2>0, NoneLeft
  <2>2. breaker'[k].state = breaker[k].state /\ openCalls'[k] = openCalls[k]
    <3>1. CASE NotImplemented(w, op, ctx)
      BY <3>1 DEF NotImplemented
    <3>2. CASE ~NotImplemented(w, op, ctx) /\ k # j
      BY <1>0, <3>2 DEF Begin, Refused, Through
    <3>3. CASE Refused(w, op, ctx) /\ k = j
      <4>1. ~Allows(breaker[k]) /\ Through(k, allowCall(breaker[k])) /\ k # NoBreaker
        BY <3>3 DEF Refused
      <4>2. allowCall(breaker[k]) = breaker[k]
        BY <4>1 DEF allowCall
      <4> QED
        BY <1>0, <4>1, <4>2 DEF Through
    <3> QED
      BY <1>4, <3>1, <3>2, <3>3
  <2>3. openCalls'[k] = openCalls[k] + 0
    BY <1>0, <2>2
  <2>4. left(v, k) + 0 <= left(thread[w], k)
    BY <2>1
  <2> QED
    BY <1>0, <2>0, <2>2, <2>3, <2>4, Spent
<1> QED
  BY <1>3, <1>4

\* A step of the loop.
LEMMA LoopTraffic ==
    ASSUME IInv, IInv', Books, Traffic, NEW k \in Keys, NEW w \in Workers, Step(w) \/ Cancel(w)
    PROVE  TrafficOf(k)'
<1> DEFINE t == thread[w]
<1>0. /\ t \in Threads /\ t.op \in Operations /\ t.calls \in Nat /\ tally \in TallyType
      /\ TrafficOf(k) /\ ThreadInv(t)
      /\ breaker \in [Keys -> Breakers] /\ openCalls \in [Keys -> Nat]
  BY DEF IInv, Threads, Books, Traffic
<1>1. left(t, k) \in Int /\ 0 <= left(t, k) /\ budget(t.op) \in Nat
  BY <1>0, LeftBounds, Budgets
<1>2. ASSUME NEW v, Goto(w, v), Keeps(t, v), v.calls = t.calls, v.pc # "idle" /\ v.pc # "returned",
             t.pc \in {"loop", "backoff", "calling", "succeeding", "failing"},
             breaker' = breaker, openCalls' = openCalls
      PROVE  TrafficOf(k)'
  <2>1. left(v, k) = left(t, k) \/ left(v, k) = 0
    BY <1>0, <1>2, Places DEF left, Keeps
  <2> HIDE DEF t
  <2>2. left(v, k) + 0 <= left(t, k)
    BY <1>1, <2>1
  <2>3. openCalls'[k] = openCalls[k] + 0
    BY <1>0, <1>2
  <2> QED
    BY <1>0, <1>2, <2>2, <2>3, Spent DEF t
<1>3. CASE Exhausted(w) \/ SeeCancelled(w) \/ WakeUp(w) \/ CancelledInBackoff(w) \/ Cancel(w)
  <2>1. PICK v : /\ Goto(w, v) /\ Keeps(t, v) /\ v.calls = t.calls
                 /\ v.pc \in {"loop", "backoff", "calling", "succeeding", "failing", "reporting"}
                 /\ t.pc \in {"loop", "backoff", "calling", "succeeding", "failing"}
                 /\ UNCHANGED <<breaker, openCalls>>
    BY <1>0, <1>3, QuietMove
  <2> QED
    BY <1>2, <2>1
<1>4. CASE Attempt(w)
  <2>1. PICK v : /\ Goto(w, v) /\ Keeps(t, v) /\ v.calls = t.calls /\ t.pc = "loop"
                 /\ v.pc \in {"backoff", "calling"} /\ UNCHANGED <<breaker, openCalls>>
    BY <1>4, AttemptMove
  <2> QED
    BY <1>2, <2>1
<1>5. CASE Succeed(w) \/ Fail(w)
  <2>1. PICK v : /\ Goto(w, v) /\ Keeps(t, v) /\ v.calls = t.calls /\ v.pc = "reporting"
                 /\ t.pc \in {"succeeding", "failing"} /\ UNCHANGED <<breaker, openCalls>>
    BY <1>5, EndMove
  <2> QED
    BY <1>2, <2>1
<1>6. CASE Invoke(w)
  <2> DEFINE j == myBreaker(w)
             c == IF k = j /\ breaker[k].state = StateOpen THEN 1 ELSE 0
  <2>1. PICK v : /\ Goto(w, v) /\ Keeps(t, v) /\ v.calls = t.calls + 1 /\ t.pc = "calling"
                 /\ v.pc \in {"loop", "succeeding", "failing"} /\ breaker' = breaker
    BY <1>0, <1>6, CallMove
  <2>2. openCalls' = IF j # NoBreaker /\ breaker[j].state = StateOpen
                     THEN [openCalls EXCEPT ![j] = openCalls[j] + 1] ELSE openCalls
    BY <1>6, Zenon DEF Invoke
  <2>3. openCalls'[k] = openCalls[k] + c /\ c \in Nat /\ (c = 0 \/ breaker[k].state = StateOpen)
    <3>1. k # NoBreaker
      BY GuardType
    <3> HIDE DEF j
    <3> QED
      BY <1>0, <2>2, <3>1
  <2>4. j = guardOf(t.op, t.ctx)
    BY DEF myBreaker
  <2>5. left(v, k) + c <= left(t, k)
    <3>1. t \in Inside /\ v \in Inside /\ v.op = t.op /\ v.ctx = t.ctx
      BY <1>0, <2>1, Places DEF Keeps
    <3> HIDE DEF j, t
    <3>2. CASE k = j
      <4>1. left(v, k) = budget(t.op) - (t.calls + 1) /\ left(t, k) = budget(t.op) - t.calls
        BY <2>1, <2>4, <3>1, <3>2 DEF left
      <4>2. c <= 1 /\ c \in Nat
        OBVIOUS
      <4> HIDE DEF c
      <4> QED
        BY <1>0, <1>1, <4>1, <4>2
    <3>3. CASE k # j
      BY <2>4, <3>1, <3>3 DEF left
    <3> QED
      BY <3>2, <3>3
  <2> HIDE DEF c
  <2>6. breaker'[k].state = breaker[k].state /\ Goto(w, v)
    BY <2>1
  <2> QED
    BY <1>0, <2>3, <2>5, <2>6, Spent
<1>7. CASE Return(w)
  <2> DEFINE j == myBreaker(w)
             b == recordResult(breaker[j], t.err)
  <2>1. PICK v : /\ Goto(w, v) /\ Keeps(t, v) /\ t.pc = "reporting" /\ v.pc = "returned"
                 /\ Through(j, b)
    BY <1>7, ReturnMove
  <2>2. left(v, k) = 0 /\ left(t, k) = 0
    BY <1>0, <2>1, NoneLeft DEF Keeps
  <2>3. k # NoBreaker
    BY GuardType
  <2> HIDE DEF j, b
  <2>4. CASE k = j /\ b.state # breaker[k].state
    <3>1. openCalls'[k] = 0
      BY <1>0, <2>1, <2>3, <2>4 DEF Through
    <3> QED
      BY <2>1, <2>2, <3>1, JustOpened
  <2>5. CASE ~(k = j /\ b.state # breaker[k].state)
    <3>1. openCalls'[k] = openCalls[k] + 0 /\ breaker'[k].state = breaker[k].state
      BY <1>0, <2>1, <2>3, <2>5 DEF Through
    <3>2. left(v, k) + 0 <= left(thread[w], k)
      BY <2>2
    <3> QED
      BY <1>0, <2>1, <3>1, <3>2, Spent
  <2> QED
    BY <2>4, <2>5
<1> QED
  BY <1>3, <1>4, <1>5, <1>6, <1>7 DEF Step

\* No step lets more calls through than are left.
LEMMA NextTraffic == IInv /\ Books /\ Traffic /\ [Next]_vars => Traffic'
<1> SUFFICES ASSUME IInv, Books, Traffic, [Next]_vars, NEW k \in Keys PROVE TrafficOf(k)'
  BY DEF Traffic
<1>0. IInv' /\ TrafficOf(k) /\ breaker[k] \in Breakers /\ breaker \in [Keys -> Breakers]
  BY NextIInv DEF Traffic, IInv
<1>1. CASE UNCHANGED vars
  BY <1>0, <1>1 DEF vars, TrafficOf, Left
<1>2. CASE Tick
  <2>1. Has(Age(breaker[k]), breaker[k].state, breaker[k].consecutiveErrors,
            breaker[k].consecutiveSuccess, Advance(breaker[k].sinceFailure))
    BY <1>0, AgeEffect
  <2>2. breaker'[k].state = breaker[k].state /\ UNCHANGED <<thread, openCalls>>
    BY <1>2, <2>1 DEF Tick, Has
  <2>3. Left(k)' = Left(k)
    BY <2>2 DEF Left
  <2> QED
    BY <1>0, <2>2, <2>3 DEF TrafficOf
<1>3. ASSUME NEW w \in Workers, NEW op \in Operations, Method(w, op) \/ ContextMethod(w, op)
      PROVE  TrafficOf(k)'
  BY <1>0, <1>3, EnterTraffic, TargetType DEF Method, ContextMethod
<1>4. ASSUME NEW w \in Workers, Step(w) \/ Cancel(w) PROVE TrafficOf(k)'
  BY <1>0, <1>4, LoopTraffic
<1> QED
  BY <1>1, <1>2, <1>3, <1>4 DEF Next

\* The loops admitted before a breaker opened call the backend behind it at most
\* as often as the policies allow all goroutines but the one that opened it.
THEOREM OpenTrafficBounded ==
    ASSUME Workers # {}
    PROVE  Spec => []OpenBoundsTraffic
<1>1. Init => IInv /\ Books /\ Traffic
  <2>1. Init => Traffic
    BY DEF Init, Traffic, TrafficOf, NewCircuitBreaker, StateOpen, StateClosed
  <2> QED
    BY <2>1, InitIInv, InitBooks
<1>2. (IInv /\ Books /\ Traffic) /\ [Next]_vars => (IInv /\ Books /\ Traffic)'
  BY NextIInv, NextBooks, NextTraffic
<1>3. IInv /\ Traffic => OpenBoundsTraffic
  <2> SUFFICES ASSUME IInv, Traffic, NEW k \in Keys
               PROVE  openCalls[k] <= (Cardinality(Workers) - 1) * MaxBudget
    BY DEF OpenBoundsTraffic
  <2> DEFINE c == Cardinality(Workers)
             g == [w \in Workers |-> left(thread[w], k)]
  <2>1. c \in Nat /\ c # 0 /\ MaxBudget \in Nat
    BY RetryFSAssumption, FS_CardinalityType, FS_EmptySet, Budgets
  <2>2. openCalls[k] \in Nat
    BY DEF IInv
  <2>3. Left(k) \in Int /\ 0 <= Left(k)
    <3>1. \A w \in Workers : left(thread[w], k) \in Int /\ 0 <= left(thread[w], k)
      BY LeftBounds DEF IInv
    <3>2. g \in [Workers -> Int] /\ \A w \in Workers : 0 <= g[w]
      BY <3>1
    <3> HIDE DEF g
    <3>3. SumFunction(g) \in Int /\ 0 <= SumFunction(g)
      BY <3>2, RetryFSAssumption, SumNonNegative
    <3> QED
      BY <3>3 DEF Left, g
  <2> HIDE DEF c
  <2>4. \A n \in Nat : 0 <= (c - 1) * n /\ (c - 1) * n \in Int
    <3>1. c - 1 \in Nat
      BY <2>1
    <3>2. \A m, n \in Nat : 0 <= m * n /\ m * n \in Int
      OBVIOUS
    <3> QED
      BY <3>1, <3>2
  <2>5. 0 <= (c - 1) * MaxBudget /\ (c - 1) * MaxBudget \in Int
    BY <2>1, <2>4
  <2> DEFINE n == (c - 1) * MaxBudget
  <2>6. openCalls[k] = 0 \/ Left(k) + openCalls[k] <= n
    BY DEF Traffic, TrafficOf, c
  <2>7. n \in Int /\ 0 <= n
    BY <2>5
  <2> HIDE DEF n
  <2>8. openCalls[k] <= n
    BY <2>2, <2>3, <2>6, <2>7
  <2> QED
    BY <2>8 DEF n, c
<1> QED
  BY <1>1, <1>2, <1>3, PTL DEF Spec
=============================================================================
