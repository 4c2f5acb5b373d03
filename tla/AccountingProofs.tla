-------------------------- MODULE AccountingProofs --------------------------
(***************************************************************************)
(* The metrics of RetryFS balance in every reachable state, for every set  *)
(* of goroutines and operations: what has been counted, what will never be *)
(* counted and what is still under way add up.                             *)
(***************************************************************************)
EXTENDS RetryFSProofs, FiniteSetTheorems

\* The goroutines whose locals are in S.
Count(S) == Cardinality({w \in Workers : thread[w] \in S})

Inside  == {t \in Threads : t.pc \in {"loop", "backoff", "calling", "succeeding", "failing"}}
GivenUp == {t \in Threads : t.pc = "reporting" /\ t.err = CtxErr}
Trying  == {t \in Threads : t.pc \in {"backoff", "calling"}}
Fresh   == {t \in Threads : t.attempt = 0 /\ (t.pc = "loop" \/ (t.pc = "reporting" /\ t.err = CtxErr))}

\* A goroutine that moves is taken out of one count and put into another.
LEMMA CountMove ==
    ASSUME IInv, NEW w \in Workers, NEW u, Goto(w, u), NEW S
    PROVE  /\ Count(S) \in Nat /\ Count(S)' \in Nat
           /\ Count(S)' = Count(S) + (IF u \in S THEN 1 ELSE 0) - (IF thread[w] \in S THEN 1 ELSE 0)
<1> DEFINE A == {v \in Workers : thread[v] \in S}
           B == {v \in Workers : thread'[v] \in S}
<1>1. thread'[w] = u /\ \A v \in Workers : v # w => thread'[v] = thread[v]
  BY DEF Goto, IInv
<1>2. A \ {w} = B \ {w}
  BY <1>1
<1>3. IsFiniteSet(A) /\ IsFiniteSet(B)
  BY RetryFSAssumption, FS_Subset
<1>4. (w \in A <=> thread[w] \in S) /\ (w \in B <=> u \in S)
  BY <1>1
<1>5. Count(S) = Cardinality(A) /\ Count(S)' = Cardinality(B)
  BY DEF Count
<1> HIDE DEF A, B
<1>6. Cardinality(A) \in Nat /\ Cardinality(B) \in Nat
  BY <1>3, FS_CardinalityType
<1>7. Cardinality(A \ {w}) = IF w \in A THEN Cardinality(A) - 1 ELSE Cardinality(A)
  BY <1>3, FS_RemoveElement
<1>8. Cardinality(B \ {w}) = IF w \in B THEN Cardinality(B) - 1 ELSE Cardinality(B)
  BY <1>3, FS_RemoveElement
<1> DEFINE a == Cardinality(A)
           b == Cardinality(B)
<1>9. /\ a \in Nat /\ b \in Nat
      /\ (IF w \in A THEN a - 1 ELSE a) = (IF w \in B THEN b - 1 ELSE b)
  BY <1>2, <1>6, <1>7, <1>8, Zenon
<1> HIDE DEF a, b
<1>10. b = a + (IF w \in B THEN 1 ELSE 0) - (IF w \in A THEN 1 ELSE 0)
  BY <1>9
<1> QED
  BY <1>4, <1>5, <1>9, <1>10 DEF a, b

-----------------------------------------------------------------------------
(* The two books: metrics.Total and the tally                              *)

TallyType == [started : Nat, rejected : Nat, cancelled : Nat, unattempted : Nat,
              wasted : Nat, calls : Nat]

\* U counts more than T: attempts, retries, successes and failures.
Added(T, U, n, m, s, f) ==
    /\ T \in Counts /\ U \in Counts
    /\ U.Attempts = T.Attempts + n /\ U.Retries = T.Retries + m
    /\ U.Successes = T.Successes + s /\ U.Failures = T.Failures + f

\* z is y with so much added to its six fields.
Noted(y, z, s, r, c, a, x, k) ==
    /\ y \in TallyType /\ z \in TallyType
    /\ z.started = y.started + s /\ z.rejected = y.rejected + r
    /\ z.cancelled = y.cancelled + c /\ z.unattempted = y.unattempted + a
    /\ z.wasted = y.wasted + x /\ z.calls = y.calls + k

\* What the books leave open: operations, calls and first attempts under way.
openOps(T, y) == y.started - T.Successes - T.Failures - y.rejected - y.cancelled
openAttempts(T, y) == T.Attempts - y.calls - y.wasted
openFirsts(T, y) == y.started - y.rejected - (T.Attempts - T.Retries) - y.unattempted

\* How entries in the books change what is open.
LEMMA Entry ==
    ASSUME NEW T, NEW U, NEW y, NEW z,
           NEW n \in Int, NEW m \in Int, NEW s \in Int, NEW f \in Int,
           NEW d \in Int, NEW r \in Int, NEW c \in Int, NEW a \in Int,
           NEW x \in Int, NEW k \in Int,
           Added(T, U, n, m, s, f), Noted(y, z, d, r, c, a, x, k)
    PROVE  /\ openOps(T, y) \in Int /\ openAttempts(T, y) \in Int /\ openFirsts(T, y) \in Int
           /\ openOps(U, z) = openOps(T, y) + (d - s - f - r - c)
           /\ openAttempts(U, z) = openAttempts(T, y) + (n - k - x)
           /\ openFirsts(U, z) = openFirsts(T, y) + (d - r - n + m - a)
<1> DEFINE tn == T.Attempts    tm == T.Retries    ts == T.Successes     tf == T.Failures
           yd == y.started     yr == y.rejected   yc == y.cancelled     ya == y.unattempted
           yx == y.wasted      yk == y.calls
<1>1. tn \in Int /\ tm \in Int /\ ts \in Int /\ tf \in Int
  BY DEF Added, Counts
<1>2. yd \in Int /\ yr \in Int /\ yc \in Int /\ ya \in Int /\ yx \in Int /\ yk \in Int
  BY DEF Noted, TallyType
<1>3. /\ openOps(T, y) = yd - ts - tf - yr - yc
      /\ openOps(U, z) = (yd + d) - (ts + s) - (tf + f) - (yr + r) - (yc + c)
  BY Zenon DEF openOps, Added, Noted
<1>4. /\ openAttempts(T, y) = tn - yk - yx
      /\ openAttempts(U, z) = (tn + n) - (yk + k) - (yx + x)
  BY Zenon DEF openAttempts, Added, Noted
<1>5. /\ openFirsts(T, y) = yd - yr - (tn - tm) - ya
      /\ openFirsts(U, z) = (yd + d) - (yr + r) - ((tn + n) - (tm + m)) - (ya + a)
  BY Zenon DEF openFirsts, Added, Noted
<1> HIDE DEF tn, tm, ts, tf, yd, yr, yc, ya, yx, yk
<1>6. openOps(T, y) \in Int /\ openOps(U, z) = openOps(T, y) + (d - s - f - r - c)
  BY <1>1, <1>2, <1>3
<1>7. openAttempts(T, y) \in Int /\ openAttempts(U, z) = openAttempts(T, y) + (n - k - x)
  BY <1>1, <1>2, <1>4
<1>8. openFirsts(T, y) \in Int /\ openFirsts(U, z) = openFirsts(T, y) + (d - r - n + m - a)
  BY <1>1, <1>2, <1>5
<1> QED
  BY <1>6, <1>7, <1>8

EveryPolicyAllows == \A op \in Operations : GetPolicy(op) > 0

\* What is open is what goroutines are doing.
Books ==
    /\ tally \in TallyType
    /\ openOps(metrics.Total, tally) = Count(Inside) + Count(GivenUp)
    /\ openAttempts(metrics.Total, tally) = Count(Trying)
    /\ EveryPolicyAllows => openFirsts(metrics.Total, tally) = Count(Fresh)

\* Nothing has happened, and nothing is counted.
LEMMA InitBooks == Init => Books
<1> SUFFICES ASSUME Init PROVE Books
  OBVIOUS
<1>1. \A w \in Workers : thread[w].pc = "idle"
  BY IdleThread, RetryFSAssumption DEF Init
<1>2. \A S \in {Inside, GivenUp, Trying, Fresh} : {w \in Workers : thread[w] \in S} = {}
  BY <1>1 DEF Inside, GivenUp, Trying, Fresh
<1>3. Count(Inside) = 0 /\ Count(GivenUp) = 0 /\ Count(Trying) = 0 /\ Count(Fresh) = 0
  BY <1>2, FS_EmptySet DEF Count
<1>4. /\ tally \in TallyType /\ tally.started = 0 /\ tally.rejected = 0 /\ tally.cancelled = 0
      /\ tally.unattempted = 0 /\ tally.wasted = 0 /\ tally.calls = 0
  BY DEF Init, TallyType
<1>5. /\ metrics.Total.Attempts = 0 /\ metrics.Total.Retries = 0
      /\ metrics.Total.Successes = 0 /\ metrics.Total.Failures = 0
  BY DEF Init, NewMetrics, NewOperationMetrics
<1> QED
  BY <1>3, <1>4, <1>5 DEF Books, openOps, openAttempts, openFirsts

\* By how much a move from t to u changes the number of goroutines in S.
moved(t, u, S) == (IF u \in S THEN 1 ELSE 0) - (IF t \in S THEN 1 ELSE 0)

\* Entries that match the move of one goroutine keep the books balanced.
LEMMA Rebalance ==
    ASSUME IInv, Books, NEW w \in Workers, NEW v, Goto(w, v),
           NEW n \in Int, NEW m \in Int, NEW s \in Int, NEW f \in Int,
           NEW d \in Int, NEW r \in Int, NEW c \in Int, NEW a \in Int,
           NEW x \in Int, NEW k \in Int,
           Added(metrics.Total, metrics'.Total, n, m, s, f),
           Noted(tally, tally', d, r, c, a, x, k),
           moved(thread[w], v, Inside) + moved(thread[w], v, GivenUp) = d - s - f - r - c,
           moved(thread[w], v, Trying) = n - k - x,
           EveryPolicyAllows => moved(thread[w], v, Fresh) = d - r - n + m - a
    PROVE  Books'
<1> DEFINE i == moved(thread[w], v, Inside)
           g == moved(thread[w], v, GivenUp)
           t == moved(thread[w], v, Trying)
           h == moved(thread[w], v, Fresh)
<1>1. ASSUME NEW S
      PROVE  /\ Count(S) \in Nat /\ moved(thread[w], v, S) \in Int
             /\ Count(S)' = Count(S) + moved(thread[w], v, S)
  <2>1. /\ Count(S) \in Nat
        /\ Count(S)' = Count(S) + (IF v \in S THEN 1 ELSE 0) - (IF thread[w] \in S THEN 1 ELSE 0)
    BY CountMove
  <2> QED
    BY <2>1 DEF moved
<1>2. /\ Count(Inside) \in Nat /\ i \in Int /\ Count(Inside)' = Count(Inside) + i
      /\ Count(GivenUp) \in Nat /\ g \in Int /\ Count(GivenUp)' = Count(GivenUp) + g
      /\ Count(Trying) \in Nat /\ t \in Int /\ Count(Trying)' = Count(Trying) + t
      /\ Count(Fresh) \in Nat /\ h \in Int /\ Count(Fresh)' = Count(Fresh) + h
  BY <1>1
<1>3. /\ openOps(metrics.Total, tally) \in Int
      /\ openAttempts(metrics.Total, tally) \in Int
      /\ openFirsts(metrics.Total, tally) \in Int
      /\ openOps(metrics'.Total, tally') = openOps(metrics.Total, tally) + (d - s - f - r - c)
      /\ openAttempts(metrics'.Total, tally') = openAttempts(metrics.Total, tally) + (n - k - x)
      /\ openFirsts(metrics'.Total, tally') =
             openFirsts(metrics.Total, tally) + (d - r - n + m - a)
  BY Entry
<1>4. tally' \in TallyType
  BY DEF Noted
<1>5. i + g = d - s - f - r - c /\ t = n - k - x /\ (EveryPolicyAllows => h = d - r - n + m - a)
  OBVIOUS
<1> HIDE DEF i, g, t, h
<1>6. openOps(metrics'.Total, tally') = Count(Inside)' + Count(GivenUp)'
  BY <1>2, <1>3, <1>5 DEF Books
<1>7. openAttempts(metrics'.Total, tally') = Count(Trying)'
  BY <1>2, <1>3, <1>5 DEF Books
<1>8. EveryPolicyAllows => openFirsts(metrics'.Total, tally') = Count(Fresh)'
  BY <1>2, <1>3, <1>5 DEF Books
<1> QED
  BY <1>4, <1>6, <1>7, <1>8 DEF Books, openOps, openAttempts, openFirsts, EveryPolicyAllows

\* Where a goroutine is counted.
LEMMA Places ==
    ASSUME NEW t \in Threads
    PROVE  /\ t \in Inside <=>
                  t.pc \in {"loop", "backoff", "calling", "succeeding", "failing"}
           /\ t \in GivenUp <=> (t.pc = "reporting" /\ t.err = CtxErr)
           /\ t \in Trying <=> t.pc \in {"backoff", "calling"}
           /\ t \in Fresh <=>
                  t.attempt = 0 /\ (t.pc = "loop" \/ (t.pc = "reporting" /\ t.err = CtxErr))
  BY DEF Inside, GivenUp, Trying, Fresh

-----------------------------------------------------------------------------
(* The entries                                                             *)

\* Books nobody writes in stay the same.
LEMMA NoEntry ==
    /\ \A T \in Counts : Added(T, T, 0, 0, 0, 0)
    /\ \A y \in TallyType : Noted(y, y, 0, 0, 0, 0, 0, 0)
<1>1. ASSUME NEW T \in Counts PROVE Added(T, T, 0, 0, 0, 0)
  BY DEF Added, Counts
<1>2. ASSUME NEW y \in TallyType PROVE Noted(y, y, 0, 0, 0, 0, 0, 0)
  BY DEF Noted, TallyType
<1> QED
  BY <1>1, <1>2

\* The notes the actions make in the tally.
LEMMA Notes ==
    ASSUME NEW y \in TallyType
    PROVE  /\ Noted(y, [y EXCEPT !.started = @ + 1], 1, 0, 0, 0, 0, 0)
           /\ Noted(y, [y EXCEPT !.started = @ + 1, !.rejected = @ + 1], 1, 1, 0, 0, 0, 0)
           /\ Noted(y, [y EXCEPT !.wasted = @ + 1], 0, 0, 0, 0, 1, 0)
           /\ Noted(y, [y EXCEPT !.calls = @ + 1], 0, 0, 0, 0, 0, 1)
<1> DEFINE s == y.started + 1
           r == y.rejected + 1
           x == y.wasted + 1
           k == y.calls + 1
<1>1. /\ y.started \in Nat /\ y.rejected \in Nat /\ y.cancelled \in Nat
      /\ y.unattempted \in Nat /\ y.wasted \in Nat /\ y.calls \in Nat
      /\ s \in Nat /\ r \in Nat /\ x \in Nat /\ k \in Nat
  BY DEF TallyType
<1>2. /\ [y EXCEPT !.started = @ + 1] = [y EXCEPT !.started = s]
      /\ [y EXCEPT !.started = @ + 1, !.rejected = @ + 1] =
             [y EXCEPT !.started = s, !.rejected = r]
      /\ [y EXCEPT !.wasted = @ + 1] = [y EXCEPT !.wasted = x]
      /\ [y EXCEPT !.calls = @ + 1] = [y EXCEPT !.calls = k]
  BY Zenon
<1> HIDE DEF s, r, x, k
<1>3. Noted(y, [y EXCEPT !.started = s], 1, 0, 0, 0, 0, 0)
  <2> DEFINE z == [y EXCEPT !.started = s]
  <2>1. /\ z \in TallyType /\ z.started = s /\ z.rejected = y.rejected
        /\ z.cancelled = y.cancelled /\ z.unattempted = y.unattempted
        /\ z.wasted = y.wasted /\ z.calls = y.calls
    BY <1>1 DEF TallyType
  <2> HIDE DEF z
  <2> QED
    BY <1>1, <2>1 DEF Noted, s, z
<1>4. Noted(y, [y EXCEPT !.started = s, !.rejected = r], 1, 1, 0, 0, 0, 0)
  <2> DEFINE z == [y EXCEPT !.started = s, !.rejected = r]
  <2>1. /\ z \in TallyType /\ z.started = s /\ z.rejected = r
        /\ z.cancelled = y.cancelled /\ z.unattempted = y.unattempted
        /\ z.wasted = y.wasted /\ z.calls = y.calls
    BY <1>1 DEF TallyType
  <2> HIDE DEF z
  <2> QED
    BY <1>1, <2>1 DEF Noted, s, r, z
<1>5. Noted(y, [y EXCEPT !.wasted = x], 0, 0, 0, 0, 1, 0)
  <2> DEFINE z == [y EXCEPT !.wasted = x]
  <2>1. /\ z \in TallyType /\ z.started = y.started /\ z.rejected = y.rejected
        /\ z.cancelled = y.cancelled /\ z.unattempted = y.unattempted
        /\ z.wasted = x /\ z.calls = y.calls
    BY <1>1 DEF TallyType
  <2> HIDE DEF z
  <2> QED
    BY <1>1, <2>1 DEF Noted, x, z
<1>6. Noted(y, [y EXCEPT !.calls = k], 0, 0, 0, 0, 0, 1)
  <2> DEFINE z == [y EXCEPT !.calls = k]
  <2>1. /\ z \in TallyType /\ z.started = y.started /\ z.rejected = y.rejected
        /\ z.cancelled = y.cancelled /\ z.unattempted = y.unattempted
        /\ z.wasted = y.wasted /\ z.calls = k
    BY <1>1 DEF TallyType
  <2> HIDE DEF z
  <2> QED
    BY <1>1, <2>1 DEF Noted, k, z
<1> QED
  BY <1>2, <1>3, <1>4, <1>5, <1>6

\* The note a cancelled operation leaves when it returns.
LEMMA CancelNote ==
    ASSUME NEW y \in TallyType, NEW first \in {0, 1}
    PROVE  Noted(y, [y EXCEPT !.cancelled = @ + 1,
                              !.unattempted = IF first = 1 THEN @ + 1 ELSE @],
                 0, 0, 1, first, 0, 0)
<1> DEFINE c == y.cancelled + 1
           a == y.unattempted + first
           z == [y EXCEPT !.cancelled = c, !.unattempted = a]
<1>1. /\ y.started \in Nat /\ y.rejected \in Nat /\ y.cancelled \in Nat
      /\ y.unattempted \in Nat /\ y.wasted \in Nat /\ y.calls \in Nat
      /\ c \in Nat /\ a \in Nat
  BY DEF TallyType
<1>2. a = IF first = 1 THEN y.unattempted + 1 ELSE y.unattempted
  BY <1>1
<1>3. z = [y EXCEPT !.cancelled = @ + 1, !.unattempted = IF first = 1 THEN @ + 1 ELSE @]
  <2> HIDE DEF a
  <2> QED
    BY <1>2, Zenon
<1> HIDE DEF c, a
<1>4. /\ z \in TallyType /\ z.started = y.started /\ z.rejected = y.rejected
      /\ z.cancelled = c /\ z.unattempted = a /\ z.wasted = y.wasted /\ z.calls = y.calls
  BY <1>1 DEF TallyType
<1>5. Noted(y, z, 0, 0, 1, first, 0, 0)
  <2> HIDE DEF z
  <2> QED
    BY <1>1, <1>4 DEF Noted, c, a
<1> QED
  BY <1>3, <1>5, Zenon

\* The entries RecordAttempt, RecordSuccess and RecordFailure make.
LEMMA Records ==
    ASSUME NEW m \in MetricsType, NEW op \in Operations
    PROVE  /\ Added(m.Total, RecordAttempt(m, op, FALSE).Total, 1, 0, 0, 0)
           /\ Added(m.Total, RecordAttempt(m, op, TRUE).Total, 1, 1, 0, 0)
           /\ Added(m.Total, RecordSuccess(m, op).Total, 0, 0, 1, 0)
           /\ \A e \in ErrorClass : Added(m.Total, RecordFailure(m, op, e).Total, 0, 0, 0, 1)
<1> DEFINE T == m.Total
           s == T.Successes + 1
           f == T.Failures + 1
<1>1. /\ T \in Counts /\ T.Attempts \in Nat /\ T.Retries \in Nat
      /\ T.Successes \in Nat /\ T.Failures \in Nat /\ s \in Nat /\ f \in Nat
  BY DEF MetricsType, Counts
<1>2. ASSUME NEW b \in BOOLEAN
      PROVE  /\ CountAttempt(T, b) \in Counts /\ CountAttempt(T, b).Attempts = T.Attempts + 1
             /\ CountAttempt(T, b).Retries = T.Retries + (IF b THEN 1 ELSE 0)
             /\ CountAttempt(T, b).Successes = T.Successes /\ CountAttempt(T, b).Failures = T.Failures
             /\ RecordAttempt(m, op, b).Total = CountAttempt(T, b)
  BY <1>1, CountAttemptEffect, RecordAttemptEffect
<1>3. Added(T, [T EXCEPT !.Successes = s], 0, 0, 1, 0)
  <2> DEFINE U == [T EXCEPT !.Successes = s]
  <2> HIDE DEF s, T
  <2>1. /\ U \in Counts /\ U.Attempts = T.Attempts /\ U.Retries = T.Retries
        /\ U.Successes = s /\ U.Failures = T.Failures
    BY <1>1 DEF Counts
  <2> HIDE DEF U
  <2> QED
    BY <1>1, <2>1 DEF Added, s, U
<1>4. Added(T, [T EXCEPT !.Failures = f], 0, 0, 0, 1)
  <2> DEFINE U == [T EXCEPT !.Failures = f]
  <2> HIDE DEF f, T
  <2>1. /\ U \in Counts /\ U.Attempts = T.Attempts /\ U.Retries = T.Retries
        /\ U.Successes = T.Successes /\ U.Failures = f
    BY <1>1 DEF Counts
  <2> HIDE DEF U
  <2> QED
    BY <1>1, <2>1 DEF Added, f, U
<1>5. Added(T, RecordAttempt(m, op, FALSE).Total, 1, 0, 0, 0)
  <2> DEFINE U == CountAttempt(T, FALSE)
  <2>1. /\ U \in Counts /\ U.Attempts = T.Attempts + 1 /\ U.Retries = T.Retries + 0
        /\ U.Successes = T.Successes /\ U.Failures = T.Failures
        /\ RecordAttempt(m, op, FALSE).Total = U
    BY <1>2, Zenon
  <2> HIDE DEF T, U
  <2>2. Added(T, U, 1, 0, 0, 0)
    BY <1>1, <2>1 DEF Added
  <2> QED
    BY <2>1, <2>2, Zenon
<1>6. Added(T, RecordAttempt(m, op, TRUE).Total, 1, 1, 0, 0)
  <2> DEFINE U == CountAttempt(T, TRUE)
  <2>1. /\ U \in Counts /\ U.Attempts = T.Attempts + 1 /\ U.Retries = T.Retries + 1
        /\ U.Successes = T.Successes /\ U.Failures = T.Failures
        /\ RecordAttempt(m, op, TRUE).Total = U
    BY <1>2, Zenon
  <2> HIDE DEF T, U
  <2>2. Added(T, U, 1, 1, 0, 0)
    BY <1>1, <2>1 DEF Added
  <2> QED
    BY <2>1, <2>2, Zenon
<1>7. RecordSuccess(m, op).Total = [T EXCEPT !.Successes = s]
  BY RecordSuccessEffect, Zenon
<1>8. \A e \in ErrorClass : RecordFailure(m, op, e).Total = [T EXCEPT !.Failures = f]
  BY RecordFailureEffect, Zenon
<1> QED
  BY <1>3, <1>4, <1>5, <1>6, <1>7, <1>8, Zenon

-----------------------------------------------------------------------------
(* One step for each action                                                *)

\* The locals after the assignments the actions make.
LEMMA Assigned ==
    ASSUME NEW t \in Threads
    PROVE  /\ \A q \in Labels : LET v == [t EXCEPT !.pc = q]
                                IN  v \in Threads /\ v.pc = q /\ v.err = t.err
                                    /\ v.attempt = t.attempt
           /\ \A e \in Error : LET v == [t EXCEPT !.pc = "reporting", !.err = e]
                               IN  v \in Threads /\ v.pc = "reporting" /\ v.err = e
                                   /\ v.attempt = t.attempt
           /\ LET v == [t EXCEPT !.cancelled = TRUE]
              IN  v \in Threads /\ v.pc = t.pc /\ v.err = t.err /\ v.attempt = t.attempt
<1>1. ASSUME NEW q \in Labels
      PROVE  LET v == [t EXCEPT !.pc = q]
             IN  v \in Threads /\ v.pc = q /\ v.err = t.err /\ v.attempt = t.attempt
  BY DEF Threads
<1>2. ASSUME NEW e \in Error
      PROVE  LET v == [t EXCEPT !.pc = "reporting", !.err = e]
             IN  v \in Threads /\ v.pc = "reporting" /\ v.err = e /\ v.attempt = t.attempt
  BY DEF Threads, Labels
<1>3. LET v == [t EXCEPT !.cancelled = TRUE]
      IN  v \in Threads /\ v.pc = t.pc /\ v.err = t.err /\ v.attempt = t.attempt
  BY DEF Threads
<1> QED
  BY <1>1, <1>2, <1>3, Zenon

\* The goroutine's locals, and the books before the step.
LEMMA Before ==
    ASSUME IInv, Books, NEW w \in Workers
    PROVE  /\ thread[w] \in Threads /\ LoopInv(thread[w])
           /\ thread[w].op \in Operations /\ thread[w].attempt \in Nat
           /\ thread[w].lastErr \in BackendErr /\ thread[w].err \in Error
           /\ metrics \in MetricsType /\ metrics.Total \in Counts /\ tally \in TallyType
  BY DEF IInv, ThreadInv, Threads, Books, MetricsType

\* An operation begins, is refused, or is not implemented.
LEMMA EntersBooks ==
    ASSUME IInv, Books, NEW w \in Workers, NEW op \in Operations, NEW ctx \in BOOLEAN,
           Begin(w, op, ctx) \/ Refused(w, op, ctx) \/ NotImplemented(w, op, ctx)
    PROVE  Books'
<1> DEFINE t == thread[w]
<1>1. t \in Threads /\ t.pc \in {"idle", "returned"} /\ metrics' = metrics
  BY Before DEF Begin, Refused, NotImplemented, free
<1>2. Added(metrics.Total, metrics'.Total, 0, 0, 0, 0)
  BY <1>1, Before, NoEntry
<1>3. Idle \in Threads /\ Idle.attempt = 0
  BY IdleThread, RetryFSAssumption
<1>4. CASE Begin(w, op, ctx)
  <2> DEFINE v == [Idle EXCEPT !.pc = "loop", !.op = op, !.ctx = ctx]
  <2>1. v \in Threads /\ v.pc = "loop" /\ v.attempt = 0
    BY <1>3 DEF Threads, Labels
  <2>2. Goto(w, v)
    BY <1>4 DEF Begin
  <2>3. Noted(tally, tally', 1, 0, 0, 0, 0, 0)
    BY <1>4, Before, Notes DEF Begin
  <2> HIDE DEF v, t
  <2>4. /\ moved(t, v, Inside) + moved(t, v, GivenUp) = 1 /\ moved(t, v, Trying) = 0
        /\ moved(t, v, Fresh) = 1
    BY <1>1, <2>1, Places DEF moved
  <2> QED
    BY <1>2, <2>2, <2>3, <2>4, Rebalance DEF t
<1>5. CASE Refused(w, op, ctx) \/ NotImplemented(w, op, ctx)
  <2>1. PICK v : v \in Threads /\ v.pc = "returned" /\ Goto(w, v)
    <3>1. thread' \in [Workers -> Threads]
      BY <1>5, MethodStep DEF IInv
    <3>2. ASSUME NEW e, NEW r, NEW x,
                 x = [Idle EXCEPT !.pc = "returned", !.op = op, !.ctx = ctx, !.err = e]
          PROVE  /\ x.pc = "returned" /\ [x EXCEPT !.ret = r].pc = "returned"
                 /\ [Idle EXCEPT !.pc = "returned", !.op = op, !.ctx = ctx, !.err = e,
                                 !.ret = r].pc = "returned"
      BY <1>3, <3>2 DEF Threads
    <3>3. PICK v : v.pc = "returned" /\ Goto(w, v)
      BY <1>5, <3>2 DEF Refused, NotImplemented
    <3>4. thread'[w] = v
      BY <3>3 DEF Goto, IInv
    <3> QED
      BY <3>1, <3>3, <3>4
  <2> HIDE DEF t
  <2>2. /\ moved(t, v, Inside) + moved(t, v, GivenUp) = 0 /\ moved(t, v, Trying) = 0
        /\ moved(t, v, Fresh) = 0
    BY <1>1, <2>1, Places DEF moved
  <2>3. CASE Refused(w, op, ctx)
    <3>1. Noted(tally, tally', 1, 1, 0, 0, 0, 0)
      BY <2>3, Before, Notes DEF Refused
    <3> QED
      BY <1>2, <2>1, <2>2, <3>1, Rebalance DEF t
  <2>4. CASE NotImplemented(w, op, ctx)
    <3>1. Noted(tally, tally', 0, 0, 0, 0, 0, 0)
      BY <2>4, Before, NoEntry DEF NotImplemented
    <3> QED
      BY <1>2, <2>1, <2>2, <3>1, Rebalance DEF t
  <2> QED
    BY <1>5, <2>3, <2>4
<1> QED
  BY <1>4, <1>5

\* Nothing is entered, and nothing moves out of its place.
LEMMA QuietBooks ==
    ASSUME IInv, Books, NEW w \in Workers,
           \/ Exhausted(w) \/ SeeCancelled(w) \/ WakeUp(w) \/ Cancel(w)
    PROVE  Books'
<1> DEFINE t == thread[w]
<1>1. metrics' = metrics /\ tally' = tally
  BY DEF Exhausted, SeeCancelled, WakeUp, Cancel
<1>2. Added(metrics.Total, metrics'.Total, 0, 0, 0, 0) /\ Noted(tally, tally', 0, 0, 0, 0, 0, 0)
  BY <1>1, Before, NoEntry
<1>3. t \in Threads /\ t.attempt \in Nat /\ t.op \in Operations /\ GetPolicy(t.op) \in Int
  BY Before, PolicyType
<1> HIDE DEF t
<1>4. PICK v : /\ Goto(w, v)
               /\ moved(t, v, Inside) + moved(t, v, GivenUp) = 0 /\ moved(t, v, Trying) = 0
               /\ EveryPolicyAllows => moved(t, v, Fresh) = 0
  <2>1. CASE Exhausted(w)
    <3> DEFINE v == [t EXCEPT !.pc = "failing"]
    <3>1. Goto(w, v) /\ t.pc = "loop" /\ t.attempt >= GetPolicy(t.op)
      BY <2>1 DEF Exhausted, t
    <3>2. v \in Threads /\ v.pc = "failing"
      BY <1>3, Assigned DEF Labels
    <3> HIDE DEF v
    <3>3. EveryPolicyAllows => t.attempt # 0
      BY <1>3, <3>1 DEF EveryPolicyAllows
    <3> QED
      BY <1>3, <3>1, <3>2, <3>3, Places DEF moved
  <2>2. CASE SeeCancelled(w)
    <3> DEFINE v == [t EXCEPT !.pc = "reporting", !.err = CtxErr]
    <3>1. Goto(w, v) /\ t.pc = "loop"
      BY <2>2 DEF SeeCancelled, t
    <3>2. v \in Threads /\ v.pc = "reporting" /\ v.err = CtxErr /\ v.attempt = t.attempt
      BY <1>3, Assigned, ErrorsDiffer
    <3> HIDE DEF v
    <3> QED
      BY <1>3, <3>1, <3>2, Places DEF moved
  <2>3. CASE WakeUp(w)
    <3> DEFINE v == [t EXCEPT !.pc = "calling"]
    <3>1. Goto(w, v) /\ t.pc = "backoff"
      BY <2>3 DEF WakeUp, t
    <3>2. v \in Threads /\ v.pc = "calling"
      BY <1>3, Assigned DEF Labels
    <3> HIDE DEF v
    <3> QED
      BY <1>3, <3>1, <3>2, Places DEF moved
  <2>4. CASE Cancel(w)
    <3> DEFINE v == [t EXCEPT !.cancelled = TRUE]
    <3>1. Goto(w, v)
      BY <2>4 DEF Cancel, t
    <3>2. v \in Threads /\ v.pc = t.pc /\ v.err = t.err /\ v.attempt = t.attempt
      BY <1>3, Assigned
    <3> HIDE DEF v
    <3> QED
      BY <1>3, <3>1, <3>2, Places DEF moved
  <2> QED
    BY <2>1, <2>2, <2>3, <2>4
<1> QED
  BY <1>2, <1>4, Rebalance DEF t

\* An attempt is recorded, as a first one or as a retry.
LEMMA AttemptBooks ==
    ASSUME IInv, Books, NEW w \in Workers, Attempt(w)
    PROVE  Books'
<1> DEFINE t == thread[w]
<1>1. t \in Threads /\ t.attempt \in Nat /\ t.op \in Operations /\ metrics \in MetricsType
  BY Before
<1>2. t.pc = "loop" /\ tally' = tally
  BY DEF Attempt
<1>3. Noted(tally, tally', 0, 0, 0, 0, 0, 0)
  BY <1>2, Before, NoEntry
<1> HIDE DEF t
<1>4. CASE t.attempt = 0
  <2> DEFINE v == [t EXCEPT !.pc = "calling"]
  <2>1. (t.attempt > 0) = FALSE
    BY <1>4
  <2>2. Goto(w, v) /\ metrics' = RecordAttempt(metrics, t.op, FALSE)
    BY <2>1, Zenon DEF Attempt, t
  <2>3. v \in Threads /\ v.pc = "calling"
    BY <1>1, Assigned DEF Labels
  <2> HIDE DEF v
  <2>4. Added(metrics.Total, metrics'.Total, 1, 0, 0, 0)
    BY <1>1, <2>2, Records
  <2>5. /\ moved(t, v, Inside) + moved(t, v, GivenUp) = 0 /\ moved(t, v, Trying) = 1
        /\ moved(t, v, Fresh) = -1
    BY <1>1, <1>2, <1>4, <2>3, Places DEF moved
  <2>6. Goto(w, v)
    BY <2>2
  <2> QED
    BY <1>3, <2>4, <2>5, <2>6, Rebalance DEF t
<1>5. CASE t.attempt # 0
  <2> DEFINE v == [t EXCEPT !.pc = "backoff"]
  <2>1. (t.attempt > 0) = TRUE
    BY <1>1, <1>5
  <2>2. Goto(w, v) /\ metrics' = RecordAttempt(metrics, t.op, TRUE)
    BY <2>1, Zenon DEF Attempt, t
  <2>3. v \in Threads /\ v.pc = "backoff"
    BY <1>1, Assigned DEF Labels
  <2> HIDE DEF v
  <2>4. Added(metrics.Total, metrics'.Total, 1, 1, 0, 0)
    BY <1>1, <2>2, Records
  <2>5. /\ moved(t, v, Inside) + moved(t, v, GivenUp) = 0 /\ moved(t, v, Trying) = 1
        /\ moved(t, v, Fresh) = 0
    BY <1>1, <1>2, <1>5, <2>3, Places DEF moved
  <2>6. Goto(w, v)
    BY <2>2
  <2> QED
    BY <1>3, <2>4, <2>5, <2>6, Rebalance DEF t
<1> QED
  BY <1>4, <1>5

\* A cancellation cuts a backoff short, or the backend is called.
LEMMA CallBooks ==
    ASSUME IInv, Books, NEW w \in Workers, CancelledInBackoff(w) \/ Invoke(w)
    PROVE  Books'
<1> DEFINE t == thread[w]
<1>1. t \in Threads /\ t.attempt \in Nat /\ LoopInv(t)
  BY Before
<1>2. Added(metrics.Total, metrics'.Total, 0, 0, 0, 0)
  BY Before, NoEntry DEF CancelledInBackoff, Invoke
<1> HIDE DEF t
<1>3. CASE CancelledInBackoff(w)
  <2> DEFINE v == [t EXCEPT !.pc = "reporting", !.err = CtxErr]
  <2>1. Goto(w, v)
    BY <1>3 DEF CancelledInBackoff, t
  <2>2. t.pc = "backoff" /\ t.attempt # 0
    BY <1>1, <1>3 DEF CancelledInBackoff, LoopInv, t
  <2>3. v \in Threads /\ v.pc = "reporting" /\ v.err = CtxErr /\ v.attempt = t.attempt
    BY <1>1, Assigned, ErrorsDiffer
  <2> HIDE DEF v
  <2>4. Noted(tally, tally', 0, 0, 0, 0, 1, 0)
    BY <1>3, Before, Notes DEF CancelledInBackoff
  <2>5. /\ moved(t, v, Inside) + moved(t, v, GivenUp) = 0 /\ moved(t, v, Trying) = -1
        /\ moved(t, v, Fresh) = 0
    BY <1>1, <2>2, <2>3, Places DEF moved
  <2> QED
    BY <1>2, <2>1, <2>4, <2>5, Rebalance DEF t
<1>4. CASE Invoke(w)
  <2>1. PICK e \in BackendErr : Goto(w, AfterCall(t, e))
    BY <1>4 DEF Invoke, BackendErr, t
  <2> DEFINE v == AfterCall(t, e)
  <2>2. /\ v \in Threads /\ v.pc \in {"succeeding", "failing", "loop"}
        /\ v.pc = "loop" => v.attempt = t.attempt + 1
    BY <1>1, AfterCallEffect
  <2>3. t.pc = "calling"
    BY <1>4 DEF Invoke, t
  <2>4. Goto(w, v)
    BY <2>1
  <2> HIDE DEF v
  <2>5. Noted(tally, tally', 0, 0, 0, 0, 0, 1)
    BY <1>4, Before, Notes DEF Invoke
  <2>6. v.pc = "loop" => v.attempt # 0
    BY <1>1, <2>2
  <2>7. /\ moved(t, v, Inside) + moved(t, v, GivenUp) = 0 /\ moved(t, v, Trying) = -1
        /\ moved(t, v, Fresh) = 0
    BY <1>1, <2>2, <2>3, <2>6, Places DEF moved
  <2> QED
    BY <1>2, <2>4, <2>5, <2>7, Rebalance DEF t
<1> QED
  BY <1>3, <1>4

\* The loop ends with a success or a failure, which is counted.
LEMMA EndBooks ==
    ASSUME IInv, Books, NEW w \in Workers, Succeed(w) \/ Fail(w)
    PROVE  Books'
<1> DEFINE t == thread[w]
<1>1. /\ t \in Threads /\ t.op \in Operations /\ t.lastErr \in BackendErr
      /\ metrics \in MetricsType
  BY Before
<1>2. t.pc \in {"succeeding", "failing"} /\ tally' = tally
  BY DEF Succeed, Fail
<1>3. Noted(tally, tally', 0, 0, 0, 0, 0, 0)
  BY <1>2, Before, NoEntry
<1> HIDE DEF t
<1>4. ASSUME NEW e \in BackendErr, NEW v, v = [t EXCEPT !.pc = "reporting", !.err = e]
      PROVE  /\ moved(t, v, Inside) + moved(t, v, GivenUp) = -1 /\ moved(t, v, Trying) = 0
             /\ moved(t, v, Fresh) = 0
  <2>1. e # CtxErr /\ e \in Error
    BY ErrorsDiffer DEF BackendErr
  <2>2. v \in Threads /\ v.pc = "reporting" /\ v.err = e
    BY <1>1, <1>4, <2>1 DEF Threads, Labels
  <2> QED
    BY <1>1, <1>2, <2>1, <2>2, Places DEF moved
<1>5. CASE Succeed(w)
  <2> DEFINE v == [t EXCEPT !.pc = "reporting", !.err = NoError]
  <2>1. Goto(w, v)
    BY <1>5 DEF Succeed, t
  <2>2. /\ moved(t, v, Inside) + moved(t, v, GivenUp) = -1 /\ moved(t, v, Trying) = 0
        /\ moved(t, v, Fresh) = 0
    BY <1>4 DEF BackendErr
  <2>3. Added(metrics.Total, metrics'.Total, 0, 0, 1, 0)
    BY <1>1, <1>5, Records DEF Succeed, t
  <2> HIDE DEF v
  <2> QED
    BY <1>3, <2>1, <2>2, <2>3, Rebalance DEF t
<1>6. CASE Fail(w)
  <2> DEFINE v == [t EXCEPT !.pc = "reporting", !.err = t.lastErr]
  <2>1. Goto(w, v)
    BY <1>6 DEF Fail, t
  <2>2. /\ moved(t, v, Inside) + moved(t, v, GivenUp) = -1 /\ moved(t, v, Trying) = 0
        /\ moved(t, v, Fresh) = 0
    BY <1>1, <1>4
  <2>3. ErrorClassifier(t.lastErr) \in ErrorClass
    BY <1>1, RetryFSAssumption DEF BackendErr, ErrorClassifier, ErrorClass
  <2>4. Added(metrics.Total, metrics'.Total, 0, 0, 0, 1)
    BY <1>1, <1>6, <2>3, Records DEF Fail, t
  <2> HIDE DEF v
  <2> QED
    BY <1>3, <2>1, <2>2, <2>4, Rebalance DEF t
<1> QED
  BY <1>5, <1>6

\* The method returns; a cancellation is noted now.
LEMMA ReturnBooks ==
    ASSUME IInv, Books, NEW w \in Workers, Return(w)
    PROVE  Books'
<1> DEFINE t == thread[w]
           v == [t EXCEPT !.pc = "returned", !.ret = Answer(t, t.err)]
           first == IF t.attempt = 0 THEN 1 ELSE 0
<1>1. t \in Threads /\ t.err \in Error /\ t.attempt \in Nat /\ tally \in TallyType
  BY Before
<1>2. Answer(t, t.err) \in Error
  BY <1>1, ErrorsDiffer DEF Answer, Threads
<1>3. Goto(w, v) /\ t.pc = "reporting"
  BY DEF Return
<1>4. v \in Threads /\ v.pc = "returned"
  BY <1>1, <1>2 DEF Threads, Labels
<1>5. Added(metrics.Total, metrics'.Total, 0, 0, 0, 0)
  BY Before, NoEntry DEF Return
<1>6. Goto(w, v)
  BY <1>3
<1>7. first \in {0, 1} /\ (first = 1 <=> t.attempt = 0)
  OBVIOUS
<1> HIDE DEF t, v, first
<1>8. CASE t.err # CtxErr
  <2>1. Noted(tally, tally', 0, 0, 0, 0, 0, 0)
    BY <1>1, <1>8, NoEntry DEF Return, t
  <2>2. /\ moved(t, v, Inside) + moved(t, v, GivenUp) = 0 /\ moved(t, v, Trying) = 0
        /\ moved(t, v, Fresh) = 0
    BY <1>1, <1>3, <1>4, <1>8, Places DEF moved
  <2> QED
    BY <1>5, <1>6, <2>1, <2>2, Rebalance DEF t
<1>9. CASE t.err = CtxErr
  <2>1. tally' = [tally EXCEPT !.cancelled = @ + 1,
                               !.unattempted = IF first = 1 THEN @ + 1 ELSE @]
    BY <1>7, <1>9, Zenon DEF Return, t
  <2>2. Noted(tally, tally', 0, 0, 1, first, 0, 0)
    BY <1>1, <1>7, <2>1, CancelNote
  <2>3. /\ moved(t, v, Inside) + moved(t, v, GivenUp) = -1 /\ moved(t, v, Trying) = 0
        /\ moved(t, v, Fresh) = -first
    BY <1>1, <1>3, <1>4, <1>7, <1>9, Places DEF moved
  <2>4. first \in Int
    BY <1>7
  <2> QED
    BY <1>5, <1>6, <2>2, <2>3, <2>4, Rebalance DEF t
<1> QED
  BY <1>8, <1>9

\* No step upsets the books.
LEMMA NextBooks == IInv /\ Books /\ [Next]_vars => Books'
<1> SUFFICES ASSUME IInv, Books, [Next]_vars PROVE Books'
  OBVIOUS
<1>1. CASE UNCHANGED vars \/ Tick
  BY <1>1 DEF vars, Tick, Books, Count
<1>2. ASSUME NEW w \in Workers, NEW op \in Operations, Method(w, op) \/ ContextMethod(w, op)
      PROVE  Books'
  BY <1>2, EntersBooks, TargetType DEF Method, ContextMethod
<1>3. ASSUME NEW w \in Workers, Step(w) \/ Cancel(w) PROVE Books'
  BY <1>3, QuietBooks, AttemptBooks, CallBooks, EndBooks, ReturnBooks DEF Step
<1> QED
  BY <1>1, <1>2, <1>3 DEF Next

-----------------------------------------------------------------------------
(* The theorems                                                            *)

\* The books are balanced in every reachable state.
THEOREM AlwaysBalanced == Spec => [](IInv /\ Books)
<1>1. Init => IInv /\ Books
  BY InitIInv, InitBooks
<1>2. (IInv /\ Books) /\ [Next]_vars => (IInv /\ Books)'
  BY NextIInv, NextBooks
<1> QED
  BY <1>1, <1>2, PTL DEF Spec

\* The four counts are the ones the properties of RetryFS use.
LEMMA SameCounts ==
    ASSUME IInv
    PROVE  /\ Count(Inside) = Busy({"loop", "backoff", "calling", "succeeding", "failing"})
           /\ Count(GivenUp) = Cardinality({w \in Workers : thread[w].pc = "reporting"
                                                            /\ thread[w].err = CtxErr})
           /\ Count(Trying) = Busy({"backoff", "calling"})
           /\ Count(Fresh) = Cardinality({w \in Workers :
                  /\ thread[w].attempt = 0
                  /\ \/ thread[w].pc = "loop"
                     \/ thread[w].pc = "reporting" /\ thread[w].err = CtxErr})
           /\ \A S : Count(S) \in Nat
<1>1. \A w \in Workers : thread[w] \in Threads
  BY DEF IInv
<1>2. ASSUME NEW S PROVE Count(S) \in Nat
  <2>1. IsFiniteSet({w \in Workers : thread[w] \in S})
    BY RetryFSAssumption, FS_Subset
  <2> QED
    BY <2>1, FS_CardinalityType DEF Count
<1>3. {w \in Workers : thread[w] \in Inside} =
          {w \in Workers : thread[w].pc \in {"loop", "backoff", "calling", "succeeding", "failing"}}
  BY <1>1, Places
<1>4. {w \in Workers : thread[w] \in GivenUp} =
          {w \in Workers : thread[w].pc = "reporting" /\ thread[w].err = CtxErr}
  BY <1>1, Places
<1>5. {w \in Workers : thread[w] \in Trying} =
          {w \in Workers : thread[w].pc \in {"backoff", "calling"}}
  BY <1>1, Places
<1>6. {w \in Workers : thread[w] \in Fresh} =
          {w \in Workers :
              /\ thread[w].attempt = 0
              /\ \/ thread[w].pc = "loop"
                 \/ thread[w].pc = "reporting" /\ thread[w].err = CtxErr}
  BY <1>1, Places
<1> QED
  BY <1>2, <1>3, <1>4, <1>5, <1>6, Zenon DEF Count, Busy

\* What the books leave open, solved for the counters the properties name.
LEMMA Solved ==
    ASSUME IInv, tally \in TallyType, NEW n \in Int
    PROVE  /\ \A m \in Int : openOps(metrics.Total, tally) = n + m =>
                  tally.started = metrics.Total.Successes + metrics.Total.Failures
                                  + tally.rejected + tally.cancelled + n + m
           /\ openAttempts(metrics.Total, tally) = n =>
                  metrics.Total.Attempts = tally.calls + tally.wasted + n
           /\ openFirsts(metrics.Total, tally) = n =>
                  tally.started - tally.rejected - (metrics.Total.Attempts - metrics.Total.Retries)
                      = tally.unattempted + n
<1> DEFINE T == metrics.Total
           tn == T.Attempts       tm == T.Retries       ts == T.Successes
           tf == T.Failures       yd == tally.started   yr == tally.rejected
           yc == tally.cancelled  ya == tally.unattempted
           yx == tally.wasted     yk == tally.calls
<1>1. tn \in Int /\ tm \in Int /\ ts \in Int /\ tf \in Int
  BY DEF IInv, MetricsType, Counts
<1>2. yd \in Int /\ yr \in Int /\ yc \in Int /\ ya \in Int /\ yx \in Int /\ yk \in Int
  BY DEF TallyType
<1>3. /\ openOps(T, tally) = yd - ts - tf - yr - yc
      /\ openAttempts(T, tally) = tn - yk - yx
      /\ openFirsts(T, tally) = yd - yr - (tn - tm) - ya
  BY Zenon DEF openOps, openAttempts, openFirsts
<1> HIDE DEF tn, tm, ts, tf, yd, yr, yc, ya, yx, yk, T
<1>4. \A m \in Int : openOps(T, tally) = n + m => yd = ts + tf + yr + yc + n + m
  BY <1>1, <1>2, <1>3
<1>5. openAttempts(T, tally) = n => tn = yk + yx + n
  BY <1>1, <1>2, <1>3
<1>6. openFirsts(T, tally) = n => yd - yr - (tn - tm) = ya + n
  BY <1>1, <1>2, <1>3
<1> QED
  BY <1>4, <1>5, <1>6, Zenon DEF tn, tm, ts, tf, yd, yr, yc, ya, yx, yk, T

\* Every operation is counted once by RecordSuccess or RecordFailure, was
\* refused by a breaker, was given up for its context, or is under way.
THEOREM OperationsBalance == Spec => []OperationsAccounted
<1>1. IInv /\ Books => OperationsAccounted
  BY SameCounts, Solved DEF Books, OperationsAccounted
<1> QED
  BY <1>1, AlwaysBalanced, PTL

\* TotalAttempts is the number of calls of the backend, but for attempts under
\* way and attempts whose backoff a cancellation cut short.
THEOREM AttemptsBalance == Spec => []AttemptsAccounted
<1>1. IInv /\ Books => AttemptsAccounted
  BY SameCounts, Solved DEF Books, AttemptsAccounted
<1> QED
  BY <1>1, AlwaysBalanced, PTL

\* The attempts that are not retries are the first attempts of the operations
\* that got past the breaker, when every policy allows an attempt.
THEOREM FirstAttemptsBalance ==
    ASSUME \A op \in Operations : GetPolicy(op) > 0
    PROVE  Spec => []FirstAttemptsAccounted
<1>1. EveryPolicyAllows
  BY DEF EveryPolicyAllows
<1>2. IInv /\ Books => FirstAttemptsAccounted
  BY <1>1, SameCounts, Solved DEF Books, FirstAttemptsAccounted
<1> QED
  BY <1>2, AlwaysBalanced, PTL
=============================================================================
