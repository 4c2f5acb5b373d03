--------------------------- MODULE RetryLoopProofs ---------------------------
(***************************************************************************)
(* Proofs about RetryLoop, for any number of goroutines and every policy,  *)
(* and about the two functions it uses: calculateBackoff for every attempt *)
(* and defaultErrorClassifier for errors of any length.                    *)
(*                                                                         *)
(* Both are recursive.  Induction is by SetInduction, over the set of the  *)
(* numbers for which a statement holds.                                    *)
(***************************************************************************)
EXTENDS RetryLoop, SequenceTheorems, WellFoundedInduction, TLAPS

\* Induction over the set of the numbers for which a statement holds.
LEMMA SetInduction ==
    ASSUME NEW S, 0 \in S, \A n \in Nat : n \in S => n + 1 \in S
    PROVE  \A n \in Nat : n \in S
<1> SUFFICES ASSUME Nat \ S # {} PROVE FALSE
  OBVIOUS
<1> DEFINE less == {ss \in Nat \X Nat : ss[1] < ss[2]}
<1>1. IsWellFoundedOn(less, Nat)
  BY NatLessThanWellFounded, Zenon DEF OpToRel
<1> HIDE DEF less
<1>2. PICK n \in Nat \ S : \A m \in Nat \ S : ~(<<m, n>> \in less)
  BY <1>1, WFMin
<1>3. n # 0 /\ n - 1 \in Nat
  BY <1>2
<1>4. <<n - 1, n>> \in less
  BY <1>3 DEF less
<1> QED
  BY <1>2, <1>3, <1>4

\* The powers of m up to the n-th.
powers(m, n) == CHOOSE p : p = [i \in 0..n |-> IF i = 0 THEN 1 ELSE m * p[i - 1]]

\* The recursion that defines the powers of m has a solution.
LEMMA PowersExist ==
    ASSUME NEW m \in Int, NEW n \in Nat
    PROVE  /\ powers(m, n) = [i \in 0..n |-> IF i = 0 THEN 1 ELSE m * powers(m, n)[i - 1]]
           /\ Pow(m, n) = powers(m, n)[n]
<1> DEFINE Solves(p, k) == p = [i \in 0..k |-> IF i = 0 THEN 1 ELSE m * p[i - 1]]
           S == {k \in Nat : \E p \in [0..k -> Int] : Solves(p, k)}
<1>1. 0 \in S
  <2> DEFINE p == [i \in 0..0 |-> 1]
  <2>1. p \in [0..0 -> Int] /\ Solves(p, 0)
    OBVIOUS
  <2> QED
    BY <2>1
<1>2. ASSUME NEW k \in Nat, k \in S PROVE k + 1 \in S
  <2>1. PICK p \in [0..k -> Int] : Solves(p, k)
    BY <1>2
  <2> DEFINE q == [i \in 0..(k + 1) |-> IF i = k + 1 THEN m * p[k] ELSE p[i]]
  <2>2. q \in [0..(k + 1) -> Int]
    OBVIOUS
  <2>3. \A i \in 0..(k + 1) : q[i] = IF i = 0 THEN 1 ELSE m * q[i - 1]
    <3> SUFFICES ASSUME NEW i \in 0..(k + 1) PROVE q[i] = IF i = 0 THEN 1 ELSE m * q[i - 1]
      OBVIOUS
    <3>1. CASE i = k + 1
      <4>1. q[i] = m * p[k] /\ q[i - 1] = p[k] /\ i # 0
        BY <3>1
      <4> QED
        BY <4>1
    <3>2. CASE i \in 0..k
      <4>1. q[i] = p[i] /\ (i # 0 => q[i - 1] = p[i - 1])
        BY <3>2
      <4>2. p[i] = IF i = 0 THEN 1 ELSE m * p[i - 1]
        BY <2>1, <3>2
      <4> QED
        BY <4>1, <4>2
    <3> QED
      BY <3>1, <3>2
  <2>4. Solves(q, k + 1)
    <3> HIDE DEF q
    <3> QED
      BY <2>2, <2>3
  <2> HIDE DEF q
  <2>5. \E r \in [0..(k + 1) -> Int] : Solves(r, k + 1)
    BY <2>2, <2>4
  <2> QED
    BY <2>5
<1> HIDE DEF S
<1>3. n \in S
  BY <1>1, <1>2, SetInduction
<1>4. \E p : Solves(p, n)
  BY <1>3 DEF S
<1>5. Solves(powers(m, n), n)
  BY <1>4 DEF powers
<1> QED
  BY <1>5, Zenon DEF Pow, powers

\* The powers of a positive number are positive.
LEMMA PowersType ==
    ASSUME NEW m \in Nat \ {0}, NEW n \in Nat
    PROVE  \A i \in 0..n : powers(m, n)[i] \in Nat \ {0}
<1> DEFINE p == powers(m, n)
           S == {i \in Nat : i <= n => p[i] \in Nat \ {0}}
<1>1. \A i \in 0..n : p[i] = IF i = 0 THEN 1 ELSE m * p[i - 1]
  BY PowersExist
<1> HIDE DEF p
<1>2. 0 \in S
  BY <1>1
<1>3. ASSUME NEW i \in Nat, i \in S PROVE i + 1 \in S
  <2> SUFFICES ASSUME i + 1 <= n PROVE p[i + 1] \in Nat \ {0}
    OBVIOUS
  <2>1. p[i] \in Nat \ {0}
    BY <1>3
  <2>2. p[i + 1] = m * p[i]
    BY <1>1
  <2> QED
    BY <2>1, <2>2
<1> HIDE DEF S
<1>4. \A i \in Nat : i \in S
  BY <1>2, <1>3, SetInduction
<1> QED
  BY <1>4 DEF S, p

\* A larger base has larger powers.
LEMMA PowMonotone ==
    ASSUME NEW a \in Nat \ {0}, NEW b \in Nat \ {0}, NEW n \in Nat
    PROVE  /\ Pow(a, n) \in Nat \ {0}
           /\ b <= a => Pow(b, n) <= Pow(a, n)
<1> DEFINE p == powers(a, n)
           q == powers(b, n)
           S == {i \in Nat : i <= n => q[i] <= p[i]}
<1>1. /\ \A i \in 0..n : p[i] = (IF i = 0 THEN 1 ELSE a * p[i - 1]) /\ p[i] \in Nat \ {0}
      /\ \A i \in 0..n : q[i] = (IF i = 0 THEN 1 ELSE b * q[i - 1]) /\ q[i] \in Nat \ {0}
      /\ Pow(a, n) = p[n] /\ Pow(b, n) = q[n]
  <2>1. a \in Int /\ b \in Int
    OBVIOUS
  <2>2. /\ p = [i \in 0..n |-> IF i = 0 THEN 1 ELSE a * p[i - 1]]
        /\ q = [i \in 0..n |-> IF i = 0 THEN 1 ELSE b * q[i - 1]]
        /\ Pow(a, n) = p[n] /\ Pow(b, n) = q[n]
    BY <2>1, PowersExist
  <2>3. \A i \in 0..n : p[i] \in Nat \ {0} /\ q[i] \in Nat \ {0}
    BY PowersType
  <2> HIDE DEF p, q
  <2> QED
    BY <2>2, <2>3
<1> HIDE DEF p, q
<1>2. ASSUME b <= a PROVE q[n] <= p[n]
  <2>1. 0 \in S
    BY <1>1
  <2>2. ASSUME NEW i \in Nat, i \in S PROVE i + 1 \in S
    <3> SUFFICES ASSUME i + 1 <= n PROVE q[i + 1] <= p[i + 1]
      OBVIOUS
    <3>1. /\ p[i] \in Nat /\ q[i] \in Nat /\ q[i] <= p[i]
          /\ p[i + 1] = a * p[i] /\ q[i + 1] = b * q[i]
      BY <1>1, <2>2
    <3>2. ASSUME NEW x \in Nat, NEW y \in Nat, y <= x PROVE b * y <= a * x
      <4>1. b * y <= a * y
        BY <1>2
      <4>2. a * y <= a * x
        BY <3>2
      <4> QED
        BY <4>1, <4>2
    <3> QED
      BY <3>1, <3>2
  <2> HIDE DEF S
  <2>3. \A i \in Nat : i \in S
    BY <2>1, <2>2, SetInduction
  <2> QED
    BY <2>3 DEF S
<1> QED
  BY <1>1, <1>2

\* What a policy must be for its delays to be numbers.
IsPolicy(p) ==
    /\ p.BaseDelay \in Nat /\ p.MaxDelay \in Nat /\ p.Jitter \in Nat
    /\ p.Multiplier \in Int \X (Nat \ {0})

\* A fraction that is at least one does not make a delay shorter.
LEMMA Fraction ==
    ASSUME NEW x \in Nat, NEW a \in Nat \ {0}, NEW b \in Nat \ {0}
    PROVE  /\ (x * a) \div b \in Nat
           /\ b <= a => x <= (x * a) \div b
<1>1. x * a \in Nat
  OBVIOUS
<1>2. ASSUME NEW y \in Nat PROVE y \div b \in Nat
  OBVIOUS
<1>3. ASSUME NEW y \in Nat, x * b <= y PROVE x <= y \div b
  BY <1>3
<1>4. ASSUME b <= a PROVE x * b <= x * a
  BY <1>4
<1> QED
  BY <1>1, <1>2, <1>3, <1>4

\* The delay without jitter: between the first one and MaxDelay.
LEMMA ExponentialBounds ==
    ASSUME NEW p, IsPolicy(p), NEW n \in Nat \ {0}
    PROVE  /\ Exponential(p, n) \in Nat
           /\ Exponential(p, n) <= p.MaxDelay
           /\ Capped(p, p.BaseDelay) \in Nat
           /\ multiplier(p)[1] >= multiplier(p)[2] =>
                  Capped(p, p.BaseDelay) <= Exponential(p, n)
<1> DEFINE a == multiplier(p)[1]
           b == multiplier(p)[2]
           base == p.BaseDelay
           max == p.MaxDelay
           num == Pow(a, n - 1)
           den == Pow(b, n - 1)
           x == (base * num) \div den
<1>1. a \in Nat \ {0} /\ b \in Nat \ {0} /\ base \in Nat /\ max \in Nat
  BY DEF IsPolicy, multiplier
<1>2. Exponential(p, n) = (IF x > max THEN max ELSE x)
  BY Zenon DEF Exponential, Capped
<1>3. Capped(p, p.BaseDelay) = (IF base > max THEN max ELSE base)
  BY Zenon DEF Capped
<1> HIDE DEF a, b
<1>4. num \in Nat \ {0} /\ den \in Nat \ {0} /\ (b <= a => den <= num)
  BY <1>1, PowMonotone
<1> HIDE DEF base, max, num, den
<1>5. x \in Nat /\ (b <= a => base <= x)
  BY <1>1, <1>4, Fraction
<1> HIDE DEF x
<1>6. /\ Exponential(p, n) \in Nat /\ Exponential(p, n) <= max
      /\ Capped(p, p.BaseDelay) \in Nat
      /\ a >= b => Capped(p, p.BaseDelay) <= Exponential(p, n)
  BY <1>1, <1>2, <1>3, <1>5
<1> QED
  BY <1>6 DEF a, b, max

\* Longer delays have longer bounds, and a delay is within its own.
LEMMA JitterBounds ==
    ASSUME NEW x \in Nat, NEW y \in Nat, x <= y, NEW j \in Nat
    PROVE  /\ Shortest(x, j) \in Nat /\ Longest(x, j) \in Nat
           /\ Shortest(x, j) <= Shortest(y, j)
           /\ Longest(x, j) <= Longest(y, j)
           /\ \A d \in Jittered(x, j) : d \in Nat /\ Shortest(x, j) <= d /\ d <= Longest(x, j)
<1>1. Longest(x, j) \in Nat /\ Longest(x, j) <= Longest(y, j)
  <2>1. /\ x * (100 + j) \in Nat /\ y * (100 + j) \in Nat
        /\ x * (100 + j) <= y * (100 + j)
    OBVIOUS
  <2> QED
    BY <2>1 DEF Longest
<1>2. Shortest(x, j) \in Nat /\ Shortest(x, j) <= Shortest(y, j)
  <2>1. CASE j > 100
    BY <2>1 DEF Shortest
  <2>2. CASE j <= 100
    <3> DEFINE k == 100 - j
    <3>1. k \in Nat
      BY <2>2
    <3>2. Shortest(x, j) = (x * k) \div 100 /\ Shortest(y, j) = (y * k) \div 100
      BY <2>2 DEF Shortest
    <3> HIDE DEF k
    <3>3. x * k \in Nat /\ y * k \in Nat /\ x * k <= y * k
      BY <3>1
    <3> QED
      BY <3>2, <3>3
  <2> QED
    BY <2>1, <2>2
<1>3. ASSUME NEW d \in Jittered(x, j)
      PROVE  d \in Nat /\ Shortest(x, j) <= d /\ d <= Longest(x, j)
  <2>1. CASE j = 0
    BY <2>1 DEF Jittered, Shortest, Longest
  <2>2. CASE j > 0
    BY <1>1, <1>2, <2>2 DEF Jittered
  <2> QED
    BY <2>1, <2>2
<1> QED
  BY <1>1, <1>2, <1>3

\* The bounds are numbers.
LEMMA PolicyBounds ==
    ASSUME NEW p, IsPolicy(p)
    PROVE  /\ Longest(p.MaxDelay, p.Jitter) \in Nat
           /\ Shortest(Capped(p, p.BaseDelay), p.Jitter) \in Nat
<1>1. p.MaxDelay \in Nat /\ p.Jitter \in Nat /\ Capped(p, p.BaseDelay) \in Nat
  BY DEF IsPolicy, Capped
<1>2. ASSUME NEW x \in Nat, NEW j \in Nat PROVE Shortest(x, j) \in Nat /\ Longest(x, j) \in Nat
  <2>1. x <= x
    OBVIOUS
  <2> QED
    BY <2>1, JitterBounds
<1> QED
  BY <1>1, <1>2

\* What calculateBackoff returns for a retry.
LEMMA BackoffBounds ==
    ASSUME NEW p, IsPolicy(p), NEW n \in Nat \ {0}, NEW d \in calculateBackoff(p, n)
    PROVE  /\ d \in Nat
           /\ d <= Longest(p.MaxDelay, p.Jitter)
           /\ multiplier(p)[1] >= multiplier(p)[2] =>
                  Shortest(Capped(p, p.BaseDelay), p.Jitter) <= d
<1> DEFINE x == Exponential(p, n)
           c == Capped(p, p.BaseDelay)
           max == p.MaxDelay
           j == p.Jitter
<1>1. /\ x \in Nat /\ c \in Nat /\ x <= max
      /\ multiplier(p)[1] >= multiplier(p)[2] => c <= x
  BY ExponentialBounds
<1>2. max \in Nat /\ j \in Nat
  BY DEF IsPolicy
<1>3. d \in Jittered(x, j)
  BY DEF calculateBackoff
<1> HIDE DEF x, c, max, j
<1>4. /\ Longest(x, j) \in Nat /\ Longest(x, j) <= Longest(max, j) 
      /\ Shortest(x, j) \in Nat
      /\ d \in Nat /\ Shortest(x, j) <= d /\ d <= Longest(x, j)
  BY <1>1, <1>2, <1>3, JitterBounds
<1>5. Longest(max, j) \in Nat /\ Shortest(c, j) \in Nat
  BY PolicyBounds DEF max, c, j
<1>6. c <= x => Shortest(c, j) <= Shortest(x, j)
  BY <1>1, <1>2, JitterBounds
<1>7. d <= Longest(max, j) /\ (c <= x => Shortest(c, j) <= d)
  BY <1>4, <1>5, <1>6
<1> QED
  BY <1>1, <1>4, <1>5, <1>7 DEF x, c, max, j

-----------------------------------------------------------------------------
(* defaultErrorClassifier                                                  *)

\* As finds the first layer of the type.
LEMMA AsFinds ==
    ASSUME NEW err \in Seq(Layers), NEW type
    PROVE  IF \E i \in DOMAIN err : err[i].type = type
           THEN /\ As(err, type) \in 1..Len(err)
                /\ err[As(err, type)].type = type
                /\ \A j \in 1..(As(err, type) - 1) : err[j].type # type
           ELSE As(err, type) = 0
<1> DEFINE first(i) == err[i].type = type /\ \A j \in 1..(i - 1) : err[j].type # type
<1>1. CASE \E i \in DOMAIN err : err[i].type = type
  <2> DEFINE T == {i \in 1..Len(err) : err[i].type = type}
             S == {n \in Nat : \A i \in T : i > n}
  <2>1. DOMAIN err = 1..Len(err) /\ Len(err) \in Nat
    OBVIOUS
  <2>2. \E i \in DOMAIN err : first(i)
    <3> SUFFICES ASSUME \A i \in DOMAIN err : ~first(i) PROVE FALSE
      OBVIOUS
    <3>1. 0 \in S
      BY <2>1
    <3>2. ASSUME NEW n \in Nat, n \in S PROVE n + 1 \in S
      <4> SUFFICES ASSUME n + 1 \in T PROVE FALSE
        BY <2>1, <3>2
      <4>1. \A j \in 1..n : err[j].type # type
        BY <2>1, <3>2
      <4>2. first(n + 1)
        BY <4>1
      <4> QED
        BY <2>1, <4>2
    <3> HIDE DEF S
    <3>3. Len(err) \in S
      BY <2>1, <3>1, <3>2, SetInduction
    <3>4. PICK i \in T : TRUE
      BY <1>1, <2>1
    <3> QED
      BY <2>1, <3>3, <3>4 DEF S
  <2>3. As(err, type) \in DOMAIN err /\ first(As(err, type))
    <3>1. As(err, type) = CHOOSE i \in DOMAIN err : first(i)
      BY <1>1, Zenon DEF As
    <3> QED
      BY <2>2, <3>1
  <2> QED
    BY <1>1, <2>1, <2>3
<1>2. CASE ~\E i \in DOMAIN err : err[i].type = type
  BY <1>2 DEF As
<1> QED
  BY <1>1, <1>2

\* What the classifier looks into is a shorter error.
LEMMA BelowShorter ==
    ASSUME NEW err \in Seq(Layers), Wrapper(err) # 0
    PROVE  /\ Wrapper(err) \in 1..Len(err)
           /\ Below(err, Wrapper(err)) \in Seq(Layers)
           /\ Len(Below(err, Wrapper(err))) < Len(err)
<1>1. Wrapper(err) \in 1..Len(err)
  BY AsFinds DEF Wrapper
<1>2. ASSUME NEW i \in 1..Len(err)
      PROVE  Below(err, i) \in Seq(Layers) /\ Len(Below(err, i)) = Len(err) - i
  BY DEF Below
<1> QED
  BY <1>1, <1>2

\* The class of err, if that of what its wrapper holds is below.
Verdict(err, below) ==
    IF err = <<>> THEN ErrorUnknown
    ELSE IF Is(err, permanentErrors) THEN ErrorPermanent
    ELSE IF Is(err, retryableErrors) THEN ErrorRetryable
    ELSE IF As(err, "Errno") # 0 THEN classifySyscallError(err[As(err, "Errno")].value)
    ELSE IF timesOut(err) THEN ErrorRetryable
    ELSE IF Wrapper(err) # 0 THEN below
    ELSE classifyByMessage(Message(err))

\* What the outermost wrapper holds; the errors of at most n layers.
Inner(err) == Below(err, Wrapper(err))
UpTo(n) == {err \in Seq(Layers) : Len(err) <= n}

\* g classifies the errors of at most n layers.
Classifies(g, n) == g = [err \in UpTo(n) |-> Verdict(err, g[Inner(err)])]

\* The verdict depends on what is below only if there is a wrapper, and then
\* on a shorter error.
LEMMA VerdictDepends ==
    ASSUME NEW err \in Seq(Layers), NEW x, NEW y,
           Inner(err) \in Seq(Layers) /\ Len(Inner(err)) < Len(err) => x = y
    PROVE  Verdict(err, x) = Verdict(err, y)
<1>1. Wrapper(err) # 0 => x = y
  BY BelowShorter DEF Inner
<1> QED
  BY <1>1, Zenon DEF Verdict

\* Two such functions agree where both are defined.
LEMMA ClassifiersAgree ==
    ASSUME NEW n \in Nat, NEW m \in Nat, n <= m, NEW g, NEW h,
           Classifies(g, n), Classifies(h, m)
    PROVE  \A err \in UpTo(n) : g[err] = h[err]
<1> DEFINE S == {k \in Nat : \A err \in UpTo(n) : Len(err) < k => g[err] = h[err]}
<1>1. 0 \in S
  BY DEF UpTo
<1>2. ASSUME NEW k \in Nat, k \in S PROVE k + 1 \in S
  <2> SUFFICES ASSUME NEW err \in UpTo(n), Len(err) < k + 1 PROVE g[err] = h[err]
    OBVIOUS
  <2>1. err \in Seq(Layers) /\ err \in UpTo(m) /\ Len(err) \in Nat /\ Len(err) <= n
    BY DEF UpTo
  <2>2. /\ g[err] = Verdict(err, g[Inner(err)])
        /\ h[err] = Verdict(err, h[Inner(err)])
    BY <2>1 DEF Classifies
  <2>3. ASSUME Inner(err) \in Seq(Layers), Len(Inner(err)) < Len(err)
        PROVE  g[Inner(err)] = h[Inner(err)]
    <3>1. Inner(err) \in UpTo(n) /\ Len(Inner(err)) < k
      BY <2>1, <2>3 DEF UpTo
    <3> QED
      BY <1>2, <3>1
  <2>4. Verdict(err, g[Inner(err)]) = Verdict(err, h[Inner(err)])
    BY <2>1, <2>3, VerdictDepends
  <2> QED
    BY <2>2, <2>4
<1> HIDE DEF S
<1>3. n + 1 \in S
  BY <1>1, <1>2, SetInduction
<1>4. \A err \in UpTo(n) : Len(err) < n + 1
  BY DEF UpTo
<1> QED
  BY <1>3, <1>4, Zenon DEF S

\* There is one for every n.
LEMMA ClassifiersExist ==
    ASSUME NEW n \in Nat
    PROVE  \E g : Classifies(g, n)
<1> DEFINE S == {k \in Nat : \E g : Classifies(g, k)}
<1>1. 0 \in S
  <2> DEFINE g == [err \in UpTo(0) |-> Verdict(err, ErrorUnknown)]
  <2>1. ASSUME NEW err \in UpTo(0) PROVE g[err] = Verdict(err, g[Inner(err)])
    <3>1. err \in Seq(Layers) /\ ~(Inner(err) \in Seq(Layers) /\ Len(Inner(err)) < Len(err))
      BY DEF UpTo
    <3>2. Verdict(err, ErrorUnknown) = Verdict(err, g[Inner(err)])
      BY <3>1, VerdictDepends
    <3> QED
      BY <3>2
  <2>2. g = [err \in UpTo(0) |-> Verdict(err, g[Inner(err)])]
    BY <2>1
  <2> HIDE DEF g
  <2>3. \E f : Classifies(f, 0)
    BY <2>2 DEF Classifies
  <2> QED
    BY <2>3
<1>2. ASSUME NEW k \in Nat, k \in S PROVE k + 1 \in S
  <2>1. PICK g : Classifies(g, k)
    BY <1>2
  <2> DEFINE h == [err \in UpTo(k + 1) |-> Verdict(err, g[Inner(err)])]
  <2>2. ASSUME NEW err \in UpTo(k + 1) PROVE h[err] = Verdict(err, h[Inner(err)])
    <3>1. err \in Seq(Layers) /\ Len(err) \in Nat /\ Len(err) <= k + 1
      BY DEF UpTo
    <3>2. ASSUME Inner(err) \in Seq(Layers), Len(Inner(err)) < Len(err)
          PROVE  g[Inner(err)] = h[Inner(err)]
      <4>1. Inner(err) \in UpTo(k) /\ Inner(err) \in UpTo(k + 1)
        BY <3>1, <3>2 DEF UpTo
      <4>2. g[Inner(err)] = Verdict(Inner(err), g[Inner(Inner(err))])
        BY <2>1, <4>1 DEF Classifies
      <4> QED
        BY <4>1, <4>2
    <3>3. Verdict(err, g[Inner(err)]) = Verdict(err, h[Inner(err)])
      BY <3>1, <3>2, VerdictDepends
    <3> QED
      BY <3>3
  <2>3. h = [err \in UpTo(k + 1) |-> Verdict(err, h[Inner(err)])]
    BY <2>2
  <2> HIDE DEF h
  <2>4. \E f : Classifies(f, k + 1)
    BY <2>3 DEF Classifies
  <2> QED
    BY <2>4
<1> HIDE DEF S
<1>3. n \in S
  BY <1>1, <1>2, SetInduction
<1> QED
  BY <1>3 DEF S

\* defaultErrorClassifier is what its definition says, for errors of any length.
LEMMA ClassifierUnfolds ==
    \A err \in Seq(Layers) :
        defaultErrorClassifier[err] = Verdict(err, defaultErrorClassifier[Inner(err)])
<1> DEFINE G(n) == CHOOSE g : Classifies(g, n)
           F == [err \in Seq(Layers) |-> G(Len(err))[err]]
           Total(f) == f = [err \in Seq(Layers) |-> Verdict(err, f[Inner(err)])]
<1>1. \A n \in Nat : Classifies(G(n), n)
  BY ClassifiersExist
<1> HIDE DEF G
<1>2. ASSUME NEW err \in Seq(Layers) PROVE F[err] = Verdict(err, F[Inner(err)])
  <2> DEFINE n == Len(err)
             b == Inner(err)
  <2>1. n \in Nat /\ err \in UpTo(n)
    BY DEF UpTo
  <2>2. G(n)[err] = Verdict(err, G(n)[b])
    BY <1>1, <2>1 DEF Classifies
  <2>3. ASSUME b \in Seq(Layers), Len(b) < n PROVE G(n)[b] = F[b]
    <3>1. Len(b) \in Nat /\ b \in UpTo(Len(b)) /\ Len(b) <= n
      BY <2>1, <2>3 DEF UpTo
    <3>2. G(Len(b))[b] = G(n)[b]
      BY <1>1, <2>1, <3>1, ClassifiersAgree
    <3> QED
      BY <2>3, <3>2
  <2>4. Verdict(err, G(n)[b]) = Verdict(err, F[b])
    BY <2>3, VerdictDepends
  <2> QED
    BY <2>2, <2>4
<1>3. Total(F)
  BY <1>2
<1> HIDE DEF F
<1>4. defaultErrorClassifier = CHOOSE f : Total(f)
  BY Zenon DEF defaultErrorClassifier, Verdict, Inner
<1>5. Total(defaultErrorClassifier)
  BY <1>3, <1>4
<1> QED
  BY <1>5

-----------------------------------------------------------------------------
\* The types whose text is the name of a file.
wrapperTypes == {"PathError", "LinkError"}

\* Renaming keeps the types and values, and all texts but those of wrappers.
LEMMA Renamed ==
    ASSUME NEW err \in Seq(Layers)
    PROVE  /\ Anonymous(err) \in Seq(Layers)
           /\ Len(Anonymous(err)) = Len(err)
           /\ \A i \in 1..Len(err) :
                  /\ Anonymous(err)[i].type = err[i].type
                  /\ Anonymous(err)[i].value = err[i].value
                  /\ err[i].type \notin wrapperTypes => Anonymous(err)[i] = err[i]
<1> DEFINE a == Anonymous(err)
           n == Len(err)
<1>1. n \in Nat /\ DOMAIN err = 1..n /\ \A i \in 1..n : err[i] \in Layers
  BY LenProperties, ElementOfSeq
<1>2. /\ a = [i \in 1..n |-> a[i]]
      /\ \A i \in 1..n : a[i] = IF err[i].type \in wrapperTypes
                                THEN [err[i] EXCEPT !.text = {}] ELSE err[i]
  BY <1>1 DEF Anonymous, wrapperTypes
<1> HIDE DEF a, n
<1>3. ASSUME NEW i \in 1..n
      PROVE  /\ a[i] \in Layers
             /\ a[i].type = err[i].type /\ a[i].value = err[i].value
             /\ err[i].type \notin wrapperTypes => a[i] = err[i]
  <2>1. CASE err[i].type \in wrapperTypes
    <3> DEFINE l == err[i]
    <3>1. l \in Layers /\ l \in [type : STRING, value : STRING, text : SUBSET STRING]
      BY <1>1, LayersAssumption
    <3>2. a[i] = [l EXCEPT !.text = {}]
      BY <1>2, <2>1
    <3>3. a[i] \in Layers
      BY <2>1, <3>1, <3>2, LayersAssumption DEF wrapperTypes
    <3> HIDE DEF l
    <3>4. a[i].type = l.type /\ a[i].value = l.value
      BY <3>1, <3>2
    <3> QED
      BY <2>1, <3>3, <3>4 DEF l
  <2>2. CASE err[i].type \notin wrapperTypes
    BY <1>1, <1>2, <2>2
  <2> QED
    BY <2>1, <2>2
<1>4. a \in [1..n -> Layers]
  BY <1>2, <1>3
<1>5. a \in Seq(Layers) /\ Len(a) = n
  <2>1. a \in Seq(Layers)
    BY <1>1, <1>4, IsASeq
  <2> QED
    BY <1>1, <1>4, <2>1, LenProperties
<1> QED
  BY <1>3, <1>5 DEF a, n

\* The questions the classifier asks before it looks at messages.
LEMMA RenamedLooksSame ==
    ASSUME NEW err \in Seq(Layers), NEW a \in Seq(Layers), Len(a) = Len(err),
           \A i \in 1..Len(err) : a[i].type = err[i].type /\ a[i].value = err[i].value
    PROVE  /\ \A S : Is(a, S) <=> Is(err, S)
           /\ \A type : As(a, type) = As(err, type)
           /\ \A type : As(err, type) # 0 => a[As(a, type)].value = err[As(err, type)].value
           /\ timesOut(a) <=> timesOut(err)
           /\ Wrapper(a) = Wrapper(err)
<1>1. DOMAIN a = 1..Len(err) /\ DOMAIN err = 1..Len(err) /\ Len(err) \in Nat
  BY LenProperties
<1>2. ASSUME NEW S PROVE Is(a, S) <=> Is(err, S)
  BY <1>1 DEF Is
<1>3. ASSUME NEW type
      PROVE  /\ As(a, type) = As(err, type)
             /\ As(err, type) # 0 => a[As(a, type)].value = err[As(err, type)].value
  <2>1. CASE \E i \in DOMAIN err : err[i].type = type
    <3> DEFINE x == As(err, type)
               y == As(a, type)
    <3>1. /\ x \in 1..Len(err) /\ err[x].type = type
          /\ \A j \in 1..(x - 1) : err[j].type # type
      BY <2>1, AsFinds
    <3>2. \E i \in DOMAIN a : a[i].type = type
      BY <1>1, <2>1
    <3>3. /\ y \in 1..Len(err) /\ a[y].type = type
          /\ \A j \in 1..(y - 1) : a[j].type # type
      BY <3>2, AsFinds
    <3> HIDE DEF x, y
    <3>4. x = y
      <4>1. ~(x < y)
        BY <1>1, <3>1, <3>3
      <4>2. ~(y < x)
        BY <1>1, <3>1, <3>3
      <4> QED
        BY <1>1, <3>1, <3>3, <4>1, <4>2
    <3> QED
      BY <3>1, <3>4 DEF x, y
  <2>2. CASE ~\E i \in DOMAIN err : err[i].type = type
    <3>1. ~\E i \in DOMAIN a : a[i].type = type
      BY <1>1, <2>2
    <3> QED
      BY <2>2, <3>1 DEF As
  <2> QED
    BY <2>1, <2>2
<1>4. timesOut(a) <=> timesOut(err)
  BY <1>3 DEF timesOut
<1>5. Wrapper(a) = Wrapper(err)
  BY <1>3 DEF Wrapper
<1> QED
  BY <1>2, <1>3, <1>4, <1>5

\* What is below a layer of the renamed error is what was below it, renamed.
LEMMA RenamedBelow ==
    ASSUME NEW err \in Seq(Layers), NEW i \in 1..Len(err)
    PROVE  Below(Anonymous(err), i) = Anonymous(Below(err, i))
<1> DEFINE a == Anonymous(err)
           n == Len(err)
           b == Below(err, i)
<1>1. n \in Nat /\ a \in Seq(Layers) /\ Len(a) = n
  BY Renamed, LenProperties
<1>2. /\ b \in Seq(Layers) /\ Len(b) = n - i
      /\ \A j \in 1..(n - i) : b[j] = err[i + j]
  BY <1>1, SubSeqProperties DEF Below
<1>3. /\ Below(a, i) \in Seq(Layers) /\ Len(Below(a, i)) = n - i
      /\ \A j \in 1..(n - i) : Below(a, i)[j] = a[i + j]
  <2> HIDE DEF a
  <2> QED
    BY <1>1, SubSeqProperties DEF Below
<1>4. /\ Anonymous(b) \in Seq(Layers) /\ Len(Anonymous(b)) = n - i
  BY <1>2, Renamed
<1>5. ASSUME NEW j \in 1..(n - i) PROVE Below(a, i)[j] = Anonymous(b)[j]
  <2>1. i + j \in DOMAIN err /\ j \in DOMAIN b
    BY <1>1, <1>2, LenProperties
  <2>2. a[i + j] = IF err[i + j].type \in wrapperTypes
                   THEN [err[i + j] EXCEPT !.text = {}] ELSE err[i + j]
    BY <2>1 DEF Anonymous, wrapperTypes
  <2>3. Anonymous(b)[j] = IF b[j].type \in wrapperTypes
                          THEN [b[j] EXCEPT !.text = {}] ELSE b[j]
    BY <2>1 DEF Anonymous, wrapperTypes
  <2> HIDE DEF a, b
  <2> QED
    BY <1>2, <1>3, <2>2, <2>3
<1> HIDE DEF a, b
<1>6. Below(a, i) = Anonymous(b)
  BY <1>3, <1>4, <1>5, SeqEqual
<1> QED
  BY <1>6 DEF a, b

\* The name of a file never decides, in an error of any length.
THEOREM NamesNeverDecide ==
    \A err \in Seq(Layers) :
        defaultErrorClassifier[err] = defaultErrorClassifier[Anonymous(err)]
<1> DEFINE class(err) == defaultErrorClassifier[err]
           S == {n \in Nat : \A err \in Seq(Layers) :
                                 Len(err) < n => class(err) = class(Anonymous(err))}
<1>1. 0 \in S
  BY LenProperties
<1>2. ASSUME NEW n \in Nat, n \in S PROVE n + 1 \in S
  <2> SUFFICES ASSUME NEW err \in Seq(Layers), Len(err) < n + 1
               PROVE  class(err) = class(Anonymous(err))
    OBVIOUS
  <2> DEFINE a == Anonymous(err)
  <2>1. /\ a \in Seq(Layers) /\ Len(a) = Len(err) /\ Len(err) \in Nat
        /\ \A i \in 1..Len(err) : a[i].type = err[i].type /\ a[i].value = err[i].value
    BY Renamed, LenProperties
  <2>2. class(err) = Verdict(err, class(Inner(err))) /\ class(a) = Verdict(a, class(Inner(a)))
    BY <2>1, ClassifierUnfolds
  <2>3. /\ \A types : Is(a, types) <=> Is(err, types)
        /\ \A type : As(a, type) = As(err, type)
        /\ As(err, "Errno") # 0 => a[As(a, "Errno")].value = err[As(err, "Errno")].value
        /\ timesOut(a) <=> timesOut(err)
        /\ Wrapper(a) = Wrapper(err)
    <3> HIDE DEF a
    <3> QED
      BY <2>1, RenamedLooksSame
  <2>4. a = <<>> <=> err = <<>>
    <3> HIDE DEF a
    <3> QED
      BY <2>1, EmptySeq, LenProperties
  <2>5. Wrapper(err) # 0 => class(Inner(a)) = class(Inner(err))
    <3> SUFFICES ASSUME Wrapper(err) # 0 PROVE class(Inner(a)) = class(Inner(err))
      OBVIOUS
    <3>1. /\ Wrapper(err) \in 1..Len(err) /\ Inner(err) \in Seq(Layers)
          /\ Len(Inner(err)) < Len(err)
      BY BelowShorter DEF Inner
    <3>2. Inner(a) = Anonymous(Inner(err))
      BY <2>3, <3>1, RenamedBelow DEF Inner
    <3>3. Len(Inner(err)) < n
      BY <2>1, <3>1, LenProperties
    <3> QED
      BY <1>2, <3>1, <3>2, <3>3
  <2>6. Wrapper(err) = 0 => Message(a) = Message(err)
    <3> SUFFICES ASSUME Wrapper(err) = 0 PROVE Message(a) = Message(err)
      OBVIOUS
    <3>1. \A i \in DOMAIN err : err[i].type \notin wrapperTypes
      BY AsFinds, LenProperties DEF Wrapper, wrapperTypes
    <3>2. a = err
      BY <2>1, <3>1, Renamed, SeqEqual, LenProperties
    <3> QED
      BY <3>2
  <2> HIDE DEF a
  <2>7. Verdict(err, class(Inner(err))) = Verdict(a, class(Inner(a)))
    BY <2>3, <2>4, <2>5, <2>6, Zenon DEF Verdict
  <2> QED
    BY <2>2, <2>7 DEF a
<1> HIDE DEF S
<1>3. \A n \in Nat : n \in S
  BY <1>1, <1>2, SetInduction
<1> QED
  <2> SUFFICES ASSUME NEW err \in Seq(Layers)
               PROVE  class(err) = class(Anonymous(err))
    OBVIOUS
  <2>1. Len(err) \in Nat /\ Len(err) + 1 \in S
    BY <1>3, LenProperties
  <2> QED
    BY <2>1 DEF S

\* A cause that the classifier knows by its type or its identity.
typed(cause) == cause.type = "Errno" \/ Is(<<cause>>, permanentErrors \cup retryableErrors)

\* A typed cause decides, however many layers of text are around it.
THEOREM TypedCauseDecides ==
    ASSUME NEW err \in Seq(Layers), err # <<>>,
           \A i \in 1..(Len(err) - 1) : err[i] \in Wrapping,
           typed(err[Len(err)])
    PROVE  defaultErrorClassifier[err] = defaultErrorClassifier[<<err[Len(err)]>>]
<1> DEFINE n == Len(err)
           c == err[n]
           one == <<c>>
<1>1. n \in Nat \ {0} /\ DOMAIN err = 1..n /\ c \in Layers
  BY EmptySeq, LenProperties, ElementOfSeq
<1>2. one \in Seq(Layers) /\ Len(one) = 1 /\ DOMAIN one = 1..1 /\ one[1] = c /\ one # <<>>
  BY <1>1
<1>3. \A i \in 1..(n - 1) : err[i].type \notin {"sentinel", "Errno", "net.Error", "errorString"}
  BY DEF Wrapping, Terminal
<1> HIDE DEF one, c, n
<1>4. ASSUME NEW S PROVE Is(err, S) <=> Is(one, S)
  <2>1. \A i \in DOMAIN err : err[i].type \in {"sentinel", "Errno"} => i = n
    BY <1>1, <1>3
  <2> QED
    BY <1>1, <1>2, <2>1 DEF Is, c
<1>5. c.type = "Errno" =>
          /\ As(err, "Errno") # 0 /\ err[As(err, "Errno")].value = c.value
          /\ As(one, "Errno") # 0 /\ one[As(one, "Errno")].value = c.value
  <2> SUFFICES ASSUME c.type = "Errno"
               PROVE  /\ As(err, "Errno") # 0 /\ err[As(err, "Errno")].value = c.value
                      /\ As(one, "Errno") # 0 /\ one[As(one, "Errno")].value = c.value
    OBVIOUS
  <2>1. As(err, "Errno") = n
    <3>1. \E i \in DOMAIN err : err[i].type = "Errno"
      BY <1>1 DEF c
    <3>2. As(err, "Errno") \in 1..n /\ err[As(err, "Errno")].type = "Errno"
      BY <3>1, AsFinds DEF n
    <3> QED
      BY <1>1, <1>3, <3>2
  <2>2. As(one, "Errno") = 1
    <3>1. \E i \in DOMAIN one : one[i].type = "Errno"
      BY <1>2
    <3> QED
      BY <1>2, <3>1, AsFinds
  <2> QED
    BY <1>1, <1>2, <2>1, <2>2 DEF c
<1>6. c.type = "Errno" \/ Is(one, permanentErrors) \/ Is(one, retryableErrors)
  BY DEF typed, Is, c, one, n
<1>7. Verdict(err, defaultErrorClassifier[Inner(err)]) = Verdict(one, defaultErrorClassifier[Inner(one)])
  BY <1>2, <1>4, <1>5, <1>6, Zenon DEF Verdict
<1>8. defaultErrorClassifier[err] = defaultErrorClassifier[one]
  BY <1>2, <1>7, ClassifierUnfolds
<1> QED
  BY <1>8 DEF one, c, n

\* The errors TLC enumerates are among those the two theorems are about.
LEMMA ChainsAreErrors ==
    ASSUME NEW err \in Chains
    PROVE  /\ err \in Seq(Layers) /\ err # <<>>
           /\ \A i \in 1..(Len(err) - 1) : err[i] \in Wrapping
<1>1. Terminal \subseteq Layers /\ Wrapping \subseteq Layers
  BY DEF Terminal, Wrapping
<1>2. CASE err \in {<<l>> : l \in Terminal}
  <2>1. PICK l \in Terminal : err = <<l>>
    BY <1>2
  <2>2. Len(err) = 1
    BY <2>1
  <2> QED
    BY <1>1, <2>1, <2>2
<1>3. CASE err \in {<<a, l>> : a \in Wrapping, l \in Terminal}
  <2>1. PICK a \in Wrapping, l \in Terminal : err = <<a, l>>
    BY <1>3
  <2>2. Len(err) = 2 /\ err[1] = a
    BY <2>1
  <2> QED
    BY <1>1, <2>1, <2>2
<1>4. CASE err \in {<<a, b, l>> : a \in Wrapping, b \in Wrapping, l \in Terminal}
  <2>1. PICK a \in Wrapping, b \in Wrapping, l \in Terminal : err = <<a, b, l>>
    BY <1>4
  <2>2. Len(err) = 3 /\ err[1] = a /\ err[2] = b
    BY <2>1
  <2> QED
    BY <1>1, <2>1, <2>2
<1> QED
  BY <1>2, <1>3, <1>4 DEF Chains

\* The two facts about the classifier that RetryLoop states of its chains.
LEMMA ClassifierFacts == NamesAreIrrelevant /\ CausesDecide
<1>1. NamesAreIrrelevant
  <2>1. \A err \in Chains : err \in Seq(Layers)
    BY ChainsAreErrors
  <2> QED
    BY <2>1, NamesNeverDecide, Zenon DEF NamesAreIrrelevant
<1>2. CausesDecide
  <2> SUFFICES ASSUME NEW err \in Chains, typed(err[Len(err)])
               PROVE  defaultErrorClassifier[err] = defaultErrorClassifier[<<err[Len(err)]>>]
    BY Zenon DEF CausesDecide, typed
  <2>1. /\ err \in Seq(Layers) /\ err # <<>>
        /\ \A i \in 1..(Len(err) - 1) : err[i] \in Wrapping
    BY ChainsAreErrors
  <2> QED
    BY <2>1, TypedCauseDecides, Zenon
<1> QED
  BY <1>1, <1>2

-----------------------------------------------------------------------------
(* The loop                                                                *)

\* The types of a goroutine's locals and of its log.
Labels == {"idle", "loop", "backoff", "calling", "deciding", "succeeding", "failing",
           "classifying", "blocked", "returned", "panicked"}
Errs == Seq(Layers)

Threads ==
    [pc : Labels, attempt : Nat, delay : Int, lastErr : Errs, ret : Errs, calls : Nat,
     waited : Int, applied : Nat, lost : BOOLEAN]
Logs == [retries : Nat, attempts : Int]

\* Attempts made so far failed; n is MaxAttempts.
Looping(t, n) ==
    /\ t.calls = t.attempt
    /\ t.attempt > 0 => t.lastErr # Nil /\ t.attempt < n
    /\ t.attempt = 0 => t.lastErr = Nil /\ t.applied = 0
    /\ t.lost \/ t.applied = 0

\* The attempt numbered t.attempt has failed.
Failed(t, l, n) ==
    /\ t.calls = t.attempt + 1 /\ t.calls <= n
    /\ l.retries = t.attempt
    /\ t.lastErr # Nil
    /\ t.lost \/ t.applied = 0

\* The loop gave up after a call: the last one allowed, or one that failed for good.
GivenUp(t, l, n) ==
    /\ Failed(t, l, n)
    /\ t.calls = n \/ defaultErrorClassifier[t.lastErr] = ErrorPermanent

\* The policy allows no attempt.
Unattempted(t, l, n) ==
    /\ n <= 0
    /\ t.calls = 0 /\ l.retries = 0 /\ t.attempt = 0
    /\ t.lastErr = Nil
    /\ t.applied = 0

\* The call has returned: its answer, the log and the file fit together.
Answered(t, l, n) ==
    /\ l.retries = IF t.calls = 0 THEN 0 ELSE t.calls - 1
    /\ l.attempts = IF t.ret = Nil /\ t.calls > 0 THEN t.calls ELSE n
    /\ t.ret # Nil => t.calls = n \/ defaultErrorClassifier[t.ret] = ErrorPermanent
    /\ t.lost \/ t.applied = (IF t.ret = Nil /\ t.calls > 0 THEN 1 ELSE 0)

\* How the locals and the log fit together at each program counter.
LoopInv(t, l, n) ==
    /\ t.pc = "idle" => t = Idle /\ l.retries = 0
    /\ t.pc = "loop" => Looping(t, n) /\ l.retries = (IF t.attempt = 0 THEN 0 ELSE t.attempt - 1)
    /\ t.pc = "backoff" =>
           Looping(t, n) /\ t.attempt > 0 /\ l.retries = t.attempt - 1
    /\ t.pc = "calling" => Looping(t, n) /\ t.attempt < n /\ l.retries = t.attempt
    /\ t.pc = "deciding" => Failed(t, l, n)
    /\ t.pc = "succeeding" =>
           /\ t.calls = t.attempt + 1 /\ l.retries = t.attempt
           /\ t.lost \/ t.applied = 1
    /\ t.pc \in {"failing", "classifying"} => GivenUp(t, l, n) \/ Unattempted(t, l, n)
    /\ t.pc = "returned" => Answered(t, l, n)

\* The same for the goroutine w.
ThreadInv(w) == LoopInv(thread[w], log[w], Policy[w].MaxAttempts)

\* The classifier does not always panic on the error of t, or t has made all
\* the calls it may.
Survived(t, n) == t.calls >= n \/ classifier[t.lastErr] # {"panics"}

\* rfs.mu is held across steps only by a goroutine in the classifier; where the
\* classifier is called with rfs.mu held, it has been called without it before.
HolderInv(holds, t, n) ==
    /\ holds => t.pc \in {"classifying", "blocked", "panicked"}
    /\ t.pc \in {"failing", "classifying"} => Survived(t, n)
    /\ holds /\ t.pc = "panicked" => Survived(t, n)

\* The same for the goroutine w.
LockInv(w) == HolderInv(mu = w, thread[w], Policy[w].MaxAttempts)

\* A goroutine that slept so often has waited as long as its policy p says.
Within(p, waited, slept) ==
    /\ waited <= slept * Longest(p.MaxDelay, p.Jitter)
    /\ multiplier(p)[1] >= multiplier(p)[2] =>
           waited >= slept * Shortest(Capped(p, p.BaseDelay), p.Jitter)

\* The goroutine w has waited as long as its policy says.
WaitInv(w) == Within(Policy[w], thread[w].waited, log[w].retries)

\* The inductive invariant.
IInv ==
    /\ thread \in [Workers -> Threads]
    /\ log \in [Workers -> Logs]
    /\ \A w \in Workers : ThreadInv(w) /\ LockInv(w) /\ WaitInv(w)

\* The policies and errors the loop is given.
LEMMA LoopTypes ==
    /\ Nil \in Errs /\ NoWorker \notin Workers
    /\ \A err \in Faults \cup LostAnswers \cup {NotFound} : err \in Errs /\ err # Nil
    /\ \A w \in Workers : Policy[w].MaxAttempts \in Int /\ IsPolicy(Policy[w])
  BY RetryLoopAssumption DEF Errs, Nil, IsPolicy

\* A goroutine that has not started.
LEMMA IdleThread ==
    /\ Idle \in Threads /\ Idle.attempt = 0 /\ Idle.calls = 0 /\ Idle.lastErr = Nil
    /\ Idle.applied = 0 /\ Idle.lost = FALSE /\ Idle.pc = "idle" /\ Idle.waited = 0
  BY LoopTypes DEF Idle, Threads, Labels

\* No goroutine has started.
LEMMA InitIInv == Init => IInv
<1> SUFFICES ASSUME Init PROVE IInv
  OBVIOUS
<1>1. thread \in [Workers -> Threads] /\ \A w \in Workers : thread[w] = Idle
  BY IdleThread DEF Init
<1>2. log \in [Workers -> Logs] /\ \A w \in Workers : log[w].retries = 0
  BY DEF Init, Logs
<1>3. ASSUME NEW w \in Workers PROVE ThreadInv(w) /\ LockInv(w)
  BY <1>1, <1>2, IdleThread, LoopTypes DEF ThreadInv, LoopInv, LockInv, HolderInv, Init
<1>4. ASSUME NEW w \in Workers PROVE WaitInv(w)
  <2>1. /\ Longest(Policy[w].MaxDelay, Policy[w].Jitter) \in Nat
        /\ Shortest(Capped(Policy[w], Policy[w].BaseDelay), Policy[w].Jitter) \in Nat
    BY LoopTypes, PolicyBounds
  <2> QED
    BY <1>1, <1>2, <2>1, IdleThread DEF WaitInv, Within
<1> QED
  BY <1>1, <1>2, <1>3, <1>4 DEF IInv

\* One goroutine moves: what has to be shown of it.
LEMMA OneMoves ==
    ASSUME IInv, NEW w \in Workers, NEW u \in Threads, NEW l \in Logs,
           thread' = [thread EXCEPT ![w] = u], log' = [log EXCEPT ![w] = l],
           classifier' = classifier,
           mu' \in {mu, w, NoWorker},
           LoopInv(u, l, Policy[w].MaxAttempts),
           Within(Policy[w], u.waited, l.retries),
           HolderInv(mu' = w, u, Policy[w].MaxAttempts)
    PROVE  IInv'
<1>1. /\ thread' \in [Workers -> Threads] /\ thread'[w] = u
      /\ \A v \in Workers : v # w => thread'[v] = thread[v]
  BY DEF IInv
<1>2. /\ log' \in [Workers -> Logs] /\ log'[w] = l
      /\ \A v \in Workers : v # w => log'[v] = log[v]
  BY DEF IInv
<1>3. (ThreadInv(w) /\ LockInv(w) /\ WaitInv(w))'
  BY <1>1, <1>2 DEF ThreadInv, LockInv, HolderInv, Survived, WaitInv
<1>4. ASSUME NEW v \in Workers, v # w PROVE (ThreadInv(v) /\ LockInv(v) /\ WaitInv(v))'
  <2>1. mu' = v => mu = v
    BY <1>4, LoopTypes
  <2>2. ThreadInv(v) /\ LockInv(v) /\ WaitInv(v)
    BY DEF IInv
  <2> QED
    BY <1>1, <1>2, <1>4, <2>1, <2>2 DEF ThreadInv, LockInv, HolderInv, Survived, WaitInv
<1> QED
  BY <1>1, <1>2, <1>3, <1>4 DEF IInv

\* What is known of a goroutine before its step.
LEMMA Before ==
    ASSUME IInv, NEW w \in Workers
    PROVE  /\ thread[w] \in Threads /\ log[w] \in Logs
           /\ thread[w].attempt \in Nat /\ thread[w].calls \in Nat /\ thread[w].applied \in Nat
           /\ log[w].retries \in Nat /\ log[w].attempts \in Int
           /\ thread[w].lastErr \in Errs /\ thread[w].waited \in Int
           /\ LoopInv(thread[w], log[w], Policy[w].MaxAttempts)
           /\ HolderInv(mu = w, thread[w], Policy[w].MaxAttempts)
           /\ Within(Policy[w], thread[w].waited, log[w].retries)
           /\ Policy[w].MaxAttempts \in Int
           /\ log = [log EXCEPT ![w] = log[w]]
  BY LoopTypes DEF IInv, Threads, Logs, ThreadInv, LockInv, WaitInv

\* Steps that only move the program counter.
LEMMA PcSteps ==
    ASSUME IInv, NEW w \in Workers,
           \/ Start(w) \/ Exhausted(w) \/ Attempt(w) \/ PanicInDecide(w) \/ LockToFail(w)
           \/ PanicInFail(w) \/ ReenterInFail(w)
    PROVE  IInv'
<1> DEFINE t == thread[w]
           l == log[w]
           n == Policy[w].MaxAttempts
<1>1. /\ t \in Threads /\ l \in Logs /\ t.attempt \in Nat /\ t.calls \in Nat
      /\ t.applied \in Nat /\ l.retries \in Nat /\ n \in Int
      /\ LoopInv(t, l, n) /\ Within(Policy[w], t.waited, l.retries)
  BY Before
<1>2. HolderInv(mu = w, t, n)
  BY Before
<1>3. PICK q \in Labels :
          /\ thread' = [thread EXCEPT ![w] = [t EXCEPT !.pc = q]]
          /\ \/ t.pc = "idle" /\ q = "loop"
             \/ t.pc = "loop" /\ t.attempt >= n /\ q = "failing"
             \/ t.pc = "loop" /\ t.attempt < n /\ q = (IF t.attempt > 0 THEN "backoff" ELSE "calling")
             \/ t.pc = "deciding" /\ q = "panicked"
             \/ t.pc = "failing" /\ q = "classifying" 
             \/ t.pc = "classifying" /\ q \in {"panicked", "blocked"}
  BY DEF Start, Exhausted, Attempt, PanicInDecide, LockToFail, PanicInFail, ReenterInFail, Goto,
         Labels
<1>4. /\ classifier' = classifier /\ log' = log
      /\ mu' = IF t.pc = "failing" THEN w ELSE mu
  BY DEF Start, Exhausted, Attempt, PanicInDecide, LockToFail, PanicInFail, ReenterInFail
<1> DEFINE u == [t EXCEPT !.pc = q]
<1>5. /\ u \in Threads /\ u.pc = q /\ u.attempt = t.attempt /\ u.calls = t.calls
      /\ u.lastErr = t.lastErr /\ u.ret = t.ret /\ u.applied = t.applied /\ u.lost = t.lost
      /\ u.waited = t.waited
  BY <1>1 DEF Threads
<1>6. log' = [log EXCEPT ![w] = l] /\ thread' = [thread EXCEPT ![w] = u]
  BY <1>3, <1>4, Before
<1> HIDE DEF t, l, n, u
<1>7. LoopInv(u, l, n)
  BY <1>1, <1>3, <1>5, IdleThread DEF LoopInv, Looping, GivenUp, Failed, Unattempted
<1>8. HolderInv(mu' = w, u, n) /\ mu' \in {mu, w, NoWorker}
  <2>1. t.pc = "loop" /\ t.attempt >= n => t.calls >= n
    BY <1>1 DEF LoopInv, Looping
  <2>2. Survived(u, n) <=> Survived(t, n)
    BY <1>5 DEF Survived
  <2>3. t.pc = "loop" /\ t.attempt >= n => Survived(t, n)
    BY <2>1 DEF Survived
  <2> QED
    BY <1>2, <1>3, <1>4, <1>5, <2>2, <2>3 DEF HolderInv
<1> QED
  BY <1>1, <1>4, <1>5, <1>6, <1>7, <1>8, OneMoves DEF n

\* Sleep: one more delay that fits the policy.
LEMMA SleepStep ==
    ASSUME IInv, NEW w \in Workers, Sleep(w)
    PROVE  IInv'
<1> DEFINE t == thread[w]
           l == log[w]
           p == Policy[w]
           n == p.MaxAttempts
<1>1. /\ t \in Threads /\ l \in Logs /\ t.attempt \in Nat /\ t.calls \in Nat
      /\ t.waited \in Int /\ l.retries \in Nat /\ n \in Int /\ IsPolicy(p)
      /\ LoopInv(t, l, n) /\ Within(p, t.waited, l.retries)
  BY Before, LoopTypes
<1>2. HolderInv(mu = w, t, n)
  BY Before
<1>3. PICK d \in calculateBackoff(p, t.attempt) :
          thread' = [thread EXCEPT ![w] = [t EXCEPT !.pc = "calling", !.delay = d,
                                                    !.waited = t.waited + d]]
  BY Zenon DEF Sleep, Goto
<1>4. /\ t.pc = "backoff" /\ mu' = mu /\ classifier' = classifier
      /\ log' = [log EXCEPT ![w].retries = @ + 1]
  BY DEF Sleep
<1> DEFINE slept == l.retries + 1
           waited == t.waited + d
           u == [t EXCEPT !.pc = "calling", !.delay = d, !.waited = waited]
           m == [l EXCEPT !.retries = slept]
<1>5. t.attempt \in Nat \ {0} /\ Looping(t, n) /\ l.retries = t.attempt - 1
  BY <1>1, <1>4 DEF LoopInv
<1>6. /\ d \in Nat /\ d <= Longest(p.MaxDelay, p.Jitter)
      /\ multiplier(p)[1] >= multiplier(p)[2] =>
             Shortest(Capped(p, p.BaseDelay), p.Jitter) <= d
  <2> HIDE DEF t, p
  <2> QED
    BY <1>1, <1>3, <1>5, BackoffBounds
<1>7. slept \in Nat /\ waited \in Int /\ d \in Int
  BY <1>1, <1>6
<1>8. log' = [log EXCEPT ![w] = m]
  BY <1>4, Zenon
<1> HIDE DEF slept, waited
<1>9. /\ u \in Threads /\ u.pc = "calling" /\ u.attempt = t.attempt /\ u.calls = t.calls
      /\ u.lastErr = t.lastErr /\ u.applied = t.applied /\ u.lost = t.lost
      /\ u.waited = waited
  <2> HIDE DEF t
  <2>1. t \in Threads
    BY <1>1
  <2> QED
    BY <1>7, <2>1 DEF Threads, Labels
<1>10. m \in Logs /\ m.retries = slept
  BY <1>1, <1>7 DEF Logs
<1>11. thread' = [thread EXCEPT ![w] = u]
  BY <1>3 DEF waited
<1>12. Within(p, waited, slept)
  <2> DEFINE x == l.retries
             y == t.waited
             a == Longest(p.MaxDelay, p.Jitter)
             b == Shortest(Capped(p, p.BaseDelay), p.Jitter)
             grows == multiplier(p)[1] >= multiplier(p)[2]
  <2>1. a \in Nat /\ b \in Nat /\ x \in Nat /\ y \in Int /\ d \in Nat
    BY <1>1, <1>6, PolicyBounds
  <2>2. y <= x * a /\ d <= a /\ (grows => y >= x * b /\ d >= b)
    BY <1>1, <1>6, <2>1 DEF Within
  <2>3. slept = x + 1 /\ waited = y + d
    BY DEF slept, waited
  <2> HIDE DEF x, y, a, b, grows
  <2>4. slept * a = x * a + a /\ slept * b = x * b + b
    BY <2>1, <2>3
  <2>5. waited <= slept * a
    <3>1. x * a \in Int
      BY <2>1
    <3> QED
      BY <2>1, <2>2, <2>3, <2>4, <3>1
  <2>6. grows => waited >= slept * b
    <3>1. x * b \in Int
      BY <2>1
    <3> QED
      BY <2>1, <2>2, <2>3, <2>4, <3>1
  <2> QED
    BY <2>5, <2>6 DEF Within, a, b, grows
<1> HIDE DEF t, l, n, u, m
<1>13. LoopInv(u, m, n)
  BY <1>1, <1>5, <1>9, <1>10 DEF LoopInv, Looping, slept
<1>14. mu' \in {mu, w, NoWorker} /\ HolderInv(mu' = w, u, n)
  BY <1>2, <1>4, <1>9 DEF HolderInv
<1> QED
  BY <1>4, <1>8, <1>9, <1>10, <1>11, <1>12, <1>13, <1>14, OneMoves DEF n, p

\* The locals after a call, and after what it did to the file is noted.
LEMMA AfterCallEffect ==
    ASSUME NEW t \in Threads, NEW err \in Errs
    PROVE  LET u == AfterCall(t, err)
               v == [u EXCEPT !.applied = @ + 1, !.lost = @ \/ err # Nil]
           IN  /\ \A x \in {u, v} :
                      /\ x \in Threads /\ x.calls = t.calls + 1 /\ x.attempt = t.attempt
                      /\ x.waited = t.waited
                      /\ x.pc = IF err = Nil THEN "succeeding" ELSE "deciding"
                      /\ x.lastErr = IF err = Nil THEN t.lastErr ELSE err
               /\ u.applied = t.applied /\ u.lost = t.lost
               /\ v.applied = t.applied + 1
               /\ v.lost <=> (t.lost \/ err # Nil)
<1> DEFINE made == t.calls + 1
           done == t.applied + 1
           c == [t EXCEPT !.calls = made]
           u == AfterCall(t, err)
           lost == t.lost \/ err # Nil
           v == [u EXCEPT !.applied = done, !.lost = lost]
<1>1. made \in Nat /\ done \in Nat /\ lost \in BOOLEAN
  BY DEF Threads
<1>2. u = IF err = Nil THEN [c EXCEPT !.pc = "succeeding"]
          ELSE [c EXCEPT !.pc = "deciding", !.lastErr = err]
  BY Zenon DEF AfterCall
<1> HIDE DEF made, done, lost
<1>3. /\ c \in Threads /\ c.calls = made /\ c.attempt = t.attempt /\ c.waited = t.waited
      /\ c.lastErr = t.lastErr /\ c.applied = t.applied /\ c.lost = t.lost
  BY <1>1 DEF Threads
<1> HIDE DEF c, u
<1>4. /\ u \in Threads /\ u.calls = made /\ u.attempt = t.attempt /\ u.waited = t.waited
      /\ u.applied = t.applied /\ u.lost = t.lost
      /\ u.pc = IF err = Nil THEN "succeeding" ELSE "deciding"
      /\ u.lastErr = IF err = Nil THEN t.lastErr ELSE err
  <2>1. CASE err = Nil
    BY <1>2, <1>3, <2>1 DEF Threads, Labels
  <2>2. CASE err # Nil
    BY <1>2, <1>3, <2>2 DEF Threads, Labels
  <2> QED
    BY <2>1, <2>2
<1>5. v = [u EXCEPT !.applied = @ + 1, !.lost = @ \/ err # Nil]
  BY <1>4, Zenon DEF done, lost
<1>6. /\ v \in Threads /\ v.calls = u.calls /\ v.attempt = u.attempt /\ v.waited = u.waited
      /\ v.applied = done /\ v.lost = lost /\ v.pc = u.pc /\ v.lastErr = u.lastErr
  BY <1>1, <1>4 DEF Threads
<1> HIDE DEF v
<1>7. v.lost <=> (t.lost \/ err # Nil)
  BY <1>6, Zenon DEF lost
<1>8. \A x \in {u, v} :
          /\ x \in Threads /\ x.calls = made /\ x.attempt = t.attempt
          /\ x.waited = t.waited
          /\ x.pc = IF err = Nil THEN "succeeding" ELSE "deciding"
          /\ x.lastErr = IF err = Nil THEN t.lastErr ELSE err
  BY <1>4, <1>6
<1> QED
  BY <1>4, <1>5, <1>6, <1>7, <1>8, Zenon DEF made, done, u

\* A call of the backend, whatever it does to the file.
LEMMA CallStep ==
    ASSUME IInv, NEW w \in Workers, CallFails(w) \/ CallFindsNothing(w) \/ CallTakesEffect(w)
    PROVE  IInv'
<1> DEFINE t == thread[w]
           l == log[w]
           n == Policy[w].MaxAttempts
           Noted(err) == [AfterCall(t, err) EXCEPT !.applied = @ + 1, !.lost = @ \/ err # Nil]
<1>1. /\ t \in Threads /\ l \in Logs /\ t.attempt \in Nat /\ t.calls \in Nat
      /\ t.applied \in Nat /\ l.retries \in Nat /\ n \in Int
      /\ LoopInv(t, l, n) /\ Within(Policy[w], t.waited, l.retries)
  BY Before
<1>2. HolderInv(mu = w, t, n)
  BY Before
<1>3. t.pc = "calling" /\ mu' = mu /\ classifier' = classifier /\ log' = log
  BY DEF CallFails, CallFindsNothing, CallTakesEffect
<1>4. PICK err \in Errs : \E x \in {AfterCall(t, err), Noted(err)} :
          /\ thread' = [thread EXCEPT ![w] = x]
          /\ err = Nil => x = Noted(err)
  <2>1. CASE CallFails(w)
    BY <2>1, LoopTypes DEF CallFails, Goto
  <2>2. CASE CallFindsNothing(w)
    BY <2>2, LoopTypes DEF CallFindsNothing, Goto
  <2>3. CASE CallTakesEffect(w)
    <3>1. PICK err \in {Nil} \cup LostAnswers : Goto(w, Noted(err))
      BY <2>3, Zenon DEF CallTakesEffect
    <3>2. err \in Errs
      BY <3>1, LoopTypes
    <3> QED
      BY <3>1, <3>2 DEF Goto
  <2> QED
    BY <2>1, <2>2, <2>3
<1>5. PICK u \in {AfterCall(t, err), Noted(err)} :
           /\ thread' = [thread EXCEPT ![w] = u]
           /\ err = Nil => u = Noted(err)
  BY <1>4
<1>6. /\ \A x \in {AfterCall(t, err), Noted(err)} :
             /\ x \in Threads /\ x.calls = t.calls + 1 /\ x.attempt = t.attempt
             /\ x.waited = t.waited
             /\ x.pc = IF err = Nil THEN "succeeding" ELSE "deciding"
             /\ x.lastErr = IF err = Nil THEN t.lastErr ELSE err
      /\ AfterCall(t, err).applied = t.applied /\ AfterCall(t, err).lost = t.lost
      /\ Noted(err).applied = t.applied + 1
      /\ Noted(err).lost <=> (t.lost \/ err # Nil)
  <2> HIDE DEF t
  <2>1. t \in Threads
    BY <1>1
  <2> QED
    BY <2>1, AfterCallEffect, Zenon
<1> HIDE DEF Noted
<1>7. /\ u \in Threads /\ u.calls = t.calls + 1 /\ u.attempt = t.attempt
      /\ u.waited = t.waited
      /\ u.pc = IF err = Nil THEN "succeeding" ELSE "deciding"
      /\ u.lastErr = IF err = Nil THEN t.lastErr ELSE err
      /\ \/ u.applied = t.applied /\ u.lost = t.lost /\ err # Nil
         \/ u.applied = t.applied + 1 /\ (u.lost <=> (t.lost \/ err # Nil))
  BY <1>5, <1>6, Zenon
<1>8. log' = [log EXCEPT ![w] = l]
  BY <1>3, Before
<1> HIDE DEF t, l, n
<1>9. Looping(t, n) /\ t.attempt < n /\ l.retries = t.attempt
  BY <1>1, <1>3 DEF LoopInv
<1>10. CASE err = Nil
  <2>1. u.lost \/ u.applied = 1
    BY <1>1, <1>7, <1>9, <1>10 DEF Looping
  <2>2. LoopInv(u, l, n)
    BY <1>1, <1>7, <1>9, <1>10, <2>1 DEF LoopInv, Looping
  <2>3. Within(Policy[w], u.waited, l.retries) /\ mu' \in {mu, w, NoWorker}
    BY <1>1, <1>3, <1>7
  <2>4. HolderInv(mu' = w, u, n)
    BY <1>2, <1>3, <1>7, <1>10 DEF HolderInv
  <2> QED
    BY <1>1, <1>3, <1>5, <1>7, <1>8, <2>2, <2>3, <2>4, OneMoves DEF n
<1>11. CASE err # Nil
  <2>1. u.lost \/ u.applied = 0
    BY <1>1, <1>7, <1>9, <1>11 DEF Looping
  <2>2. Failed(u, l, n)
    BY <1>1, <1>7, <1>9, <1>11, <2>1 DEF Failed, Looping
  <2>3. LoopInv(u, l, n)
    BY <1>7, <1>11, <2>2 DEF LoopInv
  <2>4. Within(Policy[w], u.waited, l.retries) /\ mu' \in {mu, w, NoWorker}
    BY <1>1, <1>3, <1>7
  <2>5. HolderInv(mu' = w, u, n)
    BY <1>2, <1>3, <1>7, <1>11 DEF HolderInv
  <2> QED
    BY <1>1, <1>3, <1>5, <1>7, <1>8, <2>3, <2>4, <2>5, OneMoves DEF n
<1> QED
  BY <1>10, <1>11

\* shouldRetry goes back to the head of the loop, or leaves it.
LEMMA DecideStep ==
    ASSUME IInv, NEW w \in Workers, Decide(w)
    PROVE  IInv'
<1> DEFINE t == thread[w]
           l == log[w]
           n == Policy[w].MaxAttempts
           next == t.attempt + 1
           again == [t EXCEPT !.pc = "loop", !.attempt = next]
           done == [t EXCEPT !.pc = "failing"]
<1>1. /\ t \in Threads /\ l \in Logs /\ t.attempt \in Nat /\ t.calls \in Nat
      /\ t.applied \in Nat /\ l.retries \in Nat /\ n \in Int /\ next \in Nat
      /\ LoopInv(t, l, n) /\ Within(Policy[w], t.waited, l.retries)
  BY Before
<1>2. HolderInv(mu = w, t, n)
  BY Before
<1>3. /\ t.pc = "deciding" /\ mu' = mu /\ classifier' = classifier /\ log' = log
      /\ asks(w) => classifier[t.lastErr] # {"panics"}
  BY DEF Decide, may
<1>4. asks(w) <=> next < n
  BY DEF asks
<1> DEFINE final == defaultErrorClassifier[t.lastErr] = ErrorPermanent
<1>5. PICK u : /\ thread' = [thread EXCEPT ![w] = u]
               /\ (asks(w) /\ u = again) \/ (u = done /\ (asks(w) => final))
  BY Zenon DEF Decide, Goto
<1>6. log' = [log EXCEPT ![w] = l]
  BY <1>3, Before
<1> HIDE DEF t, l, n, next
<1>7. /\ again \in Threads /\ again.pc = "loop" /\ again.attempt = next
      /\ again.calls = t.calls /\ again.lastErr = t.lastErr /\ again.applied = t.applied
      /\ again.lost = t.lost /\ again.waited = t.waited
  BY <1>1 DEF Threads, Labels
<1>8. /\ done \in Threads /\ done.pc = "failing" /\ done.attempt = t.attempt
      /\ done.calls = t.calls /\ done.lastErr = t.lastErr /\ done.applied = t.applied
      /\ done.lost = t.lost /\ done.waited = t.waited
  BY <1>1 DEF Threads, Labels
<1>9. Failed(t, l, n)
  BY <1>1, <1>3 DEF LoopInv
<1> HIDE DEF again, done
<1>10. CASE asks(w) /\ u = again
  <2>1. LoopInv(u, l, n)
    BY <1>1, <1>4, <1>7, <1>9, <1>10 DEF LoopInv, Looping, Failed, next
  <2>2. HolderInv(mu' = w, u, n)
    BY <1>2, <1>3, <1>7, <1>10 DEF HolderInv
  <2> QED
    BY <1>1, <1>3, <1>5, <1>6, <1>7, <1>10, <2>1, <2>2, OneMoves DEF n
<1>11. CASE u = done /\ (asks(w) => final)
  <2>1. GivenUp(u, l, n)
    BY <1>1, <1>4, <1>8, <1>9, <1>11 DEF GivenUp, Failed, final, next
  <2>2. Survived(u, n)
    BY <1>1, <1>3, <1>4, <1>8, <1>9, <1>11 DEF Survived, Failed, next
  <2>3. LoopInv(u, l, n)
    BY <1>8, <1>11, <2>1 DEF LoopInv
  <2>4. HolderInv(mu' = w, u, n)
    BY <1>2, <1>3, <1>8, <1>11, <2>2 DEF HolderInv
  <2> QED
    BY <1>1, <1>3, <1>5, <1>6, <1>8, <1>11, <2>3, <2>4, OneMoves DEF n
<1> QED
  BY <1>5, <1>10, <1>11

\* The method returns, and the log says how it went.
LEMMA EndStep ==
    ASSUME IInv, NEW w \in Workers, Succeed(w) \/ Fail(w)
    PROVE  IInv'
<1> DEFINE t == thread[w]
           l == log[w]
           n == Policy[w].MaxAttempts
<1>1. /\ t \in Threads /\ l \in Logs /\ t.attempt \in Nat /\ t.calls \in Nat
      /\ t.applied \in Nat /\ l.retries \in Nat /\ n \in Int /\ t.lastErr \in Errs
      /\ LoopInv(t, l, n) /\ Within(Policy[w], t.waited, l.retries)
  BY Before
<1>2. HolderInv(mu = w, t, n)
  BY Before
<1>3. PICK r \in Errs, a \in Int :
          /\ thread' = [thread EXCEPT ![w] = [t EXCEPT !.pc = "returned", !.ret = r]]
          /\ log' = [log EXCEPT ![w].attempts = a]
          /\ \/ t.pc = "succeeding" /\ r = Nil /\ a = t.attempt + 1
             \/ t.pc = "classifying" /\ r = t.lastErr /\ a = n
  <2>1. t.attempt + 1 \in Int
    BY <1>1
  <2> HIDE DEF t, n
  <2>2. CASE Succeed(w)
    BY <2>1, <2>2, LoopTypes DEF Succeed, Goto, logOperationComplete, t
  <2>3. CASE Fail(w)
    BY <1>1, <2>3 DEF Fail, Goto, logOperationComplete, t, n
  <2> QED
    BY <2>2, <2>3
<1>4. classifier' = classifier /\ mu' \in {mu, NoWorker} /\ (t.pc = "classifying" => mu' = NoWorker)
  BY DEF Succeed, Fail
<1> DEFINE u == [t EXCEPT !.pc = "returned", !.ret = r]
           m == [l EXCEPT !.attempts = a]
<1>5. log' = [log EXCEPT ![w] = m] /\ thread' = [thread EXCEPT ![w] = u]
  BY <1>3, Zenon
<1> HIDE DEF t, l, n
<1>6. /\ u \in Threads /\ u.pc = "returned" /\ u.ret = r /\ u.attempt = t.attempt
      /\ u.calls = t.calls /\ u.applied = t.applied /\ u.lost = t.lost /\ u.waited = t.waited
  BY <1>1 DEF Threads, Labels
<1>7. m \in Logs /\ m.retries = l.retries /\ m.attempts = a
  BY <1>1 DEF Logs
<1> HIDE DEF u, m
<1>8. Answered(u, m, n)
  <2>1. CASE t.pc = "succeeding" /\ r = Nil /\ a = t.attempt + 1
    BY <1>1, <1>6, <1>7, <2>1 DEF LoopInv, Answered
  <2>2. CASE t.pc = "classifying" /\ r = t.lastErr /\ a = n
    <3>1. CASE GivenUp(t, l, n)
      BY <1>1, <1>6, <1>7, <2>2, <3>1 DEF GivenUp, Failed, Answered
    <3>2. CASE Unattempted(t, l, n)
      BY <1>1, <1>6, <1>7, <2>2, <3>2 DEF Unattempted, Answered
    <3> QED
      BY <1>1, <2>2, <3>1, <3>2 DEF LoopInv
  <2> QED
    BY <1>3, <2>1, <2>2
<1>9. LoopInv(u, m, n)
  BY <1>6, <1>8 DEF LoopInv
<1>10. HolderInv(mu' = w, u, n) /\ mu' \in {mu, w, NoWorker}
  BY <1>2, <1>3, <1>4, <1>6, LoopTypes DEF HolderInv
<1> QED
  BY <1>1, <1>2, <1>4, <1>5, <1>6, <1>7, <1>9, <1>10, OneMoves DEF n

\* No step breaks the invariant.
LEMMA NextIInv == IInv /\ [Next]_vars => IInv'
<1> SUFFICES ASSUME IInv, [Next]_vars PROVE IInv'
  OBVIOUS
<1>1. CASE UNCHANGED vars
  BY <1>1 DEF vars, IInv, ThreadInv, LockInv, HolderInv, Survived, WaitInv
<1>2. ASSUME NEW w \in Workers, Start(w) \/ Step(w) PROVE IInv'
  BY <1>2, PcSteps, SleepStep, CallStep, DecideStep, EndStep DEF Step
<1> QED
  BY <1>1, <1>2 DEF Next

-----------------------------------------------------------------------------
(* The theorems                                                            *)

\* At every point of the loop the locals, the log and rfs.mu fit together.
THEOREM Inductive == Spec => []IInv
  BY InitIInv, NextIInv, PTL DEF Spec

\* A panic of the classifier leaves rfs.mu locked only after the last attempt of
\* the policy, or on an error for which an earlier call of the classifier did not
\* panic: for every classifier, whatever it does with which error.
THEOREM LockedPanic == Spec => []LockedPanicIsLast
<1>1. IInv => LockedPanicIsLast
  BY DEF IInv, LockInv, HolderInv, Survived, LockedPanicIsLast, panicked
<1> QED
  BY <1>1, Inductive, PTL

\* Unless an answer was lost, nil means that one attempt took effect, and an
\* error that none did, whatever other goroutines do to the file.
THEOREM HonestAnswers == Spec => []HonestUnlessLost
<1>1. IInv => HonestUnlessLost
  BY DEF IInv, ThreadInv, LoopInv, Answered, HonestUnlessLost, returned
<1> QED
  BY <1>1, Inductive, PTL

\* The log has one warning for every repeated call, and the number of the calls,
\* unless a permanent error ended the loop early.
THEOREM LogIsRight == Spec => []LogMatchesCalls
<1>1. IInv => LogMatchesCalls
  BY DEF IInv, ThreadInv, LoopInv, Answered, LogMatchesCalls, returned
<1> QED
  BY <1>1, Inductive, PTL

\* However often an operation sleeps, it waits as long as its policy says.
THEOREM Waits == Spec => []WaitsWithinPolicy
<1>1. IInv => WaitsWithinPolicy
  BY Zenon DEF IInv, WaitInv, Within, WaitsWithinPolicy
<1> QED
  BY <1>1, Inductive, PTL

\* Renaming the file of an error changes no decision of the loop.
THEOREM NamesDoNotDecide == Spec => []FileNamesDoNotDecide
<1>1. FileNamesDoNotDecide
  BY ClassifierFacts DEF FileNamesDoNotDecide
<1> QED
  BY <1>1, PTL

\* A sentinel or an errno decides whatever text is wrapped around it.
THEOREM CausesBeatText == Spec => []TypedErrorsBeatText
<1>1. TypedErrorsBeatText
  BY ClassifierFacts DEF TypedErrorsBeatText
<1> QED
  BY <1>1, PTL
==============================================================================
