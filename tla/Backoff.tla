------------------------------ MODULE Backoff ------------------------------
(***************************************************************************)
(* calculateBackoff (src/retryfs.go) on integers.  A policy's Multiplier   *)
(* is a fraction <<numerator, denominator>>, its Jitter a percentage, its  *)
(* delays are natural numbers.  The random source makes the result one of  *)
(* a set of delays; the conversion to time.Duration cuts off fractions.    *)
(***************************************************************************)
EXTENDS Integers

\* Policy.Multiplier, 2.0 if it was left out.
multiplier(policy) ==
    IF policy.Multiplier[1] <= 0 THEN <<2, 1>> ELSE policy.Multiplier

\* Mutant: the delay is not capped.
CappedNever(policy, delay) == delay

Capped(policy, delay) == IF delay > policy.MaxDelay THEN policy.MaxDelay ELSE delay

\* External: math.Pow.
Pow(m, n) ==
    LET power[i \in 0..n] == IF i = 0 THEN 1 ELSE m * power[i - 1]
    IN  power[n]

\* BaseDelay * multiplier^(attempt - 1), at most MaxDelay.
Exponential(policy, attempt) ==
    LET m == multiplier(policy)
    IN  Capped(policy, (policy.BaseDelay * Pow(m[1], attempt - 1)) \div Pow(m[2], attempt - 1))

\* delay * (1 - jitter) and delay * (1 + jitter).
Shortest(delay, jitter) ==
    IF jitter > 100 THEN 0 ELSE (delay * (100 - jitter)) \div 100
Longest(delay, jitter) == (delay * (100 + jitter)) \div 100

Jittered(delay, jitter) ==
    IF jitter > 0 THEN Shortest(delay, jitter) .. Longest(delay, jitter) ELSE {delay}

\* The delays calculateBackoff may return.
calculateBackoff(policy, attempt) ==
    IF attempt <= 0 THEN {0}
    ELSE Jittered(Exponential(policy, attempt), policy.Jitter)
============================================================================
