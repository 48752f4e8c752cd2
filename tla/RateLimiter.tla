---------------------------- MODULE RateLimiter ----------------------------
(***************************************************************************)
(* The token bucket of src/async/rate-limiter.ts.  Nothing fills it while  *)
(* nobody looks: every operation first credits the whole intervals that    *)
(* have gone by, and moves lastRefill on by exactly those.                 *)
(*                                                                         *)
(* refillRate may be a fraction, so tokens are counted in 1/Unit.          *)
(***************************************************************************)
EXTENDS Integers, Sequences, FiniteSets

CONSTANTS Capacity,   \* policy.capacity, in 1/Unit
          RefillRate, \* policy.refillRate, in 1/Unit
          Interval,   \* intervalMs
          Unit,       \* one token
          MaxNow      \* bound on the clock

\* An interval of 0 would make refill() divide by it: the bucket becomes NaN.
ASSUME LimiterAssumption ==
  Capacity \in Nat /\ RefillRate \in Nat /\ Interval \in Nat \ {0} /\ Unit \in Nat \ {0} /\ MaxNow \in Nat

VARIABLES now,         \* Date.now(), which never steps back
          tokens,      \* tokens, in 1/Unit
          lastRefill,  \* lastRefill
          grants       \* history: the times of the grants since the last reset

limiterVars == <<tokens, lastRefill, grants>>

Tick == now < MaxNow /\ now' = now + 1

LimiterInit ==
  /\ tokens = Capacity
  /\ lastRefill = now
  /\ grants = <<>>

\* The whole intervals since lastRefill.
Intervals == (now - lastRefill) \div Interval

Cap(amount) == IF amount < Capacity THEN amount ELSE Capacity

\* Seeded fault: the credit is not capped.
RefilledUncapped == tokens + Intervals * RefillRate

\* What refill() leaves in the bucket.
Refilled == Cap(tokens + Intervals * RefillRate)

\* Seeded fault: the part of an interval already gone is thrown away.
CreditedNow == IF Intervals = 0 THEN lastRefill ELSE now

\* The lastRefill that refill() leaves.
Credited == lastRefill + Intervals * Interval

\* tokens(), and a tryAcquire() or wrapped task that is refused.
Look ==
  /\ tokens' = Refilled
  /\ lastRefill' = Credited
  /\ UNCHANGED <<grants, now>>

\* tryAcquire() that returns true, or a wrapped task that starts.
TryAcquire ==
  /\ Refilled > 0
  /\ tokens' = Refilled - Unit
  /\ lastRefill' = Credited
  /\ grants' = Append(grants, now)
  /\ UNCHANGED now

\* reset().
ResetLimiter ==
  /\ tokens' = Capacity
  /\ lastRefill' = now
  /\ grants' = <<>>
  /\ UNCHANGED now

LimiterNext ==
  \/ Look
  \/ TryAcquire
  \/ ResetLimiter
  \/ Tick /\ UNCHANGED limiterVars

LimiterSpec == now = 0 /\ LimiterInit /\ [][LimiterNext]_<<limiterVars, now>>

-----------------------------------------------------------------------------
(* Properties. *)

\* The bucket holds at most Capacity and is overdrawn by less than a token, and
\* the intervals are counted from a time that has been.
LimiterTypeOK ==
  /\ tokens \in (-Unit + 1)..Capacity
  /\ lastRefill \in 0..now

GrantsWithin(from, to) == {i \in DOMAIN grants : from <= grants[i] /\ grants[i] <= to}

\* In no stretch of time, wherever it begins, are more tasks let through than a
\* full bucket and the refills that can fall into it allow (refill, tryAcquire).
GrantsBounded ==
  \A from, to \in 0..now : from <= to =>
    Cardinality(GrantsWithin(from, to)) * Unit
      < Capacity + ((to - from) \div Interval + 1) * RefillRate + Unit

\* Crediting whole intervals when somebody looks is the same as filling the
\* bucket on time, every interval, whenever anybody looks.
Bucket == INSTANCE TokenBucket
            WITH level <- Refilled, phase <- (now - lastRefill) % Interval, Rate <- RefillRate
ImplementsBucket == Bucket!Spec
=============================================================================
