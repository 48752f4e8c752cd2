---------------------------- MODULE PolicyProofs ----------------------------
(***************************************************************************)
(* Proofs about the parts of MCPolicies, for every value of the constants: *)
(* the policies around a task (rate limiter, circuit breaker, cache,       *)
(* retries with timeouts); the channel, with its implementing Conduit; and *)
(* the components that answer to events and callbacks (a subprocess, an    *)
(* HTTP exchange, the state machine, parallel tasks, Lazy, the layers      *)
(* around a handler).  The last section puts the parts together for the    *)
(* Spec of MCPolicies.                                                     *)
(***************************************************************************)
EXTENDS MCPolicies, QueueLemmas

-----------------------------------------------------------------------------
(* The rate limiter. *)

\* The grants from a time on.
Since(from) == {i \in DOMAIN grants : from <= grants[i]}

\* What was granted from a time on and what is left are paid for by a full bucket and the
\* refills since: k of them, if they reach as far as lastRefill.
Afforded ==
  \A from \in 0 .. now, k \in Nat :
    lastRefill <= from + k * Interval =>
      Cardinality(Since(from)) * Unit + tokens <= Capacity + k * RefillRate

\* The last grant is less than an interval after lastRefill, which refill() has just moved.
GrantsDated ==
  /\ grants \in Seq(Nat)
  /\ \A i \in DOMAIN grants : grants[i] <= now /\ grants[i] < lastRefill + Interval

\* GrantsBounded for one stretch of time, and for those that are over.
Bounded(from, to) ==
  Cardinality(GrantsWithin(from, to)) * Unit
    < Capacity + ((to - from) \div Interval + 1) * RefillRate + Unit
PastBounded == \A from, to \in 0 .. now : from <= to /\ to < now => Bounded(from, to)

LimiterInv == now \in Nat /\ LimiterTypeOK /\ GrantsDated /\ Afforded /\ PastBounded

\* refill(): what it leaves is in the bucket's bounds, and its clock is less than an
\* interval behind.
LEMMA RefillFacts ==
  ASSUME now \in Nat, LimiterTypeOK
  PROVE  /\ Intervals \in Nat
         /\ Credited \in 0 .. now /\ lastRefill <= Credited /\ now < Credited + Interval
         /\ Refilled \in (-Unit + 1) .. Capacity
         /\ Refilled <= tokens + Intervals * RefillRate
         /\ Intervals * Interval \in Nat /\ Intervals * RefillRate \in Nat
<1> USE LimiterAssumption
<1> DEFINE d == now - lastRefill
<1>1. d \in Nat
  BY DEF LimiterTypeOK
<1> HIDE DEF d
<1>2. /\ Intervals \in Nat /\ d % Interval \in 0 .. Interval - 1
      /\ d = Intervals * Interval + (d % Interval)
  <2>1. d \in Int /\ Interval \in Nat \ {0}
    BY <1>1
  <2>2. d \div Interval \in Nat
    BY <1>1, <2>1, DivNat
  <2>3. d % Interval \in 0 .. Interval - 1 /\ d = (d \div Interval) * Interval + (d % Interval)
    BY ONLY <2>1, DivMod, Zenon
  <2>4. Intervals = d \div Interval
    BY DEF Intervals, d
  <2> QED
    BY <2>2, <2>3, <2>4
<1>3. Intervals * Interval \in Nat /\ Intervals * RefillRate \in Nat
  BY <1>2
<1>4. Credited \in 0 .. now /\ lastRefill <= Credited /\ now < Credited + Interval
  BY <1>1, <1>2, <1>3 DEF Credited, LimiterTypeOK, d
<1>5. tokens \in Int /\ tokens >= -Unit + 1
  BY DEF LimiterTypeOK
<1>6. Refilled \in (-Unit + 1) .. Capacity /\ Refilled <= tokens + Intervals * RefillRate
  BY <1>3, <1>5 DEF Refilled, Cap
<1> QED
  BY <1>2, <1>3, <1>4, <1>6

\* refill() spends nothing: what Afforded says of the bucket, it says of what refill() leaves.
LEMMA RefillAffords ==
  ASSUME LimiterInv, NEW from \in 0 .. now, NEW k \in Nat, Credited <= from + k * Interval
  PROVE  Cardinality(Since(from)) * Unit + Refilled <= Capacity + k * RefillRate
<1> USE LimiterAssumption
<1> DEFINE n == Cardinality(Since(from)) * Unit
           j == Intervals
<1>1. /\ j \in Nat /\ Refilled \in (-Unit + 1) .. Capacity /\ Refilled <= tokens + j * RefillRate
      /\ Credited = lastRefill + j * Interval
      /\ tokens \in Int /\ lastRefill \in Nat
  BY RefillFacts DEF LimiterInv, Credited, LimiterTypeOK
<1>2. IsFiniteSet(DOMAIN grants) /\ IsFiniteSet(Since(from)) /\ n \in Nat
  <2>1. IsFiniteSet(1 .. Len(grants)) /\ DOMAIN grants = 1 .. Len(grants) /\ Len(grants) \in Nat
    BY FS_Interval DEF LimiterInv, GrantsDated
  <2>2. IsFiniteSet(Since(from))
    BY <2>1, FS_Subset DEF Since
  <2>3. Cardinality(Since(from)) \in Nat
    BY <2>2, FS_CardinalityType
  <2> QED
    BY <2>1, <2>2, <2>3
<1>3. CASE j <= k
  <2>1. k - j \in Nat /\ (k - j) * Interval = k * Interval - j * Interval
                      /\ (k - j) * RefillRate = k * RefillRate - j * RefillRate
    BY <1>1, <1>3
  <2>2. /\ j * Interval \in Int /\ k * Interval \in Int
        /\ j * RefillRate \in Int /\ k * RefillRate \in Int
    BY <1>1
  <2>3. lastRefill <= from + (k - j) * Interval
    BY <1>1, <2>1, <2>2
  <2>4. n + tokens <= Capacity + (k - j) * RefillRate
    BY <2>1, <2>3 DEF LimiterInv, Afforded
  <2> HIDE DEF n, j
  <2> QED
    BY <1>1, <1>2, <2>1, <2>2, <2>4 DEF n
<1>4. CASE j > k
  <2>1. (k + 1) * Interval <= j * Interval
    BY <1>1, <1>4, TimesMonotone
  <2>2. (k + 1) * Interval = k * Interval + Interval /\ k * Interval \in Int /\ j * Interval \in Int
    BY <1>1
  <2>3. lastRefill + Interval <= from
    BY <1>1, <2>1, <2>2
  <2>4. Since(from) = {}
    BY <1>1, <2>3 DEF Since, LimiterInv, GrantsDated
  <2>5. n = 0
    BY <2>4, FS_EmptySet
  <2>6. k * RefillRate \in Nat
    OBVIOUS
  <2> HIDE DEF n, j
  <2> QED
    BY <1>1, <2>5, <2>6 DEF n
<1> QED
  BY <1>1, <1>3, <1>4

\* The grants are finitely many.
LEMMA GrantsFinite ==
  ASSUME GrantsDated, NEW from
  PROVE  IsFiniteSet(Since(from)) /\ Cardinality(Since(from)) \in Nat
<1>1. IsFiniteSet(1 .. Len(grants)) /\ DOMAIN grants = 1 .. Len(grants) /\ Len(grants) \in Nat
  BY FS_Interval DEF GrantsDated
<1>2. IsFiniteSet(Since(from))
  BY <1>1, FS_Subset DEF Since
<1> QED
  BY <1>2, FS_CardinalityType

\* A stretch of time that ends now is bounded: the refills that it has room for reach
\* lastRefill, which is past.
LEMMA BoundedUpToNow ==
  ASSUME LimiterInv, NEW from \in 0 .. now
  PROVE  Bounded(from, now)
<1> USE LimiterAssumption
<1> DEFINE d == now - from
           q == d \div Interval
           n == Cardinality(Since(from))
<1>1. now \in Nat /\ d \in Nat /\ lastRefill \in 0 .. now /\ tokens \in Int /\ tokens > -Unit
  BY DEF LimiterInv, LimiterTypeOK
<1>2. GrantsWithin(from, now) = Since(from)
  BY DEF GrantsWithin, Since, LimiterInv, GrantsDated
<1>3. n \in Nat
  BY GrantsFinite DEF LimiterInv
<1> HIDE DEF d
<1>4. q \in Nat /\ d < (q + 1) * Interval
  <2>1. d \in Int /\ Interval \in Nat \ {0}
    BY <1>1
  <2>2. q \in Nat
    BY <1>1, <2>1, DivNat
  <2>3. d % Interval \in 0 .. Interval - 1 /\ d = (d \div Interval) * Interval + (d % Interval)
    BY ONLY <2>1, DivMod, Zenon
  <2> HIDE DEF q
  <2>4. d % Interval \in 0 .. Interval - 1 /\ d = q * Interval + (d % Interval)
    BY <2>3 DEF q
  <2>5. (q + 1) * Interval = q * Interval + Interval /\ q * Interval \in Int
    BY <2>2
  <2> QED
    BY <1>1, <2>2, <2>4, <2>5
<1> HIDE DEF q
<1>5. lastRefill <= from + (q + 1) * Interval
  <2>1. (q + 1) * Interval \in Int
    BY <1>4
  <2> QED
    BY <1>1, <1>4, <2>1 DEF d
<1>6. q + 1 \in Nat
  BY <1>4
<1>7. n * Unit + tokens <= Capacity + (q + 1) * RefillRate
  BY <1>5, <1>6 DEF LimiterInv, Afforded
<1> HIDE DEF n
<1>8. n * Unit \in Nat /\ (q + 1) * RefillRate \in Nat
  BY <1>3, <1>6
<1>9. n * Unit < Capacity + (q + 1) * RefillRate + Unit
  BY <1>1, <1>7, <1>8
<1> QED
  BY <1>2, <1>9 DEF Bounded, n, q, d

LEMMA LimiterBounded == LimiterInv => GrantsBounded
<1> SUFFICES ASSUME LimiterInv, NEW from \in 0 .. now, NEW to \in 0 .. now, from <= to
             PROVE  Bounded(from, to)
  BY DEF GrantsBounded, Bounded
<1>1. CASE to < now
  BY <1>1 DEF LimiterInv, PastBounded
<1>2. CASE to = now
  BY <1>2, BoundedUpToNow
<1> QED
  BY <1>1, <1>2 DEF LimiterInv

LEMMA LimiterInitInv == now = 0 /\ LimiterInit => LimiterInv
<1> SUFFICES ASSUME now = 0, LimiterInit PROVE LimiterInv
  OBVIOUS
<1> USE LimiterAssumption DEF LimiterInit
<1>1. LimiterTypeOK /\ GrantsDated /\ PastBounded
  BY DEF LimiterTypeOK, GrantsDated, PastBounded
<1>2. Afforded
  <2> SUFFICES ASSUME NEW from \in 0 .. now, NEW k \in Nat
               PROVE  Cardinality(Since(from)) * Unit + tokens <= Capacity + k * RefillRate
    BY DEF Afforded
  <2>1. Since(from) = {}
    BY DEF Since
  <2>2. Cardinality(Since(from)) = 0 /\ k * RefillRate \in Nat
    BY <2>1, FS_EmptySet
  <2> QED
    BY <2>2
<1> QED
  BY <1>1, <1>2 DEF LimiterInv

\* An operation at the bucket adds no grant to a stretch of time that is over.
LEMMA PastStays ==
  ASSUME LimiterInv, now' = now, NEW g, g = grants \/ g = Append(grants, now), grants' = g
  PROVE  PastBounded'
<1> SUFFICES ASSUME NEW from \in 0 .. now, NEW to \in 0 .. now, from <= to, to < now
             PROVE  Bounded(from, to)'
  BY DEF PastBounded
<1>1. GrantsWithin(from, to)' = GrantsWithin(from, to)
  <2>1. CASE g = grants
    BY <2>1 DEF GrantsWithin
  <2>2. CASE g = Append(grants, now)
    <3>1. /\ grants \in Seq(Nat) /\ now \in Nat /\ Len(grants) \in Nat
          /\ DOMAIN grants = 1 .. Len(grants) /\ DOMAIN g = 1 .. Len(grants) + 1
          /\ \A i \in 1 .. Len(grants) : g[i] = grants[i]
          /\ g[Len(grants) + 1] = now
      BY <2>2 DEF LimiterInv, GrantsDated
    <3> QED
      BY <3>1 DEF GrantsWithin
  <2> QED
    BY <2>1, <2>2
<1>2. Bounded(from, to)
  BY DEF LimiterInv, PastBounded
<1> QED
  BY <1>1, <1>2 DEF Bounded

LEMMA LimiterNextInv ==
  ASSUME LimiterInv, [LimiterNext]_<<limiterVars, now>>
  PROVE  LimiterInv'
<1> USE LimiterAssumption
<1>0. /\ Intervals \in Nat /\ Credited \in 0 .. now /\ lastRefill <= Credited
      /\ now < Credited + Interval /\ Refilled \in (-Unit + 1) .. Capacity
      /\ now \in Nat /\ tokens \in Int /\ lastRefill \in 0 .. now
  BY RefillFacts DEF LimiterInv, LimiterTypeOK
<1>1. CASE Look
  <2>1. tokens' = Refilled /\ lastRefill' = Credited /\ grants' = grants /\ now' = now
    BY <1>1 DEF Look
  <2>2. LimiterTypeOK'
    BY <1>0, <2>1 DEF LimiterTypeOK
  <2>3. GrantsDated'
    <3>1. \A i \in DOMAIN grants : grants[i] \in Nat /\ grants[i] <= now /\ grants[i] < lastRefill + Interval
      BY DEF LimiterInv, GrantsDated
    <3> QED
      BY <1>0, <2>1, <3>1 DEF LimiterInv, GrantsDated
  <2>4. Afforded'
    <3> SUFFICES ASSUME NEW from \in 0 .. now, NEW k \in Nat, Credited <= from + k * Interval
                 PROVE  Cardinality(Since(from)) * Unit + Refilled <= Capacity + k * RefillRate
      BY <2>1 DEF Afforded, Since
    <3> QED
      BY RefillAffords
  <2>5. PastBounded'
    BY <2>1, PastStays
  <2> QED
    BY <1>0, <2>1, <2>2, <2>3, <2>4, <2>5 DEF LimiterInv
<1>2. CASE TryAcquire
  <2>1. /\ tokens' = Refilled - Unit /\ lastRefill' = Credited /\ grants' = Append(grants, now)
        /\ now' = now /\ Refilled > 0
    BY <1>2 DEF TryAcquire
  <2>2. LimiterTypeOK'
    BY <1>0, <2>1 DEF LimiterTypeOK
  <2>g. /\ grants \in Seq(Nat) /\ grants' \in Seq(Nat) /\ Len(grants) \in Nat
        /\ DOMAIN grants = 1 .. Len(grants) /\ DOMAIN grants' = 1 .. Len(grants) + 1
        /\ \A i \in 1 .. Len(grants) : grants'[i] = grants[i]
        /\ grants'[Len(grants) + 1] = now
    BY <1>0, <2>1 DEF LimiterInv, GrantsDated
  <2>3. GrantsDated'
    <3>1. \A i \in DOMAIN grants : grants[i] \in Nat /\ grants[i] <= now /\ grants[i] < lastRefill + Interval
      BY <2>g DEF LimiterInv, GrantsDated
    <3>2. ASSUME NEW i \in DOMAIN grants' PROVE grants'[i] <= now /\ grants'[i] < Credited + Interval
      BY <1>0, <2>g, <3>1, SMTT(30)
    <3> QED
      BY <2>1, <2>g, <3>2 DEF GrantsDated
  <2>4. Afforded'
    <3> SUFFICES ASSUME NEW from \in 0 .. now, NEW k \in Nat, Credited <= from + k * Interval
                 PROVE  Cardinality(Since(from)') * Unit + (Refilled - Unit) <= Capacity + k * RefillRate
      BY <2>1 DEF Afforded
    <3>1. Since(from)' = Since(from) \cup {Len(grants) + 1} /\ Len(grants) + 1 \notin Since(from)
      BY <1>0, <2>g DEF Since
    <3>2. IsFiniteSet(Since(from)) /\ Cardinality(Since(from)) \in Nat
      BY GrantsFinite DEF LimiterInv
    <3>3. Cardinality(Since(from)') = Cardinality(Since(from)) + 1
      BY <3>1, <3>2, FS_AddElement
    <3>4. Cardinality(Since(from)) * Unit + Refilled <= Capacity + k * RefillRate
      BY RefillAffords
    <3> DEFINE n == Cardinality(Since(from))
    <3>5. n \in Nat /\ (n + 1) * Unit = n * Unit + Unit /\ n * Unit \in Nat /\ k * RefillRate \in Nat
      BY <3>2
    <3> QED
      BY <1>0, <3>3, <3>4, <3>5
  <2>5. PastBounded'
    BY <2>1, PastStays
  <2> QED
    BY <1>0, <2>1, <2>2, <2>3, <2>4, <2>5 DEF LimiterInv
<1>3. CASE ResetLimiter
  <2>1. tokens' = Capacity /\ lastRefill' = now /\ grants' = <<>> /\ now' = now
    BY <1>3 DEF ResetLimiter
  <2>2. LimiterTypeOK' /\ GrantsDated'
    BY <1>0, <2>1 DEF LimiterTypeOK, GrantsDated
  <2>3. Afforded'
    <3> SUFFICES ASSUME NEW from \in 0 .. now, NEW k \in Nat
                 PROVE  Cardinality(Since(from)') * Unit + Capacity <= Capacity + k * RefillRate
      BY <2>1 DEF Afforded
    <3>1. Since(from)' = {}
      BY <2>1 DEF Since
    <3>2. Cardinality(Since(from)') = 0 /\ k * RefillRate \in Nat
      BY <3>1, FS_EmptySet
    <3> QED
      BY <3>2
  <2>4. PastBounded'
    <3> SUFFICES ASSUME NEW from \in 0 .. now, NEW to \in 0 .. now, from <= to, to < now
                 PROVE  Bounded(from, to)'
      BY <2>1 DEF PastBounded
    <3>1. GrantsWithin(from, to)' = {}
      BY <2>1 DEF GrantsWithin
    <3>2. Cardinality(GrantsWithin(from, to)') = 0
      BY <3>1, FS_EmptySet
    <3> DEFINE d == to - from
               q == d \div Interval
    <3>3. d \in Nat
      OBVIOUS
    <3> HIDE DEF d
    <3>4. q \in Nat
      BY <3>3, DivNat
    <3> HIDE DEF q
    <3>5. (q + 1) * RefillRate \in Nat
      BY <3>4
    <3>6. 0 * Unit < Capacity + (q + 1) * RefillRate + Unit
      BY <3>5
    <3> QED
      BY <3>2, <3>6 DEF Bounded, q, d
  <2> QED
    BY <1>0, <2>1, <2>2, <2>3, <2>4 DEF LimiterInv
<1>4. CASE Tick /\ UNCHANGED limiterVars
  <2>1. now' = now + 1 /\ UNCHANGED <<tokens, lastRefill, grants>>
    BY <1>4 DEF Tick, limiterVars
  <2>2. LimiterTypeOK'
    BY <1>0, <2>1 DEF LimiterTypeOK, LimiterInv
  <2>3. GrantsDated'
    BY <1>0, <2>1 DEF GrantsDated, LimiterInv
  <2>4. Afforded'
    <3> SUFFICES ASSUME NEW from \in 0 .. now + 1, NEW k \in Nat, lastRefill <= from + k * Interval
                 PROVE  Cardinality(Since(from)) * Unit + tokens <= Capacity + k * RefillRate
      BY <2>1 DEF Afforded, Since
    <3>1. CASE from \in 0 .. now
      BY <3>1 DEF LimiterInv, Afforded
    <3>2. CASE from = now + 1
      <4>1. Since(from) = {}
        BY <1>0, <3>2 DEF Since, LimiterInv, GrantsDated
      <4>2. Cardinality(Since(from)) = 0 /\ k * RefillRate \in Nat /\ tokens <= Capacity
        BY <4>1, FS_EmptySet DEF LimiterInv, LimiterTypeOK
      <4> QED
        BY <1>0, <4>2
    <3> QED
      BY <1>0, <3>1, <3>2
  <2>5. PastBounded'
    <3> SUFFICES ASSUME NEW from \in 0 .. now + 1, NEW to \in 0 .. now + 1, from <= to, to < now + 1
                 PROVE  Bounded(from, to)
      BY <2>1 DEF PastBounded, Bounded, GrantsWithin
    <3>1. from \in 0 .. now /\ to \in 0 .. now
      BY <1>0
    <3>2. GrantsBounded
      BY LimiterBounded
    <3> QED
      BY <3>1, <3>2 DEF GrantsBounded, Bounded
  <2> QED
    BY <1>0, <2>1, <2>2, <2>3, <2>4, <2>5 DEF LimiterInv
<1>5. CASE UNCHANGED <<limiterVars, now>>
  BY <1>5 DEF limiterVars, LimiterInv, LimiterTypeOK, GrantsDated, Afforded, PastBounded, Since, Bounded,
              GrantsWithin
<1> QED
  BY <1>1, <1>2, <1>3, <1>4, <1>5 DEF LimiterNext

LEMMA LimiterAlwaysInv == LimiterSpec => []LimiterInv
BY LimiterInitInv, LimiterNextInv, PTL DEF LimiterSpec

\* For every capacity, rate and interval, and in every stretch of time, no more tasks are
\* let through than a full bucket and the refills that fall into it pay for (tryAcquire).
THEOREM LimiterGrantsBounded == LimiterSpec => []GrantsBounded
BY LimiterAlwaysInv, LimiterBounded, PTL

-----------------------------------------------------------------------------
(* The limiter is a bucket that is filled on time. *)

\* The time since lastRefill, as whole intervals and the rest.
Phase == (now - lastRefill) % Interval

LEMMA PhaseFacts ==
  ASSUME now \in Nat, LimiterTypeOK
  PROVE  /\ Phase \in 0 .. Interval - 1 /\ Intervals \in Nat
         /\ now - lastRefill = Intervals * Interval + Phase
         /\ now - Credited = Phase
<1> USE LimiterAssumption
<1> DEFINE d == now - lastRefill
<1>1. d \in Int /\ Interval \in Nat \ {0}
  BY DEF LimiterTypeOK
<1> HIDE DEF d
<1>2. d % Interval \in 0 .. Interval - 1 /\ d = (d \div Interval) * Interval + (d % Interval)
  BY ONLY <1>1, DivMod, Zenon
<1>3. Phase = d % Interval /\ Intervals = d \div Interval
  BY DEF Phase, Intervals, d
<1>4. Intervals \in Nat /\ Intervals * Interval \in Nat
  BY RefillFacts
<1>5. Phase \in 0 .. Interval - 1 /\ d = Intervals * Interval + Phase
  BY <1>2, <1>3
<1>6. now - Credited = Phase
  BY <1>4, <1>5 DEF Credited, d, LimiterTypeOK
<1> QED
  BY <1>4, <1>5, <1>6 DEF d

\* What is in the bucket once somebody looks, when the whole intervals are known.
LEMMA RefilledIs ==
  ASSUME NEW q \in Nat, NEW r \in 0 .. Interval - 1, NEW t \in Int,
         tokens' = t, now' - lastRefill' = q * Interval + r, now' - lastRefill' \in Int
  PROVE  Phase' = r /\ Refilled' = Cap(t + q * RefillRate)
<1> USE LimiterAssumption
<1> DEFINE d == now' - lastRefill'
<1>1. d \in Int /\ d = q * Interval + r /\ q \in Int /\ Interval \in Nat \ {0}
  OBVIOUS
<1> HIDE DEF d
<1>2. d \div Interval = q /\ d % Interval = r
  BY <1>1, DivIs
<1>3. Phase' = d % Interval /\ Intervals' = d \div Interval
  BY DEF Phase, Intervals, d
<1> QED
  BY <1>2, <1>3 DEF Refilled, Cap

\* Crediting whole intervals when somebody looks is the same as filling the bucket on
\* time, for every rate, also a fractional one, and whenever anybody looks (refill).
THEOREM LimiterImplementsBucket == LimiterSpec => ImplementsBucket
<1> USE LimiterAssumption
<1>1. now = 0 /\ LimiterInit => Bucket!Init
  <2> SUFFICES ASSUME now = 0, LimiterInit PROVE Bucket!Init
    OBVIOUS
  <2>1. 0 \div Interval = 0 /\ 0 % Interval = 0
    <3>1. 0 \in 0 .. Interval - 1 /\ 0 = 0 * Interval + 0 /\ 0 \in Int /\ Interval \in Nat \ {0}
      OBVIOUS
    <3> QED
      BY ONLY <3>1, DivIs
  <2>2. now - lastRefill = 0 /\ tokens = Capacity
    BY DEF LimiterInit
  <2>3. Intervals = 0 /\ (now - lastRefill) % Interval = 0
    BY <2>1, <2>2 DEF Intervals
  <2>4. Refilled = Capacity
    BY <2>2, <2>3 DEF Refilled, Cap
  <2> QED
    BY <2>3, <2>4 DEF Bucket!Init
<1>2. ASSUME LimiterInv, [LimiterNext]_<<limiterVars, now>>
      PROVE  [Bucket!Next]_Bucket!bucketVars
  <2>0. /\ Intervals \in Nat /\ Credited \in 0 .. now /\ Refilled \in (-Unit + 1) .. Capacity
        /\ now \in Nat /\ tokens \in Int /\ lastRefill \in 0 .. now
        /\ Phase \in 0 .. Interval - 1 /\ now - lastRefill = Intervals * Interval + Phase
        /\ now - Credited = Phase
    BY <1>2, RefillFacts, PhaseFacts DEF LimiterInv, LimiterTypeOK
  <2>1. CASE Look
    <3>1. tokens' = Refilled /\ now' - lastRefill' = 0 * Interval + Phase /\ now' - lastRefill' \in Int
      BY <2>0, <2>1 DEF Look
    <3>2. Phase' = Phase /\ Refilled' = Cap(Refilled + 0 * RefillRate)
      BY <2>0, <3>1, RefilledIs
    <3>3. Refilled' = Refilled
      BY <2>0, <3>2 DEF Cap
    <3> QED
      BY <3>2, <3>3 DEF Bucket!bucketVars, Phase
  <2>2. CASE TryAcquire
    <3>1. /\ tokens' = Refilled - Unit /\ now' - lastRefill' = 0 * Interval + Phase
          /\ now' - lastRefill' \in Int /\ Refilled - Unit \in Int /\ Refilled > 0
      BY <2>0, <2>2 DEF TryAcquire
    <3>2. Phase' = Phase /\ Refilled' = Cap(Refilled - Unit + 0 * RefillRate)
      BY <2>0, <3>1, RefilledIs
    <3>3. Refilled' = Refilled - Unit
      BY <2>0, <3>2 DEF Cap
    <3> QED
      BY <3>1, <3>2, <3>3 DEF Bucket!Next, Bucket!Grant, Phase
  <2>3. CASE ResetLimiter
    <3>1. /\ tokens' = Capacity /\ now' - lastRefill' = 0 * Interval + 0
          /\ now' - lastRefill' \in Int /\ 0 \in 0 .. Interval - 1
      BY <2>0, <2>3 DEF ResetLimiter
    <3>2. Phase' = 0 /\ Refilled' = Cap(Capacity + 0 * RefillRate)
      BY <2>0, <3>1, RefilledIs
    <3>3. Refilled' = Capacity
      BY <2>0, <3>2 DEF Cap
    <3> QED
      BY <3>2, <3>3 DEF Bucket!Next, Bucket!Reset, Phase
  <2>4. CASE Tick /\ UNCHANGED limiterVars
    <3>0. tokens' = tokens /\ now' - lastRefill' = Intervals * Interval + (Phase + 1) /\ now' - lastRefill' \in Int
      BY <2>0, <2>4 DEF Tick, limiterVars
    <3>c. Refilled = Cap(tokens + Intervals * RefillRate) /\ Intervals * RefillRate \in Nat
      BY <2>0 DEF Refilled
    <3>1. CASE Phase + 1 < Interval
      <4>1. Phase + 1 \in 0 .. Interval - 1
        BY <2>0, <3>1
      <4>2. Phase' = Phase + 1 /\ Refilled' = Cap(tokens + Intervals * RefillRate)
        BY <2>0, <3>0, <4>1, RefilledIs
      <4> QED
        BY <3>1, <3>c, <4>2 DEF Bucket!Next, Bucket!Wait, Phase
    <3>2. CASE ~(Phase + 1 < Interval)
      <4>1. Phase + 1 = Interval /\ 0 \in 0 .. Interval - 1 /\ Intervals + 1 \in Nat
        BY <2>0, <3>2
      <4>2. (Intervals + 1) * Interval + 0 = Intervals * Interval + Interval
        BY <2>0
      <4>3. now' - lastRefill' = (Intervals + 1) * Interval + 0
        BY <3>0, <4>1, <4>2
      <4>4. Phase' = 0 /\ Refilled' = Cap(tokens + (Intervals + 1) * RefillRate)
        BY <2>0, <3>0, <4>1, <4>3, RefilledIs
      <4>5. (Intervals + 1) * RefillRate = Intervals * RefillRate + RefillRate
        BY <2>0
      <4>6. Refilled' = Bucket!Lower(Capacity, Refilled + RefillRate)
        BY <2>0, <3>c, <4>4, <4>5 DEF Cap, Bucket!Lower
      <4> QED
        BY <4>1, <4>4, <4>6 DEF Bucket!Next, Bucket!Fill, Phase
    <3> QED
      BY <3>1, <3>2
  <2>5. CASE UNCHANGED <<limiterVars, now>>
    BY <2>5 DEF limiterVars, Bucket!bucketVars, Refilled, Intervals, Cap
  <2> QED
    BY <1>2, <2>1, <2>2, <2>3, <2>4, <2>5 DEF LimiterNext
<1> QED
  BY <1>1, <1>2, LimiterAlwaysInv, PTL DEF LimiterSpec, ImplementsBucket, Bucket!Spec

-----------------------------------------------------------------------------
(* The circuit breaker. *)

LEMMA BreakerInitType == BreakerInit => BreakerTypeOK
BY BreakerAssumption DEF BreakerInit, BreakerTypeOK

LEMMA BreakerNextType ==
  ASSUME BreakerTypeOK, [BreakerNext]_breakerVars
  PROVE  BreakerTypeOK'
<1> USE BreakerAssumption DEF BreakerTypeOK
<1>1. ASSUME NEW r \in Request, Admit(r) PROVE BreakerTypeOK'
  BY <1>1 DEF Admit, ShouldTransitionToHalfOpen
<1>2. ASSUME NEW r \in Request, Leave(r) PROVE request' \in [Request -> {"out", "closed", "half-open"}]
  BY <1>2 DEF Leave
<1>3. ASSUME NEW r \in Request, Succeed(r) PROVE BreakerTypeOK'
  BY <1>2, <1>3 DEF Succeed, OnSuccess, TransitionToClosed
<1>4. ASSUME NEW r \in Request, Fail(r) PROVE BreakerTypeOK'
  BY <1>2, <1>4 DEF Fail, OnFailure, TransitionToOpen
<1>5. ASSUME NEW r \in Request, Reject(r) PROVE BreakerTypeOK'
  BY <1>2, <1>5 DEF Reject
<1>6. CASE ResetBreaker
  BY <1>6 DEF ResetBreaker, TransitionToClosed
<1>7. CASE Elapse
  BY <1>7 DEF Elapse
<1>8. CASE UNCHANGED breakerVars
  BY <1>8 DEF breakerVars
<1> QED
  BY <1>1, <1>3, <1>4, <1>5, <1>6, <1>7, <1>8 DEF BreakerNext

LEMMA BreakerTyped == BreakerSpec => []BreakerTypeOK
BY BreakerInitType, BreakerNextType, PTL DEF BreakerSpec

\* An open circuit runs its course: late results neither prolong nor cut short its
\* cooldown, for any number of calls and any thresholds (protect, onSuccess, onFailure).
THEOREM BreakerOpenRunsItsCourse == BreakerSpec => OpenRunsItsCourse
<1> DEFINE Allowed ==
             circuit = "open" => \/ circuit' = "open" /\ age' >= age
                                 \/ circuit' = "half-open" /\ age >= Cooldown /\ request' # request
                                 \/ circuit' = "closed" /\ UNCHANGED request
<1>1. ASSUME BreakerTypeOK, [BreakerNext]_breakerVars PROVE [Allowed]_breakerVars
  <2> SUFFICES ASSUME circuit = "open" PROVE [Allowed]_breakerVars
    OBVIOUS
  <2> USE BreakerAssumption DEF BreakerTypeOK
  <2>1. ASSUME NEW r \in Request, Admit(r) PROVE Allowed
    <3>1. circuit' = "half-open" /\ age >= Cooldown
      BY <1>1, <2>1 DEF Admit, ShouldTransitionToHalfOpen
    <3>2. request' # request
      BY <1>1, <2>1, <3>1 DEF Admit
    <3> QED
      BY <3>1, <3>2
  <2>2. ASSUME NEW r \in Request, Succeed(r) \/ Fail(r) \/ Reject(r) PROVE Allowed
    BY <1>1, <2>2 DEF Succeed, Fail, Reject, OnSuccess, OnFailure
  <2>3. CASE ResetBreaker
    BY <2>3 DEF ResetBreaker, TransitionToClosed
  <2>4. CASE Elapse
    BY <1>1, <2>4 DEF Elapse
  <2> QED
    BY <1>1, <2>1, <2>2, <2>3, <2>4 DEF BreakerNext
<1>2. BreakerSpec => [][Allowed]_breakerVars
  <2> HIDE DEF Allowed
  <2> QED
    BY <1>1, BreakerTyped, PTL DEF BreakerSpec
<1> QED
  BY <1>2 DEF OpenRunsItsCourse

-----------------------------------------------------------------------------
(* Retries with timeouts. *)

\* The loop no longer awaits attempt i.
Over(i) == i < attempt \/ (i = attempt /\ phase = "sleeping")

\* Among the attempts that are over a timer still ticks only beside a task that ended with
\* an Err; the loop sleeps only when there is an attempt left.
AttemptInv ==
  /\ AttemptTypeOK
  /\ answer \in Ending \cup {"none"}
  /\ phase = "idle" <=> attempt = 0
  /\ phase = "sleeping" => attempt < MaxAttempts
  /\ answer = "ok" => task[attempt] = "ok"
  /\ \A i \in Attempts : Over(i) /\ i \in ticking => task[i] = "err"

LEMMA AttemptInitInv == AttemptInit => AttemptInv
BY AttemptAssumption DEF AttemptInit, AttemptInv, AttemptTypeOK, Attempts, Ending, Over

\* What the end of a race may do to the invariant: attempt's own task or timer is done with.
LEMMA DecideInv ==
  ASSUME AttemptInv, phase = "attempting", NEW ending \in Ending, NEW ended, NEW left \in SUBSET ticking,
         \/ ended = task /\ attempt \notin left /\ ending = "err"
         \/ ended = [task EXCEPT ![attempt] = ending],
         attempt \in Attempts,
         Decide(ending, ended, left)
  PROVE  AttemptInv'
<1> USE AttemptAssumption DEF AttemptInv, AttemptTypeOK
<1>1. /\ ended \in [Attempts -> {"unstarted", "running"} \cup Ending]
      /\ ending = "ok" => ended[attempt] = "ok"
      /\ \A i \in Attempts : i <= attempt /\ i \in left /\ ending = "err" => ended[i] = "err"
      /\ \A i \in Attempts : i < attempt /\ i \in left => ended[i] = "err"
      /\ left \subseteq 1 .. attempt
      /\ attempt \in Nat /\ attempt > 0
  BY DEF Attempts, Over, Ending
<1>2. ASSUME NEW e \in Ending, Finish(e), task' = ended, ticking' = left, e = "ok" => ending = "ok"
      PROVE  AttemptInv'
  BY <1>1, <1>2 DEF Finish, Ending, Over
<1>3. ASSUME ending = "err", attempt < MaxAttempts, Begin(ended, left), UNCHANGED caller
      PROVE  AttemptInv'
  <2>1. /\ attempt + 1 \in Attempts /\ phase' = "attempting" /\ attempt' = attempt + 1
        /\ task' = [ended EXCEPT ![attempt + 1] = "running"]
        /\ ticking' = left \cup {attempt + 1} /\ answer' = answer /\ answer = "none"
    BY <1>1, <1>3 DEF Begin, Attempts
  <2>2. AttemptTypeOK'
    BY <1>1, <1>3, <2>1
  <2>3. \A i \in Attempts : (i < attempt + 1) /\ i \in ticking' => task'[i] = "err"
    BY <1>1, <1>3, <2>1 DEF Attempts
  <2> QED
    BY <1>1, <2>1, <2>2, <2>3 DEF Over
<1>4. ASSUME ending = "err", attempt < MaxAttempts, phase' = "sleeping", task' = ended, ticking' = left,
             UNCHANGED <<attempt, answer, caller>>
      PROVE  AttemptInv'
  BY <1>1, <1>4 DEF Over, Ending
<1> QED
  BY <1>2, <1>3, <1>4 DEF Decide, Ending

\* The next attempt begins while nothing is awaited.
LEMMA BeginInv ==
  ASSUME AttemptInv, phase \in {"idle", "sleeping"}, Begin(task, ticking),
         caller' \in [Caller -> {"out", "waiting", "timeout"} \cup Ending]
  PROVE  AttemptInv'
<1> USE AttemptAssumption DEF AttemptInv, AttemptTypeOK
<1>1. /\ attempt + 1 \in Attempts /\ phase' = "attempting" /\ attempt' = attempt + 1
      /\ task' = [task EXCEPT ![attempt + 1] = "running"] /\ attempt \in Nat
      /\ ticking' = ticking \cup {attempt + 1} /\ answer' = answer /\ answer = "none"
  BY DEF Begin, Attempts
<1>2. AttemptTypeOK'
  BY <1>1
<1>3. \A i \in Attempts : i < attempt + 1 /\ i \in ticking' => task'[i] = "err"
  BY <1>1 DEF Attempts, Over
<1> QED
  BY <1>1, <1>2, <1>3 DEF Over

LEMMA AttemptNextInv ==
  ASSUME AttemptInv, [AttemptNext]_attemptVars
  PROVE  AttemptInv'
<1>1. ASSUME NEW i \in Attempts, TimerFires(i) PROVE AttemptInv'
  <2> DEFINE left == ticking \ {i}
  <2>1. CASE Racing(i) /\ Decide("err", task, left)
    <3>1. phase = "attempting" /\ i = attempt /\ attempt \notin left /\ left \in SUBSET ticking
          /\ "err" \in Ending /\ attempt \in Attempts
      BY <1>1, <2>1 DEF Racing, Ending
    <3> HIDE DEF left
    <3> QED
      BY <2>1, <3>1, DecideInv
  <2>2. CASE ~Racing(i) /\ ticking' = left /\ UNCHANGED <<phase, attempt, task, answer, caller>>
    BY <2>2 DEF AttemptInv, AttemptTypeOK, Over
  <2> QED
    BY <1>1, <2>1, <2>2 DEF TimerFires
<1>2. ASSUME NEW i \in Attempts, NEW ending \in Ending, TaskEnds(i, ending) PROVE AttemptInv'
  <2> DEFINE ended == [task EXCEPT ![i] = ending]
  <2>1. CASE Racing(i) /\ Decide(ending, ended, ticking)
    <3>1. /\ phase = "attempting" /\ i = attempt /\ attempt \in Attempts
          /\ ended = [task EXCEPT ![attempt] = ending] /\ ticking \in SUBSET ticking
      BY <1>2, <2>1 DEF Racing
    <3> HIDE DEF ended
    <3> QED
      BY <2>1, <3>1, DecideInv
  <2>2. CASE ~Racing(i) /\ task' = ended /\ UNCHANGED <<phase, attempt, ticking, answer, caller>>
    <3>1. task[i] = "running" /\ task' = [task EXCEPT ![i] = ending]
          /\ task \in [Attempts -> {"unstarted", "running"} \cup Ending]
      BY <1>2, <2>2 DEF TaskEnds, AttemptInv, AttemptTypeOK
    <3>2. task' \in [Attempts -> {"unstarted", "running"} \cup Ending]
      BY <3>1
    <3>3. \A j \in Attempts : j # i => task'[j] = task[j]
      BY <3>1
    <3>4. answer = "ok" => i # attempt
      BY <3>1 DEF AttemptInv
    <3>5. answer = "ok" => attempt \in Attempts /\ task'[attempt] = "ok"
      BY <3>1, <3>3, <3>4, AttemptAssumption DEF AttemptInv, AttemptTypeOK, Attempts
    <3>6. ~(Over(i) /\ i \in ticking)
      BY <3>1 DEF AttemptInv
    <3> QED
      BY <2>2, <3>1, <3>2, <3>3, <3>5, <3>6 DEF AttemptInv, AttemptTypeOK, Over
  <2> QED
    BY <1>2, <2>1, <2>2 DEF TaskEnds
<1>3. CASE Wake
  BY <1>3, BeginInv DEF Wake, AttemptInv, AttemptTypeOK
<1>4. ASSUME NEW c \in Caller, Call(c) PROVE AttemptInv'
  <2>1. CASE phase = "idle" /\ Begin(task, ticking) /\ caller' = [caller EXCEPT ![c] = "waiting"]
    <3>1. caller' \in [Caller -> {"out", "waiting", "timeout"} \cup Ending]
      BY <2>1 DEF AttemptInv, AttemptTypeOK
    <3> QED
      BY <2>1, <3>1, BeginInv
  <2>2. CASE /\ caller' = [caller EXCEPT ![c] = IF answer = "none" THEN "waiting" ELSE answer]
             /\ UNCHANGED <<phase, attempt, task, ticking, answer>>
    BY <2>2 DEF AttemptInv, AttemptTypeOK, Over
  <2> QED
    BY <1>4, <2>1, <2>2 DEF Call
<1>5. ASSUME NEW c \in Caller, Deadline(c) PROVE AttemptInv'
  BY <1>5 DEF Deadline, AttemptInv, AttemptTypeOK, Over
<1>6. CASE UNCHANGED attemptVars
  BY <1>6 DEF attemptVars, AttemptInv, AttemptTypeOK, Over
<1> QED
  BY <1>1, <1>2, <1>3, <1>4, <1>5, <1>6 DEF AttemptNext

LEMMA AttemptAlwaysInv == AttemptSpec => []AttemptInv
BY AttemptInitInv, AttemptNextInv, PTL DEF AttemptSpec

\* For any number of attempts and callers an Ok is the last attempt's own, and no attempt
\* follows one that ended other than with Err unless its timeout had fired (applyRetry, timeout).
THEOREM AttemptSuccessEndsTheCall == AttemptSpec => []SuccessEndsTheCall
<1>1. AttemptInv => SuccessEndsTheCall
  BY DEF AttemptInv, SuccessEndsTheCall, Over, Ending
<1> QED
  BY <1>1, AttemptAlwaysInv, PTL

-----------------------------------------------------------------------------
(* The cache. *)

CacheEntry == [key : Key, expiresAt : Nat]

\* No entry twice, and no key in two of them.
OneEntryEach(s) == IsInjective(s) /\ \A e, f \in Range(s) : e.key = f.key => e = f

LEMMA EntriesByKey ==
  ASSUME NEW s \in Seq(CacheEntry)
  PROVE  IsInjective([i \in DOMAIN s |-> s[i].key]) <=> OneEntryEach(s)
<1> DEFINE keys == [i \in DOMAIN s |-> s[i].key]
<1>1. ASSUME IsInjective(keys) PROVE OneEntryEach(s)
  <2>1. \A i, j \in DOMAIN s : s[i].key = s[j].key => i = j
    BY <1>1 DEF IsInjective
  <2> QED
    BY <2>1 DEF OneEntryEach, IsInjective, Range
<1>2. ASSUME OneEntryEach(s) PROVE IsInjective(keys)
  <2> SUFFICES ASSUME NEW i \in DOMAIN s, NEW j \in DOMAIN s, s[i].key = s[j].key PROVE i = j
    BY DEF IsInjective
  <2>1. s[i] = s[j]
    BY <1>2 DEF OneEntryEach, Range
  <2> QED
    BY <1>2, <2>1 DEF OneEntryEach, IsInjective
<1> QED
  BY <1>1, <1>2

CacheInv == clock \in Nat /\ CacheTypeOK

LEMMA CacheFacts ==
  ASSUME CacheInv
  PROVE  /\ store \in Seq(CacheEntry) /\ OneEntryEach(store)
         /\ Len(store) \in Nat /\ Len(store) <= MaxSize /\ clock \in Nat
         /\ \A k : Holds(k) <=> \E e \in Range(store) : e.key = k /\ ~Expired(e)
<1>1. store \in Seq(CacheEntry) /\ Len(store) <= MaxSize /\ clock \in Nat
  BY DEF CacheInv, CacheTypeOK, CacheEntry
<1>2. IsInjective([i \in DOMAIN store |-> store[i].key])
  BY DEF CacheInv, CacheTypeOK
<1>3. OneEntryEach(store)
  BY <1>1, <1>2, EntriesByKey
<1>4. \A k : Holds(k) <=> \E e \in Range(store) : e.key = k /\ ~Expired(e)
  BY DEF Holds, Range
<1> QED
  BY <1>1, <1>3, <1>4

\* delete() of a key, as Map does it.
LEMMA WithoutFacts ==
  ASSUME CacheInv, NEW k
  PROVE  /\ Without(k) \in Seq(CacheEntry) /\ OneEntryEach(Without(k))
         /\ Len(Without(k)) \in Nat /\ Len(Without(k)) <= MaxSize
         /\ Range(Without(k)) = {e \in Range(store) : e.key # k}
         /\ Holds(k) => Len(Without(k)) < Len(store)
<1> DEFINE A == {e \in Range(store) : e.key = k}
<1> USE CacheAssumption
<1>1. store \in Seq(CacheEntry) /\ OneEntryEach(store) /\ Len(store) <= MaxSize /\ Len(store) \in Nat
  BY CacheFacts
<1> HIDE DEF A
<1>2. /\ Remaining(store, A) \in Seq(CacheEntry) /\ Len(Remaining(store, A)) <= Len(store)
      /\ Range(Remaining(store, A)) = Range(store) \ A
      /\ IsInjective(store) => IsInjective(Remaining(store, A))
  BY <1>1, RemainingQueue
<1>3. Range(store) \cap A # {} => Len(Remaining(store, A)) < Len(store)
  BY <1>1, RemainingShorter
<1>4. Holds(k) => Range(store) \cap A # {}
  BY CacheFacts DEF A
<1>5. Without(k) = Remaining(store, A)
  BY DEF Without, A
<1>6. Len(Remaining(store, A)) \in Nat
  BY <1>2
<1>7. OneEntryEach(Remaining(store, A))
  BY <1>1, <1>2 DEF OneEntryEach
<1> QED
  BY <1>1, <1>2, <1>3, <1>4, <1>5, <1>6, <1>7 DEF A

\* evict(): expired entries go, and then the first ones down to maxSize.
LEMMA EvictFacts ==
  ASSUME NEW s \in Seq(CacheEntry), OneEntryEach(s)
  PROVE  /\ Evict(s) \in Seq(CacheEntry) /\ OneEntryEach(Evict(s))
         /\ Len(Evict(s)) <= MaxSize
         /\ Range(Evict(s)) \subseteq Range(s) /\ \A e \in Range(Evict(s)) : ~Expired(e)
         /\ Len(Evict(s)) = MaxSize \/ Range(Evict(s)) = {e \in Range(s) : ~Expired(e)}
         /\ \A i, j \in DOMAIN s : i < j /\ s[i] \in Range(Evict(s)) /\ ~Expired(s[j]) => s[j] \in Range(Evict(s))
<1> USE CacheAssumption
<1> DEFINE A == Stale(s)
           fresh == Remaining(s, A)
           extra == IF Len(fresh) > MaxSize THEN Len(fresh) - MaxSize ELSE 0
           last == SubSeq(fresh, extra + 1, Len(fresh))
<1>1. /\ fresh \in Seq(CacheEntry) /\ Range(fresh) = Range(s) \ A
      /\ IsInjective(fresh)
  BY RemainingQueue DEF OneEntryEach
<1>2. Evict(s) = last
  BY DEF Evict
<1> HIDE DEF A, fresh
<1>3. /\ Len(fresh) \in Nat /\ extra \in 0 .. Len(fresh) /\ MaxSize \in Nat
      /\ Len(fresh) - extra <= MaxSize
      /\ extra = 0 \/ Len(fresh) - extra = MaxSize
  BY <1>1
<1> HIDE DEF extra
<1>4. /\ last \in Seq(CacheEntry) /\ Len(last) = Len(fresh) - extra
      /\ Range(last) \subseteq Range(fresh) /\ IsInjective(last)
      /\ \A i \in 1 .. Len(fresh) - extra : last[i] = fresh[i + extra]
      /\ extra = 0 => last = fresh
  BY <1>1, <1>3, LastOnes
<1> HIDE DEF last
<1>5. OneEntryEach(last)
  BY <1>1, <1>4 DEF OneEntryEach
<1>6. \A e \in Range(s) : e \in A <=> Expired(e)
  BY DEF A, Stale
<1>7. ASSUME NEW i \in DOMAIN s, NEW j \in DOMAIN s, i < j, s[i] \in Range(last), s[j] \notin A
      PROVE  s[j] \in Range(last)
  <2>1. s[i] \notin A
    BY <1>1, <1>4, <1>7
  <2>2. PICK a \in 1 .. Len(fresh), b \in 1 .. Len(fresh) : a < b /\ fresh[a] = s[i] /\ fresh[b] = s[j]
    BY <1>7, <2>1, RemainingOrdered DEF fresh
  <2>3. PICK n \in 1 .. Len(fresh) - extra : last[n] = s[i]
    BY <1>4, <1>7 DEF Range
  <2>4. fresh[n + extra] = fresh[a] /\ n + extra \in 1 .. Len(fresh)
    BY <1>3, <1>4, <2>2, <2>3
  <2>5. n + extra = a
    BY <1>1, <2>4 DEF IsInjective
  <2>6. b - extra \in 1 .. Len(fresh) - extra /\ b - extra + extra = b
    BY <1>3, <2>2, <2>5
  <2>7. last[b - extra] = s[j]
    BY <1>4, <2>2, <2>6
  <2> QED
    BY <1>4, <2>6, <2>7 DEF Range
<1>8. \A j \in DOMAIN s : s[j] \in Range(s)
  BY DEF Range
<1>9. \A i, j \in DOMAIN s : i < j /\ s[i] \in Range(last) /\ ~Expired(s[j]) => s[j] \in Range(last)
  BY <1>6, <1>7, <1>8
<1> QED
  BY <1>1, <1>2, <1>3, <1>4, <1>5, <1>6, <1>9

\* The entries that set() hands to evict(): what was there in its place, k's with a new
\* time to live, or k's at the end.
LEMMA PutFacts ==
  ASSUME CacheInv, NEW k \in Key, NEW ttl \in Nat, Put(k, ttl)
  PROVE  \E s \in Seq(CacheEntry) :
           /\ OneEntryEach(s) /\ store' = Evict(s)
           /\ \A i \in DOMAIN store :
                /\ i \in DOMAIN s /\ s[i].key = store[i].key
                /\ ~Expired(store[i]) => ~Expired(s[i])
<1> DEFINE entry == [key |-> k, expiresAt |-> clock + ttl]
<1>1. /\ store \in Seq(CacheEntry) /\ OneEntryEach(store) /\ clock \in Nat
      /\ DOMAIN store = 1 .. Len(store) /\ Len(store) \in Nat
  BY CacheFacts
<1>2. entry \in CacheEntry /\ entry.key = k /\ ~Expired(entry)
  BY <1>1 DEF CacheEntry, Expired
<1> HIDE DEF entry
<1>3. CASE k \in Keys
  <2> DEFINE s == [i \in DOMAIN store |-> IF store[i].key = k THEN entry ELSE store[i]]
  <2>1. s \in Seq(CacheEntry) /\ DOMAIN s = DOMAIN store
    BY <1>1, <1>2
  <2>2. store' = Evict(s)
    BY <1>3 DEF Put, entry
  <2>3. [i \in DOMAIN s |-> s[i].key] = [i \in DOMAIN store |-> store[i].key]
    BY <1>2, <2>1
  <2>4. \A i \in DOMAIN store : s[i] = IF store[i].key = k THEN entry ELSE store[i]
    OBVIOUS
  <2> HIDE DEF s
  <2>5. OneEntryEach(s)
    BY <1>1, <2>1, <2>3, EntriesByKey
  <2>6. \A i \in DOMAIN store : s[i].key = store[i].key /\ (~Expired(store[i]) => ~Expired(s[i]))
    BY <1>2, <2>4
  <2> QED
    BY <2>1, <2>2, <2>5, <2>6
<1>4. CASE k \notin Keys
  <2> DEFINE s == Append(store, entry)
  <2>1. entry \notin Range(store) /\ \A e \in Range(store) : e.key # k
    BY <1>2, <1>4 DEF Keys, Range
  <2>2. s \in Seq(CacheEntry) /\ IsInjective(s) /\ Range(s) = Range(store) \cup {entry}
    BY <1>1, <1>2, <2>1, AppendQueue DEF OneEntryEach
  <2>3. store' = Evict(s)
    BY <1>4 DEF Put, entry
  <2>4. \A i \in DOMAIN store : i \in DOMAIN s /\ s[i] = store[i]
    BY <1>1, <1>2
  <2> HIDE DEF s
  <2>5. OneEntryEach(s)
    BY <1>1, <1>2, <2>1, <2>2 DEF OneEntryEach
  <2> QED
    BY <2>2, <2>3, <2>4, <2>5
<1> QED
  BY <1>3, <1>4

\* A hit moves its entry, whole, to the end.
LEMMA HitFacts ==
  ASSUME CacheInv, NEW k \in Key, Hit(k)
  PROVE  /\ store' \in Seq(CacheEntry) /\ OneEntryEach(store') /\ Len(store') <= MaxSize
         /\ Range(store') = Range(store)
<1>1. /\ store \in Seq(CacheEntry) /\ OneEntryEach(store) /\ Len(store) \in Nat /\ Len(store) <= MaxSize
      /\ \E e \in Range(store) : e.key = k
  BY CacheFacts DEF Hit
<1>2. Entry(k) \in Range(store) /\ Entry(k).key = k
  BY <1>1 DEF Entry
<1>3. Entry(k) \in CacheEntry
  BY <1>1, <1>2 DEF Range
<1>4. /\ Without(k) \in Seq(CacheEntry) /\ OneEntryEach(Without(k)) /\ Len(Without(k)) \in Nat
      /\ Range(Without(k)) = {e \in Range(store) : e.key # k}
      /\ Len(Without(k)) < Len(store)
  BY WithoutFacts DEF Hit
<1>5. Entry(k) \notin Range(Without(k))
  BY <1>2, <1>4
<1>6. /\ store' \in Seq(CacheEntry) /\ Len(store') = Len(Without(k)) + 1 /\ IsInjective(store')
      /\ Range(store') = Range(Without(k)) \cup {Entry(k)}
  BY <1>3, <1>4, <1>5, AppendQueue DEF Hit, OneEntryEach
<1>7. \A e \in Range(store) : e.key = k => e = Entry(k)
  BY <1>1, <1>2 DEF OneEntryEach
<1>8. Range(store') = Range(store)
  BY <1>2, <1>4, <1>6, <1>7
<1> QED
  BY <1>1, <1>4, <1>6, <1>8, CacheAssumption DEF OneEntryEach

\* What becomes of the entries in a step that changes the store.
CacheStep ==
  /\ store' \in Seq(CacheEntry) /\ OneEntryEach(store') /\ Len(store') <= MaxSize
  /\ \A k \in Key :
       Holds(k) /\ (\A n \in DOMAIN store' : store'[n].key # k) =>
         \/ Delete(k) \/ Clear
         \/ /\ Len(store') = MaxSize
            /\ \A n \in DOMAIN store' : clock <= store'[n].expiresAt
            /\ \A i, j \in DOMAIN store :
                 i < j /\ store[j].key = k => \A n \in DOMAIN store' : store'[n].key # store[i].key

LEMMA EvictStep ==
  ASSUME CacheInv, NEW s \in Seq(CacheEntry), OneEntryEach(s), store' = Evict(s),
         \A i \in DOMAIN store :
           i \in DOMAIN s /\ s[i].key = store[i].key /\ (~Expired(store[i]) => ~Expired(s[i]))
  PROVE  CacheStep
<1>1. /\ store' \in Seq(CacheEntry) /\ OneEntryEach(store') /\ Len(store') <= MaxSize
      /\ Range(store') \subseteq Range(s) /\ \A e \in Range(store') : ~Expired(e)
      /\ Len(store') = MaxSize \/ Range(store') = {e \in Range(s) : ~Expired(e)}
      /\ \A i, j \in DOMAIN s : i < j /\ s[i] \in Range(store') /\ ~Expired(s[j]) => s[j] \in Range(store')
  BY EvictFacts
<1>2. \A i \in DOMAIN store' : store'[i] \in Range(store') /\ store'[i] \in CacheEntry
  BY <1>1 DEF Range
<1>3. \A i \in DOMAIN store' : clock <= store'[i].expiresAt
  BY <1>1, <1>2, CacheFacts DEF Expired, CacheEntry
<1>4. /\ OneEntryEach(store) /\ \A i \in DOMAIN store : store[i] \in Range(store)
      /\ \A i \in DOMAIN s : s[i] \in Range(s)
  BY CacheFacts DEF Range
<1>5. ASSUME NEW k \in Key, Holds(k), \A n \in DOMAIN store' : store'[n].key # k
      PROVE  /\ Len(store') = MaxSize
             /\ \A i, j \in DOMAIN store :
                  i < j /\ store[j].key = k => \A n \in DOMAIN store' : store'[n].key # store[i].key
  <2>1. \A e \in Range(store') : e.key # k
    BY <1>5 DEF Range
  <2>2. PICK h \in DOMAIN store : store[h].key = k /\ ~Expired(store[h])
    BY <1>5 DEF Holds
  <2>3. Len(store') = MaxSize
    BY <1>1, <1>4, <2>1, <2>2
  <2>4. ASSUME NEW i \in DOMAIN store, NEW j \in DOMAIN store, i < j, store[j].key = k,
               NEW n \in DOMAIN store', store'[n].key = store[i].key
        PROVE  FALSE
    <3>1. store[j] = store[h]
      BY <1>4, <2>2, <2>4 DEF OneEntryEach
    <3>2. j \in DOMAIN s /\ s[j].key = k /\ ~Expired(s[j])
      BY <2>2, <2>4, <3>1
    <3>3. i \in DOMAIN s /\ s[i].key = store[i].key
      OBVIOUS
    <3>4. store'[n] \in Range(s)
      BY <1>1, <1>2
    <3>5. store'[n] = s[i]
      BY <1>4, <2>4, <3>3, <3>4 DEF OneEntryEach
    <3>6. s[j] \in Range(store')
      BY <1>1, <1>2, <2>4, <3>2, <3>3, <3>5
    <3> QED
      BY <2>1, <3>2, <3>6
  <2> QED
    BY <2>3, <2>4
<1> QED
  BY <1>1, <1>3, <1>5 DEF CacheStep

LEMMA PutStep ==
  ASSUME CacheInv, NEW k \in Key, NEW ttl \in Nat, Put(k, ttl)
  PROVE  CacheStep
<1>1. PICK s \in Seq(CacheEntry) :
        /\ OneEntryEach(s) /\ store' = Evict(s)
        /\ \A i \in DOMAIN store :
             i \in DOMAIN s /\ s[i].key = store[i].key /\ (~Expired(store[i]) => ~Expired(s[i]))
  BY PutFacts
<1> QED
  BY <1>1, EvictStep

LEMMA MissStep ==
  ASSUME CacheInv, NEW k \in Key, store' = Without(k), ~Holds(k) \/ Delete(k)
  PROVE  CacheStep
<1>1. /\ store' \in Seq(CacheEntry) /\ OneEntryEach(store') /\ Len(store') <= MaxSize
      /\ Range(store') = {e \in Range(store) : e.key # k}
  BY WithoutFacts
<1>2. ASSUME NEW q \in Key, Holds(q), \A i \in DOMAIN store' : store'[i].key # q
      PROVE  Delete(q)
  <2>1. PICK e \in Range(store) : e.key = q
    BY <1>2, CacheFacts
  <2>2. e \notin Range(store')
    BY <1>2, <2>1 DEF Range
  <2>3. q = k
    BY <1>1, <2>1, <2>2
  <2> QED
    BY <1>2, <2>3
<1> QED
  BY <1>1, <1>2 DEF CacheStep

LEMMA HitStep ==
  ASSUME CacheInv, NEW k \in Key, Hit(k)
  PROVE  CacheStep
<1>1. /\ store' \in Seq(CacheEntry) /\ OneEntryEach(store') /\ Len(store') <= MaxSize
      /\ Range(store') = Range(store)
  BY HitFacts
<1>2. ASSUME NEW q \in Key, Holds(q) PROVE \E i \in DOMAIN store' : store'[i].key = q
  BY <1>1, <1>2, CacheFacts DEF Range
<1> QED
  BY <1>1, <1>2 DEF CacheStep

LEMMA CacheNextStep ==
  ASSUME CacheInv, CacheNext
  PROVE  store' = store \/ CacheStep
<1> USE CacheAssumption
<1>1. ASSUME NEW k \in Key, Get(k) \/ Has(k) PROVE CacheStep
  BY <1>1, HitStep, MissStep DEF Get, Has, Miss
<1>2. ASSUME NEW k \in Key, Set(k) PROVE CacheStep
  BY <1>2, PutStep DEF Set
<1>3. ASSUME NEW k \in Key, Delete(k) PROVE CacheStep
  BY <1>3, MissStep DEF Delete
<1>4. ASSUME NEW k \in Key, NEW ttl \in Ttls, SetWithTTL(k, ttl) PROVE CacheStep
  BY <1>4, PutStep DEF SetWithTTL
<1>5. ASSUME NEW k \in Key, NEW f \in Fetch, GetOrElse(f, k) PROVE CacheStep
  BY <1>5, HitStep, MissStep DEF GetOrElse, Miss
<1>6. ASSUME NEW f \in Fetch, Fetched(f) PROVE store' = store \/ CacheStep
  <2>1. fetching[f] \in Key
    BY <1>6 DEF Fetched, CacheInv, CacheTypeOK
  <2> QED
    BY <1>6, <2>1, PutStep DEF Fetched
<1>7. CASE Clear
  <2>1. store' \in Seq(CacheEntry) /\ OneEntryEach(store') /\ Len(store') <= MaxSize
    BY <1>7, EmptyQueue DEF Clear, OneEntryEach
  <2> QED
    BY <1>7, <2>1 DEF CacheStep
<1>8. CASE Size
  BY <1>8, EvictStep, CacheFacts DEF Size
<1>9. CASE ClockTicks /\ UNCHANGED cacheVars
  BY <1>9 DEF cacheVars
<1> QED
  BY <1>1, <1>2, <1>3, <1>4, <1>5, <1>6, <1>7, <1>8, <1>9 DEF CacheNext

LEMMA CacheInitInv == clock = 0 /\ CacheInit => CacheInv
<1> SUFFICES ASSUME clock = 0, CacheInit PROVE CacheInv
  OBVIOUS
<1>1. IsInjective([i \in DOMAIN store |-> store[i].key]) /\ Len(store) = 0 /\ store \in Seq(CacheEntry)
  BY DEF CacheInit, IsInjective
<1> QED
  BY <1>1, CacheAssumption DEF CacheInv, CacheTypeOK, CacheInit, CacheEntry

LEMMA CacheNextInv ==
  ASSUME CacheInv, [CacheNext]_<<cacheVars, clock>>
  PROVE  CacheInv'
<1>1. CASE UNCHANGED <<cacheVars, clock>>
  BY <1>1 DEF cacheVars, CacheInv, CacheTypeOK
<1>2. CASE CacheNext
  <2>1. clock' \in Nat /\ fetching' \in [Fetch -> Key \cup {NoKey}]
    BY <1>2 DEF CacheNext, Get, Has, Set, SetWithTTL, Delete, Clear, Size, GetOrElse, Fetched, ClockTicks, cacheVars,
                CacheInv, CacheTypeOK
  <2>2. CASE store' = store
    BY <2>1, <2>2 DEF CacheInv, CacheTypeOK
  <2>3. CASE CacheStep
    <3>1. store' \in Seq(CacheEntry) /\ Len(store') <= MaxSize
      BY <2>3 DEF CacheStep
    <3>2. IsInjective([i \in DOMAIN store' |-> store'[i].key])
      BY <2>3, EntriesByKey DEF CacheStep
    <3> QED
      BY <2>1, <3>1, <3>2 DEF CacheInv, CacheTypeOK, CacheEntry
  <2> QED
    BY <1>2, <2>2, <2>3, CacheNextStep
<1> QED
  BY <1>1, <1>2

LEMMA CacheAlwaysInv == CacheSpec => []CacheInv
BY CacheInitInv, CacheNextInv, PTL DEF CacheSpec

\* For any keys, maxSize and times to live, an entry that has not expired is lost only to
\* delete, to clear, or to make room in a cache full of entries that have not either, with
\* all that stood before it in the Map (evict).
THEOREM CacheEvictsOnlyWhenFull == CacheSpec => EvictsOnlyWhenFull
<1> DEFINE Allowed ==
      \A k \in Key :
        Holds(k) /\ (\A n \in DOMAIN store' : store'[n].key # k) =>
          \/ Delete(k) \/ Clear
          \/ /\ Len(store') = MaxSize
             /\ \A n \in DOMAIN store' : clock <= store'[n].expiresAt
             /\ \A i, j \in DOMAIN store :
                  i < j /\ store[j].key = k => \A n \in DOMAIN store' : store'[n].key # store[i].key
<1>1. ASSUME CacheInv, [CacheNext]_<<cacheVars, clock>> PROVE [Allowed]_store
  BY <1>1, CacheNextStep DEF CacheStep, cacheVars
<1>2. CacheSpec => [][Allowed]_store
  <2> HIDE DEF Allowed
  <2> QED
    BY <1>1, CacheAlwaysInv, PTL DEF CacheSpec
<1> QED
  BY <1>2 DEF EvictsOnlyWhenFull

-----------------------------------------------------------------------------
(* The channel. *)

USE ChannelAssumption

\* No call is queued twice, so that the head that leaves is gone.
ChannelInv ==
  /\ ChannelSound
  /\ IsInjective(sendWaiters)
  /\ IsInjective(receiveWaiters)

\* In the words of Range, which the lemmas about queues use.
LEMMA ChannelFacts ==
  ASSUME ChannelInv
  PROVE  /\ capacity \in Nat /\ Len(buffer) \in Nat
         /\ Iterator = {IteratorOf[r] : r \in Receiver}
         /\ \A r \in Receiver : IteratorOf[r] \in Iterator
         /\ Range(receiveWaiters) \subseteq Receiver
         /\ Range(sendWaiters) \subseteq Message
         /\ pending \in [Iterator -> SUBSET Receiver]
         /\ \A i \in Iterator : pending[i] = {r \in Range(receiveWaiters) : IteratorOf[r] = i}
BY DEF ChannelInv, ChannelSound, ChannelTypeOK, Iterator, Range

LEMMA ChannelInitInv == ChannelInit => ChannelInv
<1> SUFFICES ASSUME ChannelInit PROVE ChannelInv
  OBVIOUS
<1> USE DEF ChannelInit
<1>1. /\ <<>> \in Seq(Message) /\ <<>> \in Seq(Receiver) /\ Len(<<>>) = 0
      /\ IsInjective(<<>>) /\ Range(<<>>) = {}
  BY EmptyQueue
<1>2. ChannelTypeOK
  BY <1>1 DEF ChannelTypeOK
<1>3. NoNeedlessWait
  BY <1>1 DEF NoNeedlessWait
<1> QED
  BY <1>1, <1>2, <1>3 DEF ChannelInv, ChannelSound

-----------------------------------------------------------------------------
\* Each operation keeps the invariant.

LEMMA SendInv ==
  ASSUME ChannelInv, NEW m \in Message, Send(m)
  PROVE  ChannelInv'
<1> USE DEF ChannelInv, ChannelSound
<1>1. CASE SendClosed(m)
  <2>1. ChannelTypeOK'
    BY <1>1 DEF ChannelTypeOK, SendClosed, Settle, queues
  <2>2. NoNeedlessWait'
    BY <1>1 DEF ChannelTypeOK, NoNeedlessWait, SendClosed, Send, Settle, queues, NothingToTake
  <2> QED
    BY <1>1, <2>1, <2>2 DEF SendClosed, queues
<1>2. CASE SendToWaiter(m)
  <2> DEFINE r == Head(receiveWaiters)
  <2>1. /\ receiveWaiters' = Tail(receiveWaiters) /\ receiveWaiters \in Seq(Receiver) /\ receiveWaiters # <<>>
        /\ pending' = [pending EXCEPT ![IteratorOf[r]] = @ \ {r}]
        /\ heard' = [heard EXCEPT ![r] = m]
        /\ sent' = [sent EXCEPT ![m] = "true"]
        /\ UNCHANGED <<capacity, closed, buffer, sendWaiters, finished>>
    BY <1>2 DEF SendToWaiter, Settle, ChannelTypeOK
  <2>2. /\ Tail(receiveWaiters) \in Seq(Receiver) /\ r \in Receiver /\ r \in Range(receiveWaiters)
        /\ IsInjective(Tail(receiveWaiters)) /\ Range(Tail(receiveWaiters)) = Range(receiveWaiters) \ {r}
    BY <2>1, TailQueue
  <2> HIDE DEF r
  <2>3. pending' = [i \in Iterator |-> {q \in Range(receiveWaiters') : IteratorOf[q] = i}]
    <3>1. /\ pending = [i \in Iterator |-> {q \in Range(receiveWaiters) : IteratorOf[q] = i}]
          /\ IteratorOf[r] \in Iterator
          /\ Range(receiveWaiters') = Range(receiveWaiters) \ {r}
      BY <2>1, <2>2, ChannelFacts DEF ChannelTypeOK
    <3>2. pending' = [i \in Iterator |-> IF i = IteratorOf[r] THEN pending[i] \ {r} ELSE pending[i]]
      BY <2>1, <3>1
    <3>3. ASSUME NEW i \in Iterator
          PROVE  (IF i = IteratorOf[r] THEN pending[i] \ {r} ELSE pending[i])
                   = {q \in Range(receiveWaiters') : IteratorOf[q] = i}
      BY <3>1
    <3> QED
      BY <3>2, <3>3
  <2>4. ChannelTypeOK'
    BY <2>1, <2>2, <2>3 DEF ChannelTypeOK
  <2>5. sendWaiters = <<>> /\ sent[m] = "uncalled" /\ ~closed /\ NothingToTake
    BY <1>2 DEF SendToWaiter, Send, NoNeedlessWait, NothingToTake
  <2>6. NoNeedlessWait'
    BY <2>1, <2>5 DEF NoNeedlessWait, NothingToTake, ChannelTypeOK
  <2> QED
    BY <2>1, <2>2, <2>4, <2>6
<1>3. CASE SendBuffered(m)
  <2>1. /\ Append(buffer, m) \in Seq(Message) /\ Len(Append(buffer, m)) = Len(buffer) + 1
    BY DEF ChannelTypeOK
  <2>2. ChannelTypeOK'
    BY <1>3, <2>1 DEF ChannelTypeOK, SendBuffered, Settle
  <2>3. sendWaiters = <<>>
    BY <1>3, ChannelFacts DEF SendBuffered, HasRoom, NoNeedlessWait
  <2>4. Len(Append(buffer, m)) <= capacity
    BY <1>3, <2>1, ChannelFacts DEF SendBuffered, HasRoom
  <2>5. NoNeedlessWait'
    BY <1>3, <2>3, <2>4 DEF NoNeedlessWait, NothingToTake, ChannelTypeOK, SendBuffered, Settle, Send
  <2> QED
    BY <1>3, <2>2, <2>5 DEF SendBuffered
<1>4. CASE SendBlocked(m)
  <2>1. m \notin Range(sendWaiters)
    BY <1>4 DEF Send, NoNeedlessWait
  <2>2. /\ Append(sendWaiters, m) \in Seq(Message) /\ IsInjective(Append(sendWaiters, m))
        /\ Range(Append(sendWaiters, m)) = Range(sendWaiters) \cup {m}
    BY <2>1, AppendQueue DEF ChannelTypeOK
  <2>3. ChannelTypeOK'
    BY <1>4, <2>2 DEF ChannelTypeOK, SendBlocked, Settle
  <2>4. Len(buffer) = capacity
    BY <1>4, ChannelFacts DEF SendBlocked, HasRoom, NoNeedlessWait
  <2>5. Range(sendWaiters') = {n \in Message : sent'[n] = "blocked"}
    BY <1>4, <2>2 DEF SendBlocked, Settle, NoNeedlessWait, ChannelTypeOK
  <2>6. NoNeedlessWait'
    BY <1>4, <2>4, <2>5 DEF SendBlocked, NoNeedlessWait
  <2> QED
    BY <1>4, <2>2, <2>3, <2>6 DEF SendBlocked
<1> QED
  BY <1>1, <1>2, <1>3, <1>4 DEF Send

LEMMA NextCallInv ==
  ASSUME ChannelInv, NEW r \in Receiver, NextCall(r)
  PROVE  ChannelInv'
<1> USE DEF ChannelInv, ChannelSound
<1>1. CASE NextFinished(r)
  <2>1. ChannelTypeOK'
    BY <1>1 DEF ChannelTypeOK, NextFinished, queues
  <2>2. NoNeedlessWait'
    BY <1>1 DEF NoNeedlessWait, NextFinished, queues, NothingToTake
  <2> QED
    BY <1>1, <2>1, <2>2 DEF NextFinished, queues
<1>2. CASE NextTake(r)
  <2>1. UNCHANGED <<capacity, closed, receiveWaiters, finished, pending>>
    BY <1>2 DEF NextTake
  <2>2. receiveWaiters = <<>>
    BY <1>2 DEF NextTake, TakeDirect, TakeBuffered, NoNeedlessWait, NothingToTake
  \* The oldest blocked sender leaves its queue.
  <2>3. ASSUME sendWaiters # <<>>, sendWaiters' = Tail(sendWaiters), Settle(Head(sendWaiters), "true")
        PROVE  /\ Tail(sendWaiters) \in Seq(Message) /\ Head(sendWaiters) \in Message
               /\ IsInjective(sendWaiters') /\ ~closed /\ Len(buffer) = capacity
               /\ sent' \in [Message -> {"uncalled", "blocked", "true", "false"}]
               /\ Range(sendWaiters') = {m \in Message : sent'[m] = "blocked"}
    <3> DEFINE h == Head(sendWaiters)
    <3>1. /\ Tail(sendWaiters) \in Seq(Message) /\ h \in Message
          /\ IsInjective(Tail(sendWaiters)) /\ Range(Tail(sendWaiters)) = Range(sendWaiters) \ {h}
      BY <2>3, TailQueue DEF ChannelTypeOK
    <3> HIDE DEF h
    <3>2. sent' = [sent EXCEPT ![h] = "true"]
      BY <2>3 DEF Settle, h
    <3> QED
      BY <2>3, <3>1, <3>2 DEF NoNeedlessWait, ChannelTypeOK, h
  <2>4. CASE TakeDirect(r)
    <3>1. ChannelTypeOK'
      BY <2>1, <2>3, <2>4 DEF ChannelTypeOK, TakeDirect
    <3>2. NoNeedlessWait'
      BY <2>1, <2>2, <2>3, <2>4 DEF NoNeedlessWait, TakeDirect
    <3> QED
      BY <2>1, <2>3, <2>4, <3>1, <3>2 DEF TakeDirect
  <2>5. CASE TakeBuffered(r)
    <3>1. /\ Tail(buffer) \in Seq(Message) /\ Head(buffer) \in Message
          /\ Len(Tail(buffer)) = Len(buffer) - 1 /\ Len(buffer) \in Nat /\ capacity \in Nat
      BY <2>5, ChannelFacts DEF TakeBuffered, ChannelTypeOK
    <3>2. CASE sendWaiters = <<>> /\ buffer' = Tail(buffer) /\ UNCHANGED <<sendWaiters, sent>>
      <4>1. ChannelTypeOK'
        BY <2>1, <2>5, <3>1, <3>2 DEF ChannelTypeOK, TakeBuffered
      <4>2. NoNeedlessWait'
        BY <2>1, <2>2, <3>1, <3>2 DEF NoNeedlessWait
      <4> QED
        BY <2>1, <3>2, <4>1, <4>2
    <3>3. CASE /\ sendWaiters # <<>>
               /\ buffer' = Append(Tail(buffer), Head(sendWaiters))
               /\ sendWaiters' = Tail(sendWaiters)
               /\ Settle(Head(sendWaiters), "true")
      <4>1. /\ buffer' \in Seq(Message) /\ Len(buffer') = Len(buffer)
        BY <2>3, <3>1, <3>3
      <4>2. ChannelTypeOK'
        BY <2>1, <2>3, <2>5, <3>1, <3>3, <4>1 DEF ChannelTypeOK, TakeBuffered
      <4>3. NoNeedlessWait'
        BY <2>1, <2>2, <2>3, <3>1, <3>3, <4>1 DEF NoNeedlessWait
      <4> QED
        BY <2>1, <2>3, <3>3, <4>2, <4>3
    <3> QED
      BY <2>5, <3>2, <3>3 DEF TakeBuffered
  <2> QED
    BY <1>2, <2>4, <2>5 DEF NextTake
<1>3. CASE NextDone(r)
  <2>1. ChannelTypeOK'
    BY <1>3 DEF ChannelTypeOK, NextDone, queues
  <2>2. NoNeedlessWait'
    BY <1>3 DEF NoNeedlessWait, NextDone, queues, NothingToTake
  <2> QED
    BY <1>3, <2>1, <2>2 DEF NextDone, queues
<1>4. CASE NextWait(r)
  <2>1. /\ Append(receiveWaiters, r) \in Seq(Receiver) /\ IsInjective(Append(receiveWaiters, r))
        /\ Range(Append(receiveWaiters, r)) = Range(receiveWaiters) \cup {r}
    BY <1>4, AppendQueue DEF NextCall, Waiting, ChannelTypeOK
  <2>2. pending' = [i \in Iterator |-> {q \in Range(receiveWaiters') : IteratorOf[q] = i}]
    <3>1. /\ pending = [i \in Iterator |-> {q \in Range(receiveWaiters) : IteratorOf[q] = i}]
          /\ IteratorOf[r] \in Iterator
          /\ Range(receiveWaiters') = Range(receiveWaiters) \cup {r}
      BY <1>4, <2>1, ChannelFacts DEF ChannelTypeOK, NextWait
    <3>2. pending' = [i \in Iterator |-> IF i = IteratorOf[r] THEN pending[i] \cup {r} ELSE pending[i]]
      BY <1>4, <3>1 DEF NextWait
    <3>3. ASSUME NEW i \in Iterator
          PROVE  (IF i = IteratorOf[r] THEN pending[i] \cup {r} ELSE pending[i])
                   = {q \in Range(receiveWaiters') : IteratorOf[q] = i}
      BY <3>1
    <3> QED
      BY <3>2, <3>3
  <2>3. ChannelTypeOK'
    BY <1>4, <2>1, <2>2 DEF ChannelTypeOK, NextWait
  <2>4. NoNeedlessWait'
    BY <1>4 DEF NextWait, NoNeedlessWait, NothingToTake
  <2> QED
    BY <1>4, <2>1, <2>3, <2>4 DEF NextWait
<1> QED
  BY <1>1, <1>2, <1>3, <1>4 DEF NextCall

LEMMA ReturnInv ==
  ASSUME ChannelInv, NEW i \in Iterator, Return(i)
  PROVE  ChannelInv'
<1> USE DEF ChannelInv, ChannelSound
<1>1. /\ receiveWaiters' = Remaining(receiveWaiters, pending[i])
      /\ pending' = [pending EXCEPT ![i] = {}]
      /\ UNCHANGED <<capacity, closed, buffer, sendWaiters, sent>>
  BY DEF Return
<1>2. /\ receiveWaiters' \in Seq(Receiver) /\ IsInjective(receiveWaiters')
      /\ Range(receiveWaiters') = Range(receiveWaiters) \ pending[i]
  BY <1>1, RemainingQueue DEF ChannelTypeOK
<1>3. pending' = [j \in Iterator |-> {q \in Range(receiveWaiters') : IteratorOf[q] = j}]
  <2>1. /\ pending = [j \in Iterator |-> {q \in Range(receiveWaiters) : IteratorOf[q] = j}]
        /\ pending[i] = {q \in Range(receiveWaiters) : IteratorOf[q] = i}
    BY DEF ChannelTypeOK
  <2>2. pending' = [j \in Iterator |-> IF j = i THEN {} ELSE pending[j]]
    BY <1>1, <2>1
  <2>3. ASSUME NEW j \in Iterator
        PROVE  (IF j = i THEN {} ELSE pending[j]) = {q \in Range(receiveWaiters') : IteratorOf[q] = j}
    BY <1>2, <2>1
  <2> QED
    BY <2>2, <2>3
<1>4. /\ finished' \in [Iterator -> BOOLEAN]
      /\ heard' \in [Receiver -> Message \cup {None, Done}]
  BY DEF Return, ChannelTypeOK
<1>5. ChannelTypeOK'
  BY <1>1, <1>2, <1>3, <1>4 DEF ChannelTypeOK
<1>6. receiveWaiters' # <<>> => receiveWaiters # <<>>
  BY RemainingEmpty, <1>1
<1>7. NoNeedlessWait'
  BY <1>1, <1>6 DEF NoNeedlessWait, NothingToTake
<1> QED
  BY <1>1, <1>2, <1>5, <1>7

LEMMA CloseInv ==
  ASSUME ChannelInv, Close
  PROVE  ChannelInv'
<1> USE DEF ChannelInv, ChannelSound
<1>1. /\ <<>> \in Seq(Message) /\ <<>> \in Seq(Receiver) /\ IsInjective(<<>>) /\ Range(<<>>) = {}
  BY EmptyQueue
<1>2. pending' = [i \in Iterator |-> {q \in Range(receiveWaiters') : IteratorOf[q] = i}]
  BY <1>1, ChannelFacts DEF Close
<1>3. ChannelTypeOK'
  BY <1>1, <1>2 DEF ChannelTypeOK, Close
<1>4. Range(sendWaiters') = {m \in Message : sent'[m] = "blocked"}
  BY <1>1 DEF Close, NoNeedlessWait
<1>5. NoNeedlessWait'
  BY <1>4 DEF Close, NoNeedlessWait
<1> QED
  BY <1>1, <1>3, <1>5 DEF Close

LEMMA ChannelNextInv ==
  ASSUME ChannelInv, [ChannelNext]_channelVars
  PROVE  ChannelInv'
<1>1. CASE UNCHANGED channelVars
  BY <1>1 DEF channelVars, queues, ChannelInv, ChannelSound, ChannelTypeOK, NoNeedlessWait, NothingToTake
<1> QED
  BY <1>1, SendInv, NextCallInv, ReturnInv, CloseInv DEF ChannelNext

LEMMA ChannelAlwaysInv == ChannelSpec => []ChannelInv
BY ChannelInitInv, ChannelNextInv, PTL DEF ChannelSpec

\* Every pending next() and every blocked send() is queued, once, where its iterator or
\* its sender can find it, and none waits without need (send, next, return, close).
THEOREM ChannelIsSound == ChannelSpec => []ChannelSound
<1>1. ChannelInv => ChannelSound
  BY DEF ChannelInv
<1> QED
  BY <1>1, ChannelAlwaysInv, PTL

-----------------------------------------------------------------------------
(* The channel is a conduit. *)

\* The fate of a message, as ImplementsConduit reads it off sent.
Fate == [m \in Message |-> CASE sent[m] = "uncalled" -> "unsent"
                             [] sent[m] = "false" -> "refused"
                             [] OTHER -> "taken"]
Gone == {i \in Iterator : finished[i]}

\* A message or more is settled: what becomes of its fate.
LEMMA FateSettled ==
  ASSUME ChannelInv, NEW m \in Message, NEW fate \in {"blocked", "true", "false"}, Settle(m, fate)
  PROVE  Fate' = [Fate EXCEPT ![m] = IF fate = "false" THEN "refused" ELSE "taken"]
<1>1. /\ sent \in [Message -> {"uncalled", "blocked", "true", "false"}]
      /\ sent' = [sent EXCEPT ![m] = fate]
  BY DEF ChannelInv, ChannelSound, ChannelTypeOK, Settle
<1> QED
  BY <1>1 DEF Fate

\* A receiver that does not wait is idle, and the other way round.
LEMMA IdleMeansNotWaiting ==
  ASSUME ChannelInv, NEW r \in Receiver
  PROVE  C!Idle(r) <=> ~Waiting(r)
BY DEF C!Idle, Waiting, Range

LEMMA ConduitIterators == C!Iterator = Iterator
BY DEF C!Iterator, Iterator, Range

LEMMA ConduitFilter == \A s, A : C!Remaining(s, A) = Remaining(s, A)
BY DEF C!Remaining, Remaining

LEMMA SendIsConduitStep ==
  ASSUME ChannelInv, NEW m \in Message, Send(m)
  PROVE  C!Put(m) \/ C!Pass(m) \/ C!Refuse(m)
<1> USE DEF ChannelInv, ChannelSound
<1>0. sent[m] = "uncalled" /\ Fate[m] = "unsent"
  BY DEF Send, Fate
<1>1. CASE SendClosed(m)
  <2>1. Fate' = [Fate EXCEPT ![m] = "refused"]
    BY <1>1, FateSettled DEF SendClosed
  <2>2. C!Refuse(m)
    BY <1>0, <1>1, <2>1 DEF C!Refuse, SendClosed, queues, Fate
  <2> QED
    BY <2>2
<1>2. CASE SendToWaiter(m)
  <2>1. Fate' = [Fate EXCEPT ![m] = "taken"]
    BY <1>2, FateSettled DEF SendToWaiter
  <2>2. buffer = <<>> /\ sendWaiters = <<>>
    BY <1>2 DEF SendToWaiter, NoNeedlessWait, NothingToTake
  <2>3. buffer \o sendWaiters = <<>>
    BY <2>2
  <2>4. C!Pass(m)
    BY <1>0, <1>2, <2>1, <2>3 DEF C!Pass, SendToWaiter, Fate
  <2> QED
    BY <2>4
<1>3. CASE SendBuffered(m)
  <2>1. Fate' = [Fate EXCEPT ![m] = "taken"]
    BY <1>3, FateSettled DEF SendBuffered
  <2>2. sendWaiters = <<>> /\ buffer \in Seq(Message)
    BY <1>3, ChannelFacts DEF SendBuffered, HasRoom, NoNeedlessWait, ChannelTypeOK
  <2>3. Append(buffer, m) \o sendWaiters = Append(buffer \o sendWaiters, m)
    BY <2>2
  <2>4. C!Put(m)
    BY <1>0, <1>3, <2>1, <2>3 DEF C!Put, SendBuffered, Fate
  <2> QED
    BY <2>4
<1>4. CASE SendBlocked(m)
  <2>1. Fate' = [Fate EXCEPT ![m] = "taken"]
    BY <1>4, FateSettled DEF SendBlocked
  <2>2. buffer \o Append(sendWaiters, m) = Append(buffer \o sendWaiters, m)
    BY ConcatAppend DEF ChannelTypeOK
  <2>3. C!Put(m)
    BY <1>0, <1>4, <2>1, <2>2 DEF C!Put, SendBlocked, Fate
  <2> QED
    BY <2>3
<1> QED
  BY <1>1, <1>2, <1>3, <1>4 DEF Send

LEMMA NextIsConduitStep ==
  ASSUME ChannelInv, NEW r \in Receiver, NextCall(r)
  PROVE  C!Take(r) \/ C!Ask(r) \/ C!End(r)
<1> USE DEF ChannelInv, ChannelSound
<1>0. /\ C!Idle(r) /\ IteratorOf[r] \in Iterator
      /\ buffer \in Seq(Message) /\ sendWaiters \in Seq(Message)
      /\ NothingToTake => buffer \o sendWaiters = <<>>
  BY IdleMeansNotWaiting, ChannelFacts DEF NextCall, ChannelTypeOK, NothingToTake
<1>1. CASE NextFinished(r)
  <2>1. C!End(r)
    BY <1>0, <1>1 DEF C!End, NextFinished, queues
  <2> QED
    BY <2>1
<1>2. CASE NextTake(r)
  <2>1. ~finished[IteratorOf[r]] /\ UNCHANGED <<capacity, closed, receiveWaiters, finished, pending>>
    BY <1>2 DEF NextTake
  <2>2. ASSUME sendWaiters # <<>>, Settle(Head(sendWaiters), "true")
        PROVE  Fate' = Fate
    <3>1. Head(sendWaiters) \in Message /\ Head(sendWaiters) \in Range(sendWaiters)
      BY <1>0, <2>2, TailQueue
    <3>2. Fate' = [Fate EXCEPT ![Head(sendWaiters)] = "taken"] /\ Fate[Head(sendWaiters)] = "taken"
      BY <2>2, <3>1, FateSettled DEF NoNeedlessWait, Fate
    <3> QED
      BY <3>2 DEF Fate
  <2>3. CASE TakeDirect(r)
    <3>1. /\ buffer \o sendWaiters = sendWaiters /\ buffer' \o sendWaiters' = Tail(sendWaiters)
      BY <1>0, <2>3 DEF TakeDirect
    <3>2. Fate' = Fate
      BY <2>2, <2>3 DEF TakeDirect
    <3>3. C!Take(r)
      BY <1>0, <2>1, <2>3, <3>1, <3>2 DEF C!Take, TakeDirect, Fate
    <3> QED
      BY <3>3
  <2>4. CASE TakeBuffered(r)
    <3>1. /\ buffer \o sendWaiters # <<>> /\ Head(buffer \o sendWaiters) = Head(buffer)
          /\ Tail(buffer \o sendWaiters) = Tail(buffer) \o sendWaiters
      BY <1>0, <2>4, ConcatTail DEF TakeBuffered
    <3>2. CASE sendWaiters = <<>> /\ buffer' = Tail(buffer) /\ UNCHANGED <<sendWaiters, sent>>
      <4>1. Fate' = Fate
        BY <3>2 DEF Fate
      <4>2. C!Take(r)
        BY <1>0, <2>1, <2>4, <3>1, <3>2, <4>1 DEF C!Take, TakeBuffered, Fate
      <4> QED
        BY <4>2
    <3>3. CASE /\ sendWaiters # <<>>
               /\ buffer' = Append(Tail(buffer), Head(sendWaiters))
               /\ sendWaiters' = Tail(sendWaiters)
               /\ Settle(Head(sendWaiters), "true")
      <4>1. Fate' = Fate
        BY <2>2, <3>3
      <4>2. buffer' \o sendWaiters' = Tail(buffer) \o sendWaiters
        <5>1. Tail(buffer) \in Seq(Message)
          BY <1>0, <2>4 DEF TakeBuffered
        <5> QED
          BY <1>0, <3>3, <5>1, ConcatMove
      <4>3. C!Take(r)
        BY <1>0, <2>1, <2>4, <3>1, <4>1, <4>2 DEF C!Take, TakeBuffered, Fate
      <4> QED
        BY <4>3
    <3> QED
      BY <2>4, <3>2, <3>3 DEF TakeBuffered
  <2> QED
    BY <1>2, <2>3, <2>4 DEF NextTake
<1>3. CASE NextDone(r)
  <2>1. C!End(r)
    BY <1>0, <1>3 DEF C!End, NextDone, queues
  <2> QED
    BY <2>1
<1>4. CASE NextWait(r)
  <2>1. C!Ask(r)
    BY <1>0, <1>4 DEF C!Ask, NextWait
  <2> QED
    BY <2>1
<1> QED
  BY <1>1, <1>2, <1>3, <1>4 DEF NextCall

LEMMA ReturnIsConduitStep ==
  ASSUME ChannelInv, NEW i \in Iterator, Return(i)
  PROVE  C!Abandon(i)
<1> USE DEF ChannelInv, ChannelSound
<1> DEFINE A == {r \in Receiver : IteratorOf[r] = i}
<1>1. /\ receiveWaiters \in Seq(Receiver)
      /\ pending[i] = {r \in Range(receiveWaiters) : IteratorOf[r] = i}
      /\ Range(receiveWaiters) \subseteq Receiver
  BY ChannelFacts DEF ChannelTypeOK
<1>2. receiveWaiters' = C!Remaining(receiveWaiters, A)
  <2>1. \A j \in 1 .. Len(receiveWaiters) : receiveWaiters[j] \in pending[i] <=> receiveWaiters[j] \in A
    BY <1>1 DEF Range
  <2> HIDE DEF A
  <2>2. Remaining(receiveWaiters, pending[i]) = Remaining(receiveWaiters, A)
    BY <1>1, <2>1, RemainingSame
  <2> QED
    BY <2>2, ConduitFilter DEF Return
<1>3. heard' = [r \in Receiver |-> IF r \in A /\ ~C!Idle(r) THEN Done ELSE heard[r]]
  BY <1>1, IdleMeansNotWaiting DEF Return, Waiting
<1>4. Gone' = Gone \cup {i}
  BY DEF Return, Gone, ChannelTypeOK
<1> HIDE DEF A
<1>5. C!Dismiss(A)
  BY <1>2, <1>3 DEF C!Dismiss
<1> QED
  BY <1>4, <1>5 DEF C!Abandon, Return, Gone, A

LEMMA CloseIsConduitStep ==
  ASSUME ChannelInv, Close
  PROVE  C!Close
<1> USE DEF ChannelInv, ChannelSound
<1> DEFINE transit == buffer \o sendWaiters
           n == Len(buffer)
<1>1. /\ buffer \in Seq(Message) /\ sendWaiters \in Seq(Message) /\ receiveWaiters \in Seq(Receiver)
      /\ sent \in [Message -> {"uncalled", "blocked", "true", "false"}]
      /\ transit \in Seq(Message) /\ Len(transit) = Len(buffer) + Len(sendWaiters)
      /\ n \in 0 .. Len(transit)
      /\ \A i \in 1 .. n : transit[i] = buffer[i]
      /\ \A i \in n + 1 .. Len(transit) : transit[i] = sendWaiters[i - n]
  BY DEF ChannelTypeOK
<1>2. buffer' \o sendWaiters' = SubSeq(transit, 1, n)
  <2>1. buffer' \o sendWaiters' = buffer
    BY <1>1 DEF Close
  <2>2. SubSeq(transit, 1, n) \in Seq(Message) /\ Len(SubSeq(transit, 1, n)) = n
        /\ \A i \in 1 .. n : SubSeq(transit, 1, n)[i] = buffer[i]
    BY <1>1
  <2> HIDE DEF transit
  <2> QED
    BY <1>1, <2>1, <2>2, SeqEqual
<1>3. Fate' = [m \in Message |-> IF \E i \in (n + 1) .. Len(transit) : transit[i] = m
                                 THEN "refused" ELSE Fate[m]]
  <2>1. ASSUME NEW m \in Message
        PROVE  (\E i \in (n + 1) .. Len(transit) : transit[i] = m) <=> m \in Range(sendWaiters)
    <3>1. ASSUME NEW i \in (n + 1) .. Len(transit), transit[i] = m PROVE m \in Range(sendWaiters)
      BY <1>1, <3>1 DEF Range
    <3>2. ASSUME m \in Range(sendWaiters) PROVE \E i \in (n + 1) .. Len(transit) : transit[i] = m
      <4>1. PICK j \in 1 .. Len(sendWaiters) : sendWaiters[j] = m
        BY <1>1, <3>2 DEF Range
      <4>2. j + n \in (n + 1) .. Len(transit) /\ (j + n) - n = j
        BY <1>1, <4>1
      <4> QED
        BY <1>1, <4>1, <4>2
    <3> QED
      BY <3>1, <3>2
  <2>2. sent' = [m \in Message |-> IF m \in Range(sendWaiters) THEN "false" ELSE sent[m]]
    BY DEF Close
  <2> HIDE DEF transit, n
  <2> QED
    BY <2>1, <2>2 DEF Fate
<1>4. C!Dismiss(Receiver)
  <2>1. Remaining(receiveWaiters, Receiver) = <<>>
    BY <1>1, RemainingNone
  <2>2. receiveWaiters' = C!Remaining(receiveWaiters, Receiver)
    BY <2>1, ConduitFilter DEF Close
  <2>3. heard' = [r \in Receiver |-> IF r \in Receiver /\ ~C!Idle(r) THEN Done ELSE heard[r]]
    BY IdleMeansNotWaiting DEF Close
  <2> QED
    BY <2>2, <2>3 DEF C!Dismiss
<1>5. Gone' = Gone /\ closed'
  BY DEF Close, Gone
<1> QED
  BY <1>1, <1>2, <1>3, <1>4, <1>5 DEF C!Close, Fate, Gone

\* For every capacity and any callers the channel is a first-in first-out conduit:
\* nothing is lost, delivered twice or out of order, and the end is told last.
THEOREM ChannelImplementsConduit == ChannelSpec => ImplementsConduit
<1>1. ChannelInit => C!ConduitInit
  <2> SUFFICES ASSUME ChannelInit PROVE C!ConduitInit
    OBVIOUS
  <2>1. buffer \o sendWaiters = <<>>
    BY DEF ChannelInit
  <2>2. {i \in Iterator : finished[i]} = {}
    BY DEF ChannelInit
  <2>3. Fate = [m \in Message |-> "unsent"]
    BY DEF ChannelInit, Fate
  <2> QED
    BY <2>1, <2>2, <2>3 DEF ChannelInit, C!ConduitInit, Fate
<1>2. ASSUME ChannelInv, [ChannelNext]_channelVars
      PROVE  [C!ConduitNext]_C!conduitVars
  <2>1. CASE UNCHANGED channelVars
    BY <2>1 DEF channelVars, queues, C!conduitVars
  <2>2. CASE \E m \in Message : Send(m)
    BY <1>2, <2>2, SendIsConduitStep DEF C!ConduitNext
  <2>3. CASE \E r \in Receiver : NextCall(r)
    BY <1>2, <2>3, NextIsConduitStep DEF C!ConduitNext
  <2>4. CASE \E i \in Iterator : Return(i)
    BY <1>2, <2>4, ReturnIsConduitStep, ConduitIterators DEF C!ConduitNext
  <2>5. CASE Close
    BY <1>2, <2>5, CloseIsConduitStep DEF C!ConduitNext
  <2> QED
    BY <1>2, <2>1, <2>2, <2>3, <2>4, <2>5 DEF ChannelNext
<1> QED
  BY <1>1, <1>2, ChannelAlwaysInv, PTL DEF ChannelSpec, ImplementsConduit, C!ConduitSpec

-----------------------------------------------------------------------------
(* A subprocess. *)

\* The type of a command's variables, in two parts: the flags, and the others.
CommandFlags ==
  /\ killSent \in BOOLEAN /\ overflowed \in BOOLEAN /\ commandTimer \in BOOLEAN /\ timedOut \in BOOLEAN
CommandNames ==
  /\ adapter \in {"bun", "node"} /\ wants \subseteq {"stdin", "timeout"}
  /\ child \in {"none", "failed", "running", "exited", "closed"} /\ cause \in Endings
  /\ fed \in {"unused", "writing", "done", "failed"}
  /\ execAnswer \in {"none", "uncalled", "ok", "spawn", "stdin", "timeout", "signal", "overflow"}
  /\ handle \in {"none", "uncalled", "ok", "spawn"}
  /\ waits \in [Waiter -> {"unasked", "none", "ok", "spawn"}]
  /\ line \in {"uncalled", "none", "null", "text"}

\* What is not called has touched nothing: an exec that is not begun has no timer and no
\* stdin, and only a spawned child is waited for.
Untouched ==
  /\ execAnswer = "uncalled" => ~commandTimer /\ fed = "unused" /\ ~overflowed
  /\ child = "none" => execAnswer = "uncalled" /\ handle = "uncalled"
  /\ handle # "uncalled" => execAnswer = "uncalled"
  /\ handle # "ok" => \A w \in Waiter : waits[w] = "unasked"

\* execFile alone cuts output short, has no stdin to write, and kills a child for its
\* output or its time only.
OnItsPath ==
  /\ fed # "unused" => "stdin" \in wants
  /\ overflowed => Path = "execFile"
  /\ Path = "execFile" /\ killSent => timedOut \/ overflowed

CommandInv == SubprocessTypeOK /\ CommandSettled /\ Untouched /\ OnItsPath

LEMMA CommandFlagsNext == CommandFlags /\ [SubprocessNext]_subprocessVars => CommandFlags'
<1> SUFFICES ASSUME CommandFlags, [SubprocessNext]_subprocessVars PROVE CommandFlags'
  OBVIOUS
<1> USE DEF CommandFlags, execVars
<1>1. CASE Exec
  <2>1. commandTimer' \in {commandTimer, "timeout" \in wants}
    BY <1>1 DEF Exec
  <2>2. ("timeout" \in wants) \in BOOLEAN
    OBVIOUS
  <2>3. commandTimer' \in BOOLEAN
    BY <2>1, <2>2
  <2> QED
    BY <1>1, <2>3 DEF Exec
<1>2. CASE ChildExits
  BY <1>2 DEF ChildExits
<1>3. CASE ChildError
  BY <1>3 DEF ChildError
<1>4. CASE StdinWritten
  BY <1>4 DEF StdinWritten
<1>5. CASE StdinFails
  BY <1>5 DEF StdinFails
<1>6. CASE ChildCloses
  BY <1>6 DEF ChildCloses
<1>7. CASE CommandTimesOut
  BY <1>7 DEF CommandTimesOut
<1>8. CASE OutputOverflows
  BY <1>8 DEF OutputOverflows
<1>9. CASE Spawn
  BY <1>9 DEF Spawn
<1>10. CASE Started
  BY <1>10 DEF Started
<1>11. CASE SpawnedCloses
  BY <1>11 DEF SpawnedCloses
<1>12. CASE ReadLine
  BY <1>12 DEF ReadLine
<1>13. CASE LineGiven
  BY <1>13 DEF LineGiven
<1>14. CASE InputCloses
  BY <1>14 DEF InputCloses
<1>15. ASSUME NEW w \in Waiter, Wait(w) PROVE CommandFlags'
  BY <1>15 DEF Wait
<1>16. CASE UNCHANGED subprocessVars
  BY <1>16 DEF subprocessVars
<1> QED
  BY <1>1, <1>2, <1>3, <1>4, <1>5, <1>6, <1>7, <1>8, <1>9, <1>10, <1>11, <1>12, <1>13, <1>14, <1>15, <1>16 DEF SubprocessNext

LEMMA CommandNamesNext == CommandNames /\ [SubprocessNext]_subprocessVars => CommandNames'
<1> SUFFICES ASSUME CommandNames, [SubprocessNext]_subprocessVars PROVE CommandNames'
  OBVIOUS
<1> USE DEF CommandNames, Endings, spawnVars, execVars, Answer
<1>1. CASE Exec
  BY <1>1 DEF Exec
<1>2. CASE ChildExits
  BY <1>2 DEF ChildExits
<1>3. CASE ChildError
  BY <1>3 DEF ChildError
<1>4. CASE StdinWritten
  BY <1>4 DEF StdinWritten
<1>5. CASE StdinFails
  BY <1>5 DEF StdinFails
<1>6. CASE ChildCloses
  <2>1. ExecFileAnswer(cause) \in {"ok", "timeout", "overflow", "signal"}
    BY DEF ExecFileAnswer
  <2>2. execAnswer' \in {execAnswer, ExecFileAnswer(cause), "stdin", "ok"}
    BY <1>6 DEF ChildCloses
  <2> QED
    BY <1>6, <2>1, <2>2 DEF ChildCloses
<1>7. CASE CommandTimesOut
  BY <1>7 DEF CommandTimesOut
<1>8. CASE OutputOverflows
  BY <1>8 DEF OutputOverflows
<1>9. CASE Spawn
  BY <1>9 DEF Spawn
<1>10. CASE Started
  BY <1>10 DEF Started
<1>11. CASE SpawnedCloses
  <2>1. waits' \in [Waiter -> {"unasked", "none", "ok", "spawn"}]
    BY <1>11 DEF SpawnedCloses
  <2> QED
    BY <1>11, <2>1 DEF SpawnedCloses
<1>12. ASSUME NEW w \in Waiter, Wait(w) PROVE CommandNames'
  <2>1. waits' \in [Waiter -> {"unasked", "none", "ok", "spawn"}]
    BY <1>12 DEF Wait
  <2> QED
    BY <1>12, <2>1 DEF Wait
<1>13. CASE ReadLine
  BY <1>13 DEF ReadLine
<1>14. CASE LineGiven
  BY <1>14 DEF LineGiven
<1>15. CASE InputCloses
  BY <1>15 DEF InputCloses
<1>16. CASE UNCHANGED subprocessVars
  BY <1>16 DEF subprocessVars
<1> QED
  BY <1>1, <1>2, <1>3, <1>4, <1>5, <1>6, <1>7, <1>8, <1>9, <1>10, <1>11, <1>12, <1>13, <1>14, <1>15, <1>16 DEF SubprocessNext

LEMMA CommandRestNext ==
  CommandNames /\ CommandSettled /\ Untouched /\ OnItsPath /\ [SubprocessNext]_subprocessVars
    => (CommandSettled /\ Untouched /\ OnItsPath)'
<1> DEFINE Settled == CommandSettled /\ Untouched /\ OnItsPath
<1> SUFFICES ASSUME CommandNames, Settled, [SubprocessNext]_subprocessVars PROVE Settled'
  OBVIOUS
<1> USE DEF CommandNames, CommandSettled, Untouched, OnItsPath, Endings, Alive, Path, spawnVars,
            execVars, Answer
<1>1. CASE Exec
  BY <1>1 DEF Exec
<1>2. CASE ChildExits
  BY <1>2 DEF ChildExits
<1>3. CASE ChildError
  BY <1>3 DEF ChildError
<1>4. CASE StdinWritten
  BY <1>4 DEF StdinWritten
<1>5. CASE StdinFails
  BY <1>5 DEF StdinFails
<1>6. CASE ChildCloses
  BY <1>6 DEF ChildCloses, ExecFileAnswer
<1>7. CASE CommandTimesOut
  BY <1>7 DEF CommandTimesOut
<1>8. CASE OutputOverflows
  BY <1>8 DEF OutputOverflows
<1>9. CASE Spawn
  BY <1>9 DEF Spawn
<1>10. CASE Started
  BY <1>10 DEF Started
<1>11. CASE SpawnedCloses
  BY <1>11 DEF SpawnedCloses
<1>12. ASSUME NEW w \in Waiter, Wait(w) PROVE Settled'
  BY <1>12 DEF Wait
<1>13. CASE ReadLine
  BY <1>13 DEF ReadLine
<1>14. CASE LineGiven
  BY <1>14 DEF LineGiven
<1>15. CASE InputCloses
  BY <1>15 DEF InputCloses
<1>16. CASE UNCHANGED subprocessVars
  BY <1>16 DEF subprocessVars
<1> QED
  BY <1>1, <1>2, <1>3, <1>4, <1>5, <1>6, <1>7, <1>8, <1>9, <1>10, <1>11, <1>12, <1>13, <1>14, <1>15, <1>16
     DEF SubprocessNext

LEMMA CommandTypeParts == SubprocessTypeOK <=> CommandFlags /\ CommandNames
BY Zenon DEF SubprocessTypeOK, CommandFlags, CommandNames

LEMMA CommandStart == SubprocessInit => CommandInv
<1> SUFFICES ASSUME SubprocessInit PROVE CommandInv
  OBVIOUS
<1> USE DEF SubprocessInit
<1>1. CommandFlags
  BY DEF CommandFlags
<1>2. CommandNames
  BY DEF CommandNames, Endings
<1>3. CommandSettled /\ Untouched /\ OnItsPath
  BY DEF CommandSettled, Untouched, OnItsPath, Alive
<1> QED
  BY <1>1, <1>2, <1>3, CommandTypeParts DEF CommandInv

LEMMA CommandSteps == CommandInv /\ [SubprocessNext]_subprocessVars => CommandInv'
<1> SUFFICES ASSUME CommandInv, [SubprocessNext]_subprocessVars PROVE CommandInv'
  OBVIOUS
<1>1. CommandFlags /\ CommandNames
  BY CommandTypeParts DEF CommandInv
<1>2. CommandFlags' /\ CommandNames'
  BY <1>1, CommandFlagsNext, CommandNamesNext
<1>3. SubprocessTypeOK'
  BY <1>2, Zenon DEF SubprocessTypeOK, CommandFlags, CommandNames
<1> QED
  BY <1>1, <1>3, CommandRestNext DEF CommandInv

-----------------------------------------------------------------------------
(* An HTTP exchange. *)

\* The type of an exchange's variables, in three parts: the flags, the numbers, and the others.
ExchangeFlags == exceeded \in BOOLEAN /\ reported \in BOOLEAN /\ fatal \in BOOLEAN
ExchangeNumbers ==
  /\ received \in 0..MaxSent /\ enqueued \in 0..MaxSent /\ written \in Nat
  /\ head \in {0, 200, 400, 413, 500}
ExchangeNames ==
  /\ host \in Hosts
  /\ upload \in {"sending", "ended", "failed"}
  /\ body \in {"readable", "closed", "errored", "cancelled"}
  /\ handler \in {"none", "running", "answered", "failed"}
  /\ content \in {"null", "own", "echo"}
  /\ writer \in {"no", "reading", "draining", "done"}
  /\ reply \in {"open", "ended", "destroyed"}

\* A listener that puts a chunk into the stream, or closes it, finds it readable; and
\* unless the stream was given up, it has every chunk.
StreamState ==
  /\ upload = "sending" => body \in {"readable", "cancelled"} \/ (body = "errored" /\ exceeded)
  /\ enqueued <= received
  /\ ~exceeded /\ body # "cancelled" => enqueued = received
  /\ body = "closed" => upload = "ended" /\ ~exceeded

\* A response is written of what the handler answered, and not ended before; none is open
\* when the process has ended.
ResponseState ==
  /\ handler # "answered" => content = "null" /\ writer = "no"
  /\ handler = "running" \/ writer \in {"reading", "draining"} => reply # "ended"
  /\ handler = "none" /\ reply = "open" => head = 0
  /\ fatal => reply = "destroyed"

ExchangeInv == ExchangeTypeOK /\ ExchangeSound /\ StreamState /\ ResponseState

LEMMA ExchangeTypeParts == ExchangeTypeOK <=> ExchangeFlags /\ ExchangeNumbers /\ ExchangeNames
BY Zenon DEF ExchangeTypeOK, ExchangeFlags, ExchangeNumbers, ExchangeNames

LEMMA ExchangeStart == ExchangeInit => ExchangeInv
<1> SUFFICES ASSUME ExchangeInit PROVE ExchangeInv
  OBVIOUS
<1> USE DEF ExchangeInit
<1>1. ExchangeFlags
  BY DEF ExchangeFlags
<1>2. ExchangeNumbers
  BY ExchangeAssumption DEF ExchangeNumbers
<1>3. ExchangeNames
  BY DEF ExchangeNames
<1>4. MaxBody \in Nat
  BY ExchangeAssumption
<1>5. ExchangeSound /\ StreamState /\ ResponseState
  BY <1>4 DEF ExchangeSound, StreamState, ResponseState
<1> QED
  BY <1>1, <1>2, <1>3, <1>5, ExchangeTypeParts DEF ExchangeInv

LEMMA ExchangeFlagsNext == ExchangeFlags /\ [ExchangeNext]_exchangeVars => ExchangeFlags'
<1> SUFFICES ASSUME ExchangeFlags, [ExchangeNext]_exchangeVars PROVE ExchangeFlags'
  OBVIOUS
<1> USE DEF ExchangeFlags, requestVars, responseVars, SendPlain, Rejects
<1>1. CASE Refuse
  <2>1. reported' \in {reported, TRUE} /\ fatal' \in {fatal, TRUE}
    BY <1>1 DEF Refuse, BunRefuses, LambdaRefuses, ListenerThrows
  <2>2. UNCHANGED exceeded
    BY <1>1 DEF Refuse
  <2> QED
    BY <2>1, <2>2
<1>2. CASE HandlerStarts
  BY <1>2 DEF HandlerStarts
<1>3. CASE Chunk
  BY <1>3 DEF Chunk
<1>4. CASE UploadEnds
  BY <1>4 DEF UploadEnds
<1>5. CASE HandlerCancels
  BY <1>5 DEF HandlerCancels
<1>6. ASSUME NEW c \in {"null", "own", "echo"}, HandlerAnswers(c) PROVE ExchangeFlags'
  BY <1>6 DEF HandlerAnswers, BunAnswers, SendPayloadTooLarge
<1>7. CASE HandlerFails
  BY <1>7 DEF HandlerFails, BunAnswers, SendPayloadTooLarge
<1>8. CASE ReadChunk
  BY <1>8 DEF ReadChunk
<1>9. CASE ReadEnd
  BY <1>9 DEF ReadEnd
<1>10. CASE ReadError
  BY <1>10 DEF ReadError
<1>11. CASE Drained
  BY <1>11 DEF Drained
<1>12. CASE ClientHangs
  BY <1>12 DEF ClientHangs
<1>13. CASE UNCHANGED exchangeVars
  BY <1>13 DEF exchangeVars
<1> QED
  BY <1>1, <1>2, <1>3, <1>4, <1>5, <1>6, <1>7, <1>8, <1>9, <1>10, <1>11, <1>12, <1>13 DEF ExchangeNext

LEMMA ExchangeNumbersNext ==
  ExchangeNumbers /\ StreamState /\ [ExchangeNext]_exchangeVars => ExchangeNumbers'
<1> SUFFICES ASSUME ExchangeNumbers, StreamState, [ExchangeNext]_exchangeVars PROVE ExchangeNumbers'
  OBVIOUS
<1>0. MaxBody \in Nat /\ MaxSent \in Nat
  BY ExchangeAssumption
<1> USE <1>0 DEF ExchangeNumbers, requestVars, responseVars, SendPlain, Rejects
<1>1. CASE Refuse
  BY <1>1 DEF Refuse, BunRefuses, LambdaRefuses, ListenerThrows
<1>2. CASE HandlerStarts
  BY <1>2 DEF HandlerStarts
<1>3. CASE Chunk
  <2>1. received + 1 \in 0..MaxSent /\ enqueued + 1 \in 0..MaxSent
    BY <1>3 DEF Chunk, StreamState
  <2> QED
    BY <1>3, <2>1 DEF Chunk
<1>4. CASE UploadEnds
  BY <1>4 DEF UploadEnds
<1>5. CASE HandlerCancels
  BY <1>5 DEF HandlerCancels
<1>6. ASSUME NEW c \in {"null", "own", "echo"}, HandlerAnswers(c) PROVE ExchangeNumbers'
  BY <1>6 DEF HandlerAnswers, BunAnswers, SendPayloadTooLarge
<1>7. CASE HandlerFails
  BY <1>7 DEF HandlerFails, BunAnswers, SendPayloadTooLarge
<1>8. CASE ReadChunk
  BY <1>8 DEF ReadChunk, HeadAfterChunk, SendHead
<1>9. CASE ReadEnd
  BY <1>9 DEF ReadEnd, SendHead
<1>10. CASE ReadError
  BY <1>10 DEF ReadError
<1>11. CASE Drained
  BY <1>11 DEF Drained
<1>12. CASE ClientHangs
  BY <1>12 DEF ClientHangs
<1>13. CASE UNCHANGED exchangeVars
  BY <1>13 DEF exchangeVars
<1> QED
  BY <1>1, <1>2, <1>3, <1>4, <1>5, <1>6, <1>7, <1>8, <1>9, <1>10, <1>11, <1>12, <1>13 DEF ExchangeNext

LEMMA ExchangeNamesNext == ExchangeNames /\ [ExchangeNext]_exchangeVars => ExchangeNames'
<1> SUFFICES ASSUME ExchangeNames, [ExchangeNext]_exchangeVars PROVE ExchangeNames'
  OBVIOUS
<1> USE DEF ExchangeNames, requestVars, responseVars, SendPlain, Rejects
<1>1. CASE Refuse
  BY <1>1 DEF Refuse, BunRefuses, LambdaRefuses, ListenerThrows
<1>2. CASE HandlerStarts
  BY <1>2 DEF HandlerStarts
<1>3. CASE Chunk
  BY <1>3 DEF Chunk
<1>4. CASE UploadEnds
  BY <1>4 DEF UploadEnds
<1>5. CASE HandlerCancels
  BY <1>5 DEF HandlerCancels
<1>6. ASSUME NEW c \in {"null", "own", "echo"}, HandlerAnswers(c) PROVE ExchangeNames'
  BY <1>6 DEF HandlerAnswers, BunAnswers, SendPayloadTooLarge
<1>7. CASE HandlerFails
  BY <1>7 DEF HandlerFails, BunAnswers, SendPayloadTooLarge
<1>8. CASE ReadChunk
  BY <1>8 DEF ReadChunk
<1>9. CASE ReadEnd
  BY <1>9 DEF ReadEnd
<1>10. CASE ReadError
  BY <1>10 DEF ReadError
<1>11. CASE Drained
  BY <1>11 DEF Drained
<1>12. CASE ClientHangs
  BY <1>12 DEF ClientHangs, Errored
<1>13. CASE UNCHANGED exchangeVars
  BY <1>13 DEF exchangeVars
<1> QED
  BY <1>1, <1>2, <1>3, <1>4, <1>5, <1>6, <1>7, <1>8, <1>9, <1>10, <1>11, <1>12, <1>13 DEF ExchangeNext

LEMMA ExchangeRestNext ==
  ExchangeNumbers /\ ExchangeNames /\ ExchangeSound /\ StreamState /\ ResponseState /\ [ExchangeNext]_exchangeVars
    => (ExchangeSound /\ StreamState /\ ResponseState)'
<1> DEFINE Kept == ExchangeSound /\ StreamState /\ ResponseState
<1> SUFFICES ASSUME ExchangeNumbers, ExchangeNames, Kept, [ExchangeNext]_exchangeVars PROVE Kept'
  OBVIOUS
<1>0. MaxBody \in Nat /\ MaxSent \in Nat
  BY ExchangeAssumption
<1> USE <1>0 DEF ExchangeNumbers, ExchangeNames, ExchangeSound, StreamState, ResponseState, Hosts, Lambda,
        requestVars, responseVars, SendPlain, Rejects
<1>1. CASE Refuse
  <2>1. handler = "none" /\ writer = "no" /\ content = "null" /\ ~fatal
    BY <1>1 DEF Refuse
  <2>2. /\ handler' = "none" /\ writer' = "no" /\ content' = "null"
        /\ UNCHANGED <<host, received, enqueued, upload, body, exceeded>>
    BY <1>1, <2>1 DEF Refuse
  <2>3. reply' # "open" /\ (fatal' => head' = 0 /\ reply' = "destroyed")
    <3>1. head = 0
      BY <1>1 DEF Refuse
    <3>2. CASE ListenerThrows
      BY <3>1, <3>2 DEF ListenerThrows
    <3>3. CASE UNCHANGED fatal /\ reply' \in {"ended", "destroyed"}
      BY <2>1, <3>3
    <3>4. ListenerThrows \/ (UNCHANGED fatal /\ reply' \in {"ended", "destroyed"})
      BY <1>1 DEF Refuse, BunRefuses, LambdaRefuses
    <3> QED
      BY <3>2, <3>3, <3>4
  <2> QED
    BY <2>1, <2>2, <2>3
<1>2. CASE HandlerStarts
  <2>1. ~fatal
    BY <1>2 DEF HandlerStarts
  <2> QED
    BY <1>2, <2>1 DEF HandlerStarts
<1>3. CASE Chunk
  <2>1. body = "readable" \/ exceeded \/ body = "cancelled"
    BY <1>3 DEF Chunk
  <2>2. ~fatal'
    BY <1>3, <2>1 DEF Chunk
  <2>3. /\ host \notin Lambda => enqueued' <= MaxBody
        /\ StreamState'
    BY <1>3, <2>1 DEF Chunk
  <2>4. reply = "ended" /\ head = 200 /\ content = "echo" /\ writer = "done" => FALSE
    BY <1>3 DEF Chunk
  <2>5. ResponseState'
    BY <1>3, <2>2 DEF Chunk
  <2> QED
    BY <1>3, <2>2, <2>3, <2>4, <2>5 DEF Chunk
<1>4. CASE UploadEnds
  <2>1. body = "readable" \/ exceeded \/ body = "cancelled"
    BY <1>4 DEF UploadEnds
  <2>2. ~fatal'
    BY <1>4, <2>1 DEF UploadEnds
  <2>3. StreamState'
    BY <1>4, <2>1 DEF UploadEnds
  <2> QED
    BY <1>4, <2>2, <2>3 DEF UploadEnds
<1>5. CASE HandlerCancels
  BY <1>5 DEF HandlerCancels
<1>6. ASSUME NEW c \in {"null", "own", "echo"}, HandlerAnswers(c) PROVE Kept'
  <2>1. CASE host = "bun" \/ exceeded \/ host = "workers"
    <3>1. writer' = "no" /\ handler' = "answered"
      BY <1>6, <2>1 DEF HandlerAnswers
    <3> QED
      BY <1>6, <3>1 DEF HandlerAnswers
  <2>2. CASE host \in {"node"} \cup Lambda /\ ~exceeded
    <3>1. CASE c = "null"
      BY <1>6, <2>2, <3>1 DEF HandlerAnswers
    <3>2. CASE c # "null"
      <4>1. reply # "ended"
        BY <1>6, <2>2 DEF HandlerAnswers
      <4> QED
        BY <1>6, <2>2, <3>2, <4>1 DEF HandlerAnswers
    <3> QED
      BY <3>1, <3>2
  <2> QED
    BY <2>1, <2>2
<1>7. CASE HandlerFails
  BY <1>7 DEF HandlerFails, BunAnswers, SendPayloadTooLarge
<1>8. CASE ReadChunk
  BY <1>8 DEF ReadChunk, HeadAfterChunk, SendHead
<1>9. CASE ReadEnd
  BY <1>9 DEF ReadEnd, GivesEnd, SendHead
<1>10. CASE ReadError
  BY <1>10 DEF ReadError
<1>11. CASE Drained
  BY <1>11 DEF Drained
<1>12. CASE ClientHangs
  BY <1>12 DEF ClientHangs, Errored
<1>13. CASE UNCHANGED exchangeVars
  BY <1>13 DEF exchangeVars
<1> QED
  BY <1>1, <1>2, <1>3, <1>4, <1>5, <1>6, <1>7, <1>8, <1>9, <1>10, <1>11, <1>12, <1>13 DEF ExchangeNext

LEMMA ExchangeSteps == ExchangeInv /\ [ExchangeNext]_exchangeVars => ExchangeInv'
<1> SUFFICES ASSUME ExchangeInv, [ExchangeNext]_exchangeVars PROVE ExchangeInv'
  OBVIOUS
<1>1. ExchangeFlags /\ ExchangeNumbers /\ ExchangeNames
  BY ExchangeTypeParts DEF ExchangeInv
<1>2. ExchangeFlags' /\ ExchangeNumbers' /\ ExchangeNames'
  BY <1>1, ExchangeFlagsNext, ExchangeNumbersNext, ExchangeNamesNext DEF ExchangeInv
<1>3. ExchangeTypeOK'
  BY <1>2, Zenon DEF ExchangeTypeOK, ExchangeFlags, ExchangeNumbers, ExchangeNames
<1> QED
  BY <1>1, <1>3, ExchangeRestNext DEF ExchangeInv

-----------------------------------------------------------------------------
(* The state machine. *)

\* A call is of a hook or an action, of some state.
HookCall == {"onEntry", "onExit", "action"} \X STRING

MachineTyped ==
  /\ config \in MachineConfigs
  /\ state \in STRING
  /\ ctx \in Seq(HookCall)

\* A state with both hooks that was entered last is the present one.
EnteredIsPresent ==
  \A i \in 1..Len(ctx) :
    LastHookBefore(i, Len(ctx) + 1) /\ ctx[i][1] = "onEntry" /\ Hooked(ctx[i][2]) => state = ctx[i][2]

MachineInv == MachineTyped /\ EnteredIsPresent /\ HooksBracketStates

LEMMA MachineStart == MachineInit => MachineInv
BY MachineAssumption DEF MachineInit, MachineInv, MachineTyped, EnteredIsPresent, HooksBracketStates

\* A sequence of one or none.
LEMMA OneOrNone ==
  ASSUME NEW S, NEW x \in S, NEW s, s = <<>> \/ s = <<x>>
  PROVE  /\ s \in Seq(S) /\ Len(s) \in {0, 1}
         /\ \A k \in 1..Len(s) : s[k] = x
         /\ s = <<x>> => Len(s) = 1
<1>1. CASE s = <<>>
  BY <1>1
<1>2. CASE s = <<x>>
  <2>1. <<x>> \in Seq(S) /\ Len(<<x>>) = 1 /\ <<x>>[1] = x
    OBVIOUS
  <2> QED
    BY <1>2, <2>1
<1> QED
  BY <1>1, <1>2

\* The calls of a transition: none but the source's exit and action and the target's entry,
\* the exit first, the entry last, and the action right after the exit.
LEMMA HooksFacts ==
  ASSUME MachineTyped, NEW e, CanTransition(state, e)
  PROVE  LET entry == OwnTransitions(state)[e]
             h == Hooks(state, entry)
         IN  /\ entry.target \in STRING
             /\ h \in Seq(HookCall)
             /\ \A k \in 1..Len(h) :
                  \/ h[k] = <<"onExit", state>> /\ k = 1
                  \/ h[k] = <<"action", state>> /\ (Hooked(state) => k = 2)
                  \/ h[k] = <<"onEntry", entry.target>> /\ k = Len(h)
             /\ Hooked(state) => Len(h) >= 1 /\ h[1] = <<"onExit", state>>
             /\ Hooked(entry.target) => Len(h) >= 1 /\ h[Len(h)] = <<"onEntry", entry.target>>
<1> DEFINE entry == OwnTransitions(state)[e]
           target == entry.target
           leaving == Hook(state, "onExit")
           acting == IF entry.action THEN <<<<"action", state>>>> ELSE <<>>
           entering == Hook(target, "onEntry")
           h == (leaving \o acting) \o entering
<1>1. target \in STRING
  BY MachineAssumption DEF CanTransition, OwnTransitions, MachineTyped
<1>2. Hooks(state, entry) = h
  BY DEF Hooks
<1>3. /\ leaving \in Seq(HookCall) /\ Len(leaving) \in {0, 1}
      /\ \A k \in 1..Len(leaving) : leaving[k] = <<"onExit", state>>
      /\ Hooked(state) => Len(leaving) = 1
  <2> DEFINE x == <<"onExit", state>>
  <2>1. x \in HookCall
    BY DEF HookCall, MachineTyped
  <2>2. (leaving = <<>> \/ leaving = <<x>>) /\ (Hooked(state) => leaving = <<x>>)
    BY DEF Hook, Hooked
  <2> HIDE DEF x, leaving
  <2>3. /\ leaving \in Seq(HookCall) /\ Len(leaving) \in {0, 1}
        /\ \A k \in 1..Len(leaving) : leaving[k] = x
        /\ leaving = <<x>> => Len(leaving) = 1
    BY <2>1, <2>2, OneOrNone
  <2> QED
    BY <2>2, <2>3 DEF x
<1>4. /\ acting \in Seq(HookCall) /\ Len(acting) \in {0, 1}
      /\ \A k \in 1..Len(acting) : acting[k] = <<"action", state>>
  <2> DEFINE x == <<"action", state>>
  <2>1. x \in HookCall
    BY DEF HookCall, MachineTyped
  <2>2. acting = <<>> \/ acting = <<x>>
    OBVIOUS
  <2> HIDE DEF x, acting
  <2>3. /\ acting \in Seq(HookCall) /\ Len(acting) \in {0, 1}
        /\ \A k \in 1..Len(acting) : acting[k] = x
    BY <2>1, <2>2, OneOrNone
  <2> QED
    BY <2>3 DEF x
<1>5. /\ entering \in Seq(HookCall) /\ Len(entering) \in {0, 1}
      /\ \A k \in 1..Len(entering) : entering[k] = <<"onEntry", target>>
      /\ Hooked(target) => Len(entering) = 1
  <2> DEFINE x == <<"onEntry", target>>
  <2>1. x \in HookCall
    BY <1>1 DEF HookCall
  <2>2. (entering = <<>> \/ entering = <<x>>) /\ (Hooked(target) => entering = <<x>>)
    BY DEF Hook, Hooked
  <2> HIDE DEF x, entering
  <2>3. /\ entering \in Seq(HookCall) /\ Len(entering) \in {0, 1}
        /\ \A k \in 1..Len(entering) : entering[k] = x
        /\ entering = <<x>> => Len(entering) = 1
    BY <2>1, <2>2, OneOrNone
  <2> QED
    BY <2>2, <2>3 DEF x
<1> HIDE DEF entry, leaving, acting, entering
<1>6. /\ leaving \o acting \in Seq(HookCall) /\ Len(leaving \o acting) = Len(leaving) + Len(acting)
      /\ \A k \in 1..(Len(leaving) + Len(acting)) : (leaving \o acting)[k] = IF k <= Len(leaving) THEN leaving[k] ELSE acting[k - Len(leaving)]
  BY <1>3, <1>4, ConcatProperties
<1>7. /\ h \in Seq(HookCall) /\ Len(h) = Len(leaving \o acting) + Len(entering)
      /\ \A k \in 1..(Len(leaving \o acting) + Len(entering)) :
           h[k] = IF k <= Len(leaving \o acting) THEN (leaving \o acting)[k] ELSE entering[k - Len(leaving \o acting)]
  BY <1>5, <1>6, ConcatProperties
<1> HIDE DEF h
<1>8. /\ h \in Seq(HookCall) /\ Len(h) = Len(leaving) + Len(acting) + Len(entering)
      /\ \A k \in 1..Len(h) : h[k] = IF k <= Len(leaving) THEN leaving[k]
                                     ELSE IF k <= Len(leaving) + Len(acting) THEN acting[k - Len(leaving)]
                                     ELSE entering[k - (Len(leaving) + Len(acting))]
  BY <1>3, <1>4, <1>5, <1>6, <1>7
<1>9. \A k \in 1..Len(h) :
        \/ h[k] = <<"onExit", state>> /\ k = 1
        \/ h[k] = <<"action", state>> /\ (Hooked(state) => k = 2)
        \/ h[k] = <<"onEntry", target>> /\ k = Len(h)
  <2> TAKE k \in 1..Len(h)
  <2>1. CASE k <= Len(leaving)
    BY <1>3, <1>8, <2>1
  <2>2. CASE k > Len(leaving) /\ k <= Len(leaving) + Len(acting)
    BY <1>3, <1>4, <1>8, <2>2
  <2>3. CASE k > Len(leaving) + Len(acting)
    BY <1>3, <1>4, <1>5, <1>8, <2>3
  <2> QED
    BY <1>3, <1>4, <1>8, <2>1, <2>2, <2>3
<1>10. Hooked(state) => Len(h) >= 1 /\ h[1] = <<"onExit", state>>
  <2> SUFFICES ASSUME Hooked(state) PROVE Len(h) >= 1 /\ h[1] = <<"onExit", state>>
    OBVIOUS
  <2>1. Len(leaving) = 1 /\ leaving[1] = <<"onExit", state>>
    BY <1>3
  <2>2. Len(h) >= 1 /\ h[1] = leaving[1]
    BY <1>4, <1>5, <1>8, <2>1
  <2> QED
    BY <2>1, <2>2
<1>11. Hooked(target) => Len(h) >= 1 /\ h[Len(h)] = <<"onEntry", target>>
  <2> SUFFICES ASSUME Hooked(target) PROVE Len(h) >= 1 /\ h[Len(h)] = <<"onEntry", target>>
    OBVIOUS
  <2>1. Len(entering) = 1 /\ 1 \in 1..Len(entering)
    BY <1>5
  <2>5. entering[1] = <<"onEntry", target>>
    BY <1>5, <2>1
  <2>2. Len(leaving) \in Nat /\ Len(acting) \in Nat
    BY <1>3, <1>4
  <2>3. Len(h) = Len(leaving) + Len(acting) + 1
    BY <1>8, <2>1
  <2>4. h[Len(h)] = entering[1]
    BY <1>8, <2>2, <2>3
  <2> QED
    BY <1>4, <2>2, <2>3, <2>4, <2>5
<1> QED
  BY <1>1, <1>2, <1>8, <1>9, <1>10, <1>11 DEF entry

\* A transition keeps the calls bracketed.
LEMMA TransitionKeeps ==
  ASSUME MachineInv, NEW target \in STRING, NEW h \in Seq(HookCall),
         NEW n \in Nat, NEW m \in Nat, n = Len(ctx), m = Len(h),
         \A k \in 1..Len(h) :
           \/ h[k] = <<"onExit", state>> /\ k = 1
           \/ h[k] = <<"action", state>> /\ (Hooked(state) => k = 2)
           \/ h[k] = <<"onEntry", target>> /\ k = Len(h),
         Hooked(state) => Len(h) >= 1 /\ h[1] = <<"onExit", state>>,
         Hooked(target) => Len(h) >= 1 /\ h[Len(h)] = <<"onEntry", target>>,
         state' = target, ctx' = ctx \o h, config' = config
  PROVE  MachineInv'
<1>1. /\ ctx \in Seq(HookCall)
      /\ ctx' \in Seq(HookCall) /\ Len(ctx') = n + m
      /\ \A i \in 1..(n + m) : ctx'[i] = IF i <= n THEN ctx[i] ELSE h[i - n]
  BY ConcatProperties, LenProperties DEF MachineInv, MachineTyped
<1>2. \A s : Hooked(s)' <=> Hooked(s)
  BY DEF Hooked
<1>3. MachineTyped'
  BY <1>1 DEF MachineInv, MachineTyped
\* What the old calls and the new ones are.
<1>4. \A i \in 1..n : i \in 1..Len(ctx) /\ i \in 1..(n + m) /\ ctx'[i] = ctx[i]
  BY <1>1
<1>5. \A i \in 1..(n + m) : i > n =>
        \/ ctx'[i] = <<"onExit", state>> /\ i = n + 1
        \/ ctx'[i] = <<"action", state>> /\ (Hooked(state) => i = n + 2)
        \/ ctx'[i] = <<"onEntry", target>> /\ i = n + m
  <2> TAKE i \in 1..(n + m)
  <2> HAVE i > n
  <2> DEFINE k == i - n
  <2>1. k \in 1..Len(h) /\ ctx'[i] = h[k] /\ i = k + n /\ k \in Int
    BY <1>1
  <2> HIDE DEF k
  <2>2. \/ h[k] = <<"onExit", state>> /\ k = 1
        \/ h[k] = <<"action", state>> /\ (Hooked(state) => k = 2)
        \/ h[k] = <<"onEntry", target>> /\ k = Len(h)
    BY <2>1
  <2>3. CASE h[k] = <<"onExit", state>> /\ k = 1
    BY <2>1, <2>3
  <2>4. CASE h[k] = <<"action", state>> /\ (Hooked(state) => k = 2)
    <3>1. Hooked(state) => i = n + 2
      BY <2>1, <2>4
    <3> QED
      BY <2>1, <2>4, <3>1
  <2>5. CASE h[k] = <<"onEntry", target>> /\ k = Len(h)
    <3>1. i = n + m
      BY <2>1, <2>5
    <3> QED
      BY <2>1, <2>5, <3>1
  <2> QED
    BY <2>2, <2>3, <2>4, <2>5
<1>6. Hooked(state) => n + 1 \in 1..(n + m) /\ ctx'[n + 1] = <<"onExit", state>>
  BY <1>1
<1>7. Hooked(target) => n + m \in 1..(n + m) /\ n + m > n /\ ctx'[n + m] = <<"onEntry", target>>
  BY <1>1
\* Between an entry into a state with both hooks among the old calls, and a later hook.
<1>8. ASSUME NEW i \in 1..n, NEW j \in 1..(n + m + 1), j > n, LastHookBefore(i, j)',
             ctx[i][1] = "onEntry", Hooked(ctx[i][2])
      PROVE  state = ctx[i][2] /\ j = n + 1 /\ n + 1 \in 1..(n + m) /\ ctx'[n + 1] = <<"onExit", state>>
  <2>1. LastHookBefore(i, Len(ctx) + 1)
    BY <1>1, <1>4, <1>8 DEF LastHookBefore, IsHook
  <2>2. state = ctx[i][2]
    BY <1>8, <2>1 DEF MachineInv, EnteredIsPresent
  <2>3. n + 1 \in 1..(n + m) /\ ctx'[n + 1] = <<"onExit", state>>
    BY <1>6, <1>8, <2>2
  <2>4. IsHook(n + 1)'
    BY <2>3 DEF IsHook
  <2>5. j = n + 1
    <3>1. ~(n + 1 < j)
      <4> SUFFICES ASSUME n + 1 < j PROVE FALSE
        OBVIOUS
      <4>1. n + 1 \in (i + 1)..(j - 1)
        OBVIOUS
      <4> QED
        BY <1>8, <2>4, <4>1 DEF LastHookBefore
    <3>2. j \in Int /\ n \in Int /\ j > n
      BY <1>8
    <3> QED
      BY <3>1, <3>2, SMTT(30)
  <2> QED
    BY <2>2, <2>3, <2>5
<1>9. EnteredIsPresent'
  <2> SUFFICES ASSUME NEW i \in 1..(n + m), LastHookBefore(i, n + m + 1)',
                      ctx'[i][1] = "onEntry", Hooked(ctx'[i][2])
               PROVE  target = ctx'[i][2]
    BY <1>1, <1>2 DEF EnteredIsPresent
  <2>1. CASE i <= n
    <3>1. i \in 1..n /\ ctx'[i] = ctx[i] /\ n + m + 1 \in 1..(n + m + 1) /\ n + m + 1 > n
      BY <1>1, <1>4, <2>1
    <3>2. n + m + 1 = n + 1 /\ n + 1 \in 1..(n + m)
      BY <1>8, <3>1
    <3> QED
      BY <1>1, <3>2
  <2>2. CASE i > n
    BY <1>5, <2>2
  <2> QED
    BY <1>1, <2>1, <2>2
<1>10. ASSUME NEW i \in 1..(n + m), NEW j \in 1..(n + m), LastHookBefore(i, j)', IsHook(j)',
              ctx'[i][1] = "onEntry", Hooked(ctx'[i][2])
       PROVE  ctx'[j] = <<"onExit", ctx'[i][2]>>
  <2>1. i < j
    BY <1>10 DEF LastHookBefore
  <2>2. CASE j <= n
    <3>1. i \in 1..Len(ctx) /\ j \in 1..Len(ctx) /\ ctx'[i] = ctx[i] /\ ctx'[j] = ctx[j]
      BY <1>1, <1>4, <2>1, <2>2
    <3>2. LastHookBefore(i, j) /\ IsHook(j)
      BY <1>1, <1>4, <1>10, <2>2, <3>1 DEF LastHookBefore, IsHook
    <3> QED
      BY <1>10, <3>1, <3>2 DEF MachineInv, HooksBracketStates
  <2>3. CASE i <= n /\ j > n
    <3>1. i \in 1..n /\ ctx'[i] = ctx[i] /\ j \in 1..(n + m + 1)
      BY <1>1, <1>4, <2>3
    <3>2. state = ctx[i][2] /\ j = n + 1 /\ ctx'[n + 1] = <<"onExit", state>>
      BY <1>8, <1>10, <2>3, <3>1
    <3> QED
      BY <3>1, <3>2
  <2>4. CASE i > n
    <3>1. i = n + m
      <4>1. "onEntry" # "onExit" /\ "onEntry" # "action"
        OBVIOUS
      <4>2. ctx'[i] # <<"onExit", state>> /\ ctx'[i] # <<"action", state>>
        BY <1>10, <4>1
      <4> QED
        BY <1>5, <2>4, <4>2
    <3> QED
      BY <1>1, <2>1, <3>1
  <2> QED
    BY <1>1, <2>2, <2>3, <2>4
<1>11. ASSUME NEW i \in 1..(n + m), ctx'[i][1] = "action", Hooked(ctx'[i][2])
       PROVE  i > 1 /\ ctx'[i - 1] = <<"onExit", ctx'[i][2]>>
  <2>1. CASE i <= n
    <3>1. i \in 1..Len(ctx) /\ ctx'[i] = ctx[i]
      BY <1>1, <1>4, <2>1
    <3>2. i > 1 /\ ctx[i - 1] = <<"onExit", ctx[i][2]>>
      BY <1>11, <3>1 DEF MachineInv, HooksBracketStates
    <3>3. ctx'[i - 1] = ctx[i - 1]
      BY <1>1, <1>4, <2>1, <3>2
    <3> QED
      BY <3>1, <3>2, <3>3
  <2>2. CASE i > n
    <3>1. ctx'[i] = <<"action", state>> /\ (Hooked(state) => i = n + 2)
      BY <1>5, <1>11, <2>2
    <3>2. Hooked(state) /\ ctx'[i][2] = state
      BY <1>11, <3>1
    <3>3. i = n + 2 /\ ctx'[n + 1] = <<"onExit", state>>
      BY <1>6, <3>1, <3>2
    <3> QED
      BY <1>1, <3>2, <3>3
  <2> QED
    BY <1>1, <2>1, <2>2
<1>12. ASSUME NEW i \in 1..(n + m), LastHookBefore(i, n + m + 1)', Hooked(target)
       PROVE  ctx'[i] = <<"onEntry", target>>
  <2>1. n + m \in 1..(n + m) /\ ctx'[n + m] = <<"onEntry", target>>
    BY <1>7, <1>12
  <2>2. IsHook(n + m)'
    BY <2>1 DEF IsHook
  <2>3. i = n + m
    <3>1. i <= n + m /\ n \in Int /\ m \in Int
      OBVIOUS
    <3>2. ~(i < n + m)
      <4> SUFFICES ASSUME i < n + m PROVE FALSE
        OBVIOUS
      <4>1. n + m \in (i + 1)..((n + m + 1) - 1)
        OBVIOUS
      <4>2. \A k \in (i + 1)..((n + m + 1) - 1) : ~IsHook(k)'
        BY <1>12 DEF LastHookBefore
      <4> QED
        BY <2>2, <4>1, <4>2
    <3> QED
      BY <3>1, <3>2
  <2> QED
    BY <2>1, <2>3
<1>13. HooksBracketStates'
  BY <1>1, <1>2, <1>10, <1>11, <1>12 DEF HooksBracketStates
<1> QED
  BY <1>3, <1>9, <1>13 DEF MachineInv

LEMMA MachineSteps == MachineInv /\ [MachineNext]_machineVars => MachineInv'
<1> SUFFICES ASSUME MachineInv, [MachineNext]_machineVars PROVE MachineInv'
  OBVIOUS
<1>1. CASE UNCHANGED <<config, state, ctx>>
  BY <1>1 DEF MachineInv, MachineTyped, EnteredIsPresent, HooksBracketStates, LastHookBefore, IsHook, Hooked
<1>2. ASSUME NEW e \in Events, SendEvent(e), ~UNCHANGED <<state, ctx>> PROVE MachineInv'
  <2> DEFINE entry == OwnTransitions(state)[e]
             target == entry.target
             h == Hooks(state, entry)
  <2>1. /\ CanTransition(state, e)
        /\ state' = target /\ ctx' = ctx \o h /\ config' = config
    BY <1>2 DEF SendEvent
  <2>2. MachineTyped
    BY DEF MachineInv
  <2>3. /\ target \in STRING
        /\ h \in Seq(HookCall)
        /\ \A k \in 1..Len(h) :
             \/ h[k] = <<"onExit", state>> /\ k = 1
             \/ h[k] = <<"action", state>> /\ (Hooked(state) => k = 2)
             \/ h[k] = <<"onEntry", target>> /\ k = Len(h)
        /\ Hooked(state) => Len(h) >= 1 /\ h[1] = <<"onExit", state>>
        /\ Hooked(target) => Len(h) >= 1 /\ h[Len(h)] = <<"onEntry", target>>
    BY <2>1, <2>2, HooksFacts
  <2> HIDE DEF entry, target, h
  <2>4. Len(ctx) \in Nat /\ Len(h) \in Nat
    BY <2>2, <2>3 DEF MachineTyped
  <2> QED
    BY <2>1, <2>3, <2>4, TransitionKeeps
<1>3. ASSUME NEW e \in Events, SendEvent(e) PROVE UNCHANGED config
  BY <1>3 DEF SendEvent
<1> QED
  BY <1>1, <1>2, <1>3 DEF MachineNext, machineVars

-----------------------------------------------------------------------------
(* Parallel tasks. *)

\* The order lists the tasks that settled, each once.
ParallelTyped ==
  /\ combinator \in Parallel
  /\ settled \in [TaskId -> {"running", "ok", "err", "rejected"}]
  /\ order \in Seq(TaskId)
  /\ \A t \in TaskId : settled[t] # "running" <=> \E i \in 1..Len(order) : order[i] = t

\* What the combinators do: an answer is there as soon as a task was rejected, and else when
\* all are done.
CombinedExactly ==
  LET rejected == {t \in TaskId : settled[t] = "rejected"}
      erred    == {t \in TaskId : settled[t] = "err"}
      done     == \A t \in TaskId : settled[t] # "running"
  IN /\ combinator = "race" =>
          combined = IF order = <<>> THEN <<"pending">> ELSE <<settled[order[1]], order[1]>>
     /\ combinator # "race" /\ rejected # {} =>
          \E t \in rejected : /\ combined = <<IF combinator = "traverse" THEN "err" ELSE "rejected", t>>
                              /\ \A i \in 1..Len(order) : order[i] = t => \A j \in 1..(i - 1) : order[j] \notin rejected
     /\ combinator # "race" /\ rejected = {} =>
          /\ combined # <<"pending">> <=> done
          /\ done => \/ combined = <<"ok">> /\ (erred = {} \/ combinator = "allSettled")
                     \/ \E t \in erred : combined = <<"err", t>> /\ \A u \in erred : t <= u

ParallelInv == ParallelTyped /\ CombinedExactly

LEMMA ParallelByPosition == ParallelInv => CombinedByPosition
BY DEF ParallelInv, CombinedExactly, CombinedByPosition

LEMMA ParallelStart == TasksInit => ParallelInv
<1> SUFFICES ASSUME TasksInit PROVE ParallelInv
  OBVIOUS
<1> USE DEF TasksInit
<1>1. order = <<>> /\ Len(order) = 0 /\ 1 \in TaskId /\ \A t \in TaskId : settled[t] = "running"
  BY TasksAssumption DEF TaskId
<1>2. ParallelTyped
  BY <1>1 DEF ParallelTyped
<1> QED
  BY <1>1, <1>2 DEF ParallelInv, CombinedExactly

\* collectResults gives the Err that comes first in the list.
LEMMA CollectFirst ==
  ASSUME NEW results
  PROVE  \/ CollectResults(results) = <<"ok">> /\ \A t \in TaskId : results[t] # "err"
         \/ \E t \in TaskId : /\ CollectResults(results) = <<"err", t>> /\ results[t] = "err"
                              /\ \A u \in TaskId : results[u] = "err" => t <= u
<1> DEFINE erred == {t \in TaskId : results[t] = "err"}
           First(t) == results[t] = "err" /\ \A u \in 1..(t - 1) : results[u] # "err"
<1>1. CASE erred = {}
  BY <1>1 DEF CollectResults
<1>2. CASE erred # {}
  <2>1. erred \in SUBSET Nat /\ TaskId = 1..NumTasks /\ NumTasks \in Nat
    BY TasksAssumption DEF TaskId
  <2>2. PICK m \in erred : \A u \in erred : m <= u
    <3> HIDE DEF erred
    <3> QED
      BY <1>2, <2>1, LeastExists
  <2>3. m \in TaskId /\ First(m)
    BY <2>1, <2>2
  <2> DEFINE t == CHOOSE x \in TaskId : First(x)
  <2>4. t \in TaskId /\ First(t)
    BY <2>3
  <2>5. CollectResults(results) = <<"err", t>>
    BY <1>2 DEF CollectResults
  <2> HIDE DEF t
  <2>6. \A u \in TaskId : results[u] = "err" => t <= u
    BY <2>1, <2>4
  <2> QED
    BY <2>4, <2>5, <2>6
<1> QED
  BY <1>1, <1>2

LEMMA ParallelSteps ==
  ASSUME ParallelInv, NEW t \in TaskId, TaskSettles(t)
  PROVE  ParallelInv'
<1> DEFINE rejected == {u \in TaskId : settled[u] = "rejected"}
           n == Len(order)
<1>1. PICK r \in {"ok", "err", "rejected"} : settled' = [settled EXCEPT ![t] = r]
  BY DEF TaskSettles
<1>2. /\ settled[t] = "running" /\ UNCHANGED combinator
      /\ combined' = IF combined = <<"pending">> THEN Combined(settled', t) ELSE combined
      /\ order' = Append(order, t)
  BY DEF TaskSettles
<1>3. /\ settled' \in [TaskId -> {"running", "ok", "err", "rejected"}]
      /\ \A u \in TaskId : settled'[u] = IF u = t THEN r ELSE settled[u]
  BY <1>1 DEF ParallelInv, ParallelTyped
<1>4. n \in Nat /\ (order = <<>> <=> n = 0) /\ \A i \in 1..n : order[i] \in TaskId
  BY EmptySeq DEF ParallelInv, ParallelTyped
<1>5. /\ order' \in Seq(TaskId) /\ Len(order') = n + 1
      /\ \A i \in 1..n : order'[i] = order[i]
      /\ order'[n + 1] = t
  BY <1>2 DEF ParallelInv, ParallelTyped
<1> HIDE DEF n
<1>6. \A i \in 1..n : order[i] # t
  BY <1>2 DEF ParallelInv, ParallelTyped, n
<1>7. ParallelTyped'
  <2>1. \A u \in TaskId : settled'[u] # "running" <=> \E i \in 1..(n + 1) : order'[i] = u
    <3> TAKE u \in TaskId
    <3>1. CASE u = t
      BY <1>3, <1>4, <1>5, <3>1
    <3>2. CASE u # t
      <4>1. settled'[u] = settled[u]
        BY <1>3, <3>2
      <4>2. \A i \in 1..(n + 1) : order'[i] = u <=> i \in 1..n /\ order[i] = u
        BY <1>4, <1>5, <3>2
      <4>3. \A i \in 1..n : i \in 1..(n + 1)
        BY <1>4
      <4> QED
        BY <4>1, <4>2, <4>3 DEF ParallelInv, ParallelTyped, n
    <3> QED
      BY <3>1, <3>2
  <2> QED
    BY <1>2, <1>3, <1>5, <2>1 DEF ParallelInv, ParallelTyped
<1>8. CombinedExactly'
  <2>1. CASE combinator = "race"
    <3>1. combined = IF order = <<>> THEN <<"pending">> ELSE <<settled[order[1]], order[1]>>
      BY <2>1 DEF ParallelInv, CombinedExactly
    <3>2. order' # <<>>
      BY <1>4, <1>5, EmptySeq
    <3>3. CASE n = 0
      BY <1>2, <1>3, <1>4, <1>5, <2>1, <3>1, <3>2, <3>3 DEF Combined, CombinedExactly
    <3>4. CASE n # 0
      <4>1. 1 \in 1..n /\ order'[1] = order[1] /\ order[1] \in TaskId /\ order[1] # t
        BY <1>4, <1>5, <1>6, <3>4
      <4>2. combined # <<"pending">> /\ settled'[order[1]] = settled[order[1]]
        BY <1>3, <1>4, <3>1, <3>4, <4>1
      <4> QED
        BY <1>2, <1>4, <2>1, <3>1, <3>2, <3>4, <4>1, <4>2 DEF CombinedExactly
    <3> QED
      BY <3>3, <3>4
  <2>2. CASE combinator # "race" /\ rejected # {}
    <3>1. PICK u \in rejected :
            /\ combined = <<IF combinator = "traverse" THEN "err" ELSE "rejected", u>>
            /\ \A i \in 1..n : order[i] = u => \A j \in 1..(i - 1) : order[j] \notin rejected
      BY <2>2 DEF ParallelInv, CombinedExactly, n
    <3>2. u \in TaskId /\ u # t /\ settled'[u] = "rejected"
      BY <1>2, <1>3, <3>1
    <3>3. \A i \in 1..(n + 1) : order'[i] = u =>
            \A j \in 1..(i - 1) : order'[j] \notin {v \in TaskId : settled'[v] = "rejected"}
      <4> SUFFICES ASSUME NEW i \in 1..(n + 1), order'[i] = u, NEW j \in 1..(i - 1)
                   PROVE  order'[j] \in TaskId => settled'[order'[j]] # "rejected"
        OBVIOUS
      <4>1. i \in 1..n /\ order[i] = u
        BY <1>4, <1>5, <3>2
      <4>2. j \in 1..n /\ order'[j] = order[j] /\ order[j] \notin rejected /\ order[j] \in TaskId /\ order[j] # t
        BY <1>4, <1>5, <1>6, <3>1, <4>1
      <4> QED
        BY <1>3, <4>2
    <3>4. combined # <<"pending">>
      BY <3>1
    <3>5. combined' = combined
      BY <1>2, <3>4
    <3> QED
      BY <1>2, <1>5, <2>2, <3>1, <3>2, <3>3, <3>5 DEF CombinedExactly
  <2>3. CASE combinator # "race" /\ rejected = {}
    <3>1. combined = <<"pending">>
      BY <1>2, <2>3 DEF ParallelInv, CombinedExactly
    <3>2. combined' = Combined(settled', t)
      BY <1>2, <3>1
    <3>3. CASE r = "rejected"
      <4>1. combined' = <<IF combinator = "traverse" THEN "err" ELSE "rejected", t>>
        BY <1>3, <2>3, <3>2, <3>3 DEF Combined
      <4>2. {v \in TaskId : settled'[v] = "rejected"} = {t}
        BY <1>3, <2>3, <3>3
      <4>3. \A i \in 1..(n + 1) : order'[i] = t => \A j \in 1..(i - 1) : order'[j] # t
        <5> SUFFICES ASSUME NEW i \in 1..(n + 1), NEW j \in 1..(i - 1) PROVE order'[j] # t
          OBVIOUS
        <5>1. j \in 1..n
          BY <1>4
        <5> QED
          BY <1>5, <1>6, <5>1
      <4> QED
        BY <1>2, <1>5, <2>3, <4>1, <4>2, <4>3 DEF CombinedExactly
    <3>4. CASE r # "rejected"
      <4>1. {v \in TaskId : settled'[v] = "rejected"} = {} /\ settled'[t] # "rejected"
        BY <1>3, <2>3, <3>4
      <4>2. CASE \E u \in TaskId : settled'[u] = "running"
        <5>1. combined' = <<"pending">>
          BY <2>3, <3>2, <4>1, <4>2 DEF Combined
        <5> QED
          BY <1>2, <2>3, <4>1, <4>2, <5>1 DEF CombinedExactly
      <4>3. CASE ~\E u \in TaskId : settled'[u] = "running"
        <5>1. CASE combinator = "allSettled"
          <6>1. combined' = <<"ok">> /\ <<"ok">> # <<"pending">>
            BY <2>3, <3>2, <4>1, <4>3, <5>1 DEF Combined
          <6> QED
            BY <1>2, <2>3, <4>1, <4>3, <5>1, <6>1 DEF CombinedExactly
        <5>2. CASE combinator # "allSettled"
          <6>1. combined' = CollectResults(settled')
            BY <2>3, <3>2, <4>1, <4>3, <5>2 DEF Combined
          <6>2. \/ combined' = <<"ok">> /\ \A u \in TaskId : settled'[u] # "err"
                \/ \E u \in TaskId : /\ combined' = <<"err", u>> /\ settled'[u] = "err"
                                     /\ \A v \in TaskId : settled'[v] = "err" => u <= v
            BY <6>1, CollectFirst
          <6>3. combined' # <<"pending">>
            BY <6>2
          <6> QED
            BY <1>2, <2>3, <4>1, <4>3, <6>2, <6>3 DEF CombinedExactly
        <5> QED
          BY <5>1, <5>2
      <4> QED
        BY <4>2, <4>3
    <3> QED
      BY <3>3, <3>4
  <2> QED
    BY <2>1, <2>2, <2>3
<1> QED
  BY <1>7, <1>8 DEF ParallelInv

LEMMA ParallelStays == ASSUME ParallelInv, UNCHANGED parallelVars PROVE ParallelInv'
BY DEF parallelVars, ParallelInv, ParallelTyped, CombinedExactly

-----------------------------------------------------------------------------
(* The delays of a retry policy. *)

\* The next attempt's delay, before jitter, is not shorter, and none is beyond the cap.
LEMMA CappedGrows ==
  ASSUME NEW p \in Policies, NEW a \in 0..3
  PROVE  /\ DelayCapped(p, a) \in 0..p.maxDelay
         /\ DelayCapped(p, a) <= DelayCapped(p, a + 1)
<1>1. p \in [delay : Nat, backoff : {"fixed", "linear", "exponential"}, maxDelay : Nat, jitter : BOOLEAN]
  BY TasksAssumption
<1>2. p.delay \in Nat /\ p.maxDelay \in Nat /\ p.backoff \in {"fixed", "linear", "exponential"}
  BY <1>1
<1> DEFINE Raw(n) == IF p.backoff = "exponential" THEN p.delay * 2^n
                     ELSE IF p.backoff = "linear" THEN p.delay * (n + 1) ELSE p.delay
<1>3. \A n \in 0..4 : DelayCapped(p, n) = IF Raw(n) > p.maxDelay THEN p.maxDelay ELSE Raw(n)
  BY <1>2 DEF DelayCapped
<1>4. Raw(a) \in Nat /\ Raw(a + 1) \in Nat /\ Raw(a) <= Raw(a + 1)
  <2>1. a = 0 \/ a = 1 \/ a = 2 \/ a = 3
    OBVIOUS
  <2>2. 2^0 = 1 /\ 2^1 = 2 /\ 2^2 = 4 /\ 2^3 = 8 /\ 2^4 = 16
    OBVIOUS
  <2>3. CASE a = 0
    BY <1>2, <2>2, <2>3
  <2>4. CASE a = 1
    BY <1>2, <2>2, <2>4
  <2>5. CASE a = 2
    BY <1>2, <2>2, <2>5
  <2>6. CASE a = 3
    BY <1>2, <2>2, <2>6
  <2> QED
    BY <2>1, <2>3, <2>4, <2>5, <2>6
<1>5. a \in 0..4 /\ a + 1 \in 0..4
  OBVIOUS
<1> HIDE DEF Raw
<1> QED
  BY <1>2, <1>3, <1>4, <1>5

LEMMA DelaysDoGrow == DelaysGrow
<1> SUFFICES ASSUME NEW p \in Policies, NEW a \in 0..3
             PROVE  /\ \A d \in ComputeDelay(p, a) : d >= 0 /\ d <= p.maxDelay
                    /\ ~p.jitter => \A d \in ComputeDelay(p, a), e \in ComputeDelay(p, a + 1) : d <= e
  BY DEF DelaysGrow
<1>1. p \in [delay : Nat, backoff : {"fixed", "linear", "exponential"}, maxDelay : Nat, jitter : BOOLEAN]
  BY TasksAssumption
<1>2. p.maxDelay \in Nat /\ DelayCapped(p, a) \in 0..p.maxDelay /\ DelayCapped(p, a) <= DelayCapped(p, a + 1)
  BY <1>1, CappedGrows
<1>3. CASE p.jitter
  BY <1>2, <1>3 DEF ComputeDelay
<1>4. CASE ~p.jitter
  BY <1>2, <1>4 DEF ComputeDelay
<1> QED
  BY <1>3, <1>4

-----------------------------------------------------------------------------
(* A Lazy and one derived from it. *)

CellType  == [evaluated : BOOLEAN, thunk : BOOLEAN, disposed : BOOLEAN, value : Nat]
FrameType == [lazy : LazyName, run : Nat \ {0}, got : Nat \cup {Unread}]

LazyTyped ==
  /\ cell \in [LazyName -> CellType]
  /\ seen \in [LazyName -> SUBSET Nat]
  /\ runs \in Nat
  /\ frames \in Seq(FrameType)

\* A run that was called within another has the greater number.
RunsInOrder ==
  \A i \in 1..Len(frames) : /\ frames[i].run <= runs
                            /\ \A j \in 1..i : frames[j].run <= frames[i].run

\* What was read is the cell's value, and no run is left that could replace it.
OneValue ==
  \A c \in LazyName :
    /\ cell[c].evaluated => ~cell[c].thunk
    /\ seen[c] # {} => cell[c].evaluated /\ \A i \in 1..Len(frames) : frames[i].lazy # c
    /\ \A v \in seen[c] : seen[c] = {v} /\ (cell[c].disposed \/ cell[c].value = v)

\* No value of base is, or will be, of a later run than d.
Settled(d) ==
  /\ ~cell["base"].thunk /\ cell["base"].value <= d
  /\ \A i \in 1..Len(frames) : frames[i].lazy = "base" => frames[i].run <= d
  /\ \A b \in seen["base"] : b <= d

\* That is so of the value base answers with, and of those derived got, has, or was read to have.
Given(d) ==
  \/ cell["base"].evaluated /\ ~cell["base"].disposed /\ cell["base"].value = d
  \/ \E i \in 1..Len(frames) : frames[i].got = d /\ d > Threw
  \/ cell["derived"].value = d /\ d > Threw
  \/ d \in seen["derived"]

MadeOfSettled == \A d \in Nat : Given(d) => Settled(d)

LazyInv == LazyTyped /\ RunsInOrder /\ OneValue /\ MadeOfSettled

\* What the assignments at the end of the getter, and of dispose, change in a cell.
LEMMA CellUpdates ==
  ASSUME NEW r \in CellType, NEW v \in Nat
  PROVE  /\ [r EXCEPT !.value = v, !.thunk = FALSE, !.evaluated = TRUE] \in
              {x \in CellType : x.value = v /\ ~x.thunk /\ x.evaluated /\ x.disposed = r.disposed}
         /\ [r EXCEPT !.value = v, !.thunk = FALSE, !.disposed = TRUE] \in
              {x \in CellType : x.value = v /\ ~x.thunk /\ x.disposed /\ x.evaluated = r.evaluated}
<1> USE DEF CellType
<1>1. [r EXCEPT !.value = v, !.thunk = FALSE, !.evaluated = TRUE] \in CellType
  OBVIOUS
<1>2. [r EXCEPT !.value = v, !.thunk = FALSE, !.disposed = TRUE] \in CellType
  OBVIOUS
<1> QED
  BY <1>1, <1>2

LEMMA LazyStart == LazyInit => LazyInv
<1> SUFFICES ASSUME LazyInit PROVE LazyInv
  OBVIOUS
<1>1. NewCell \in CellType /\ ~NewCell.evaluated /\ NewCell.value = 0
  BY DEF NewCell, CellType
<1>2. /\ cell \in [LazyName -> CellType] /\ seen \in [LazyName -> SUBSET Nat] /\ runs = 0
      /\ frames \in Seq(FrameType) /\ Len(frames) = 0
      /\ \A c \in LazyName : ~cell[c].evaluated /\ cell[c].value = 0 /\ seen[c] = {}
  BY <1>1 DEF LazyInit
<1>3. "base" \in LazyName /\ "derived" \in LazyName
  BY DEF LazyName
<1> QED
  BY <1>2, <1>3 DEF LazyInv, LazyTyped, RunsInOrder, OneValue, MadeOfSettled, Given, Threw

\* A thunk is called only of a Lazy that has one, so a value of base that was handed to
\* derived is of no later run.
LEMMA CallKeeps ==
  ASSUME LazyInv, NEW c \in LazyName, ~Answers(c), CallThunk(c), UNCHANGED <<cell, seen>>
  PROVE  LazyInv'
<1> DEFINE n == Len(frames)
           f == [lazy |-> c, run |-> runs + 1, got |-> Unread]
<1>1. /\ frames \in Seq(FrameType) /\ runs \in Nat /\ n \in Nat
      /\ \A i \in 1..n : frames[i] \in FrameType
  BY DEF LazyInv, LazyTyped
<1>2. f \in FrameType /\ f.lazy = c /\ f.run = runs + 1 /\ f.got = Unread
  BY <1>1 DEF FrameType
<1>3. frames' = Append(frames, f) /\ runs' = runs + 1
  BY DEF CallThunk
<1>4. cell[c].thunk /\ ~cell[c].evaluated
  BY DEF Answers
<1> HIDE DEF f
<1>5. /\ frames' \in Seq(FrameType) /\ Len(frames') = n + 1 /\ frames'[n + 1] = f
      /\ \A i \in 1..n : frames'[i] = frames[i]
  BY <1>1, <1>2, <1>3
<1>6. /\ \A i \in 1..(n + 1) : i \in 1..n \/ i = n + 1
      /\ \A i \in 1..n : i \in 1..(n + 1) /\ frames[i].run \in Nat
  BY <1>1 DEF FrameType
<1> HIDE DEF n
<1>7. LazyTyped'
  BY <1>1, <1>3, <1>5 DEF LazyInv, LazyTyped
<1>8. RunsInOrder'
  <2>1. \A i \in 1..n : frames[i].run <= runs /\ \A j \in 1..i : frames[j].run <= frames[i].run
    BY DEF LazyInv, RunsInOrder, n
  <2>2. \A i \in 1..(n + 1) : frames'[i].run <= runs' /\ frames'[i].run <= runs + 1
    BY <1>1, <1>2, <1>3, <1>5, <1>6, <2>1
  <2>3. ASSUME NEW i \in 1..(n + 1), NEW j \in 1..i PROVE frames'[j].run <= frames'[i].run
    <3>1. CASE i = n + 1
      BY <1>1, <1>2, <1>5, <2>2, <3>1
    <3>2. CASE i \in 1..n
      <4>1. j \in 1..n
        BY <1>1, <3>2
      <4> QED
        BY <1>5, <2>1, <3>2, <4>1
    <3> QED
      BY <1>6, <3>1, <3>2
  <2> QED
    BY <1>5, <2>2, <2>3 DEF RunsInOrder
<1>9. OneValue'
  <2>1. seen[c] = {}
    BY <1>4 DEF LazyInv, OneValue
  <2>2. \A d \in LazyName : seen[d] # {} => \A i \in 1..(n + 1) : frames'[i].lazy # d
    BY <1>2, <1>5, <1>6, <2>1 DEF LazyInv, OneValue, n
  <2> QED
    BY <1>5, <2>2 DEF LazyInv, OneValue
<1>10. MadeOfSettled'
  <2> SUFFICES ASSUME NEW d \in Nat, Given(d)' PROVE Settled(d)'
    BY DEF MadeOfSettled
  <2>1. \A i \in 1..(n + 1) : frames'[i].got = d => i \in 1..n
    BY <1>2, <1>5, <1>6 DEF Unread
  <2>2. Given(d)
    BY <1>5, <2>1 DEF Given, n
  <2>3. Settled(d)
    BY <2>2 DEF LazyInv, MadeOfSettled
  <2>4. c # "base"
    BY <1>4, <2>3 DEF Settled
  <2> QED
    BY <1>2, <1>5, <1>6, <2>3, <2>4 DEF Settled, n
<1> QED
  BY <1>7, <1>8, <1>9, <1>10 DEF LazyInv

\* The frames below the innermost one stay, but that what it came to is handed to the next.
LEMMA HandDownFacts ==
  ASSUME LazyInv, frames # <<>>, NEW came \in Nat, HandDown(came)
  PROVE  LET n == Len(frames) IN
         /\ n \in Nat \ {0} /\ Innermost = frames[n] /\ Innermost \in FrameType
         /\ frames' \in Seq(FrameType) /\ Len(frames') = n - 1
         /\ \A i \in 1..(n - 1) : /\ i \in 1..n /\ frames[i] \in FrameType
                                  /\ frames'[i].lazy = frames[i].lazy /\ frames'[i].run = frames[i].run
                                  /\ frames'[i].got = frames[i].got \/ frames'[i].got = came
         /\ \/ seen' = seen
            \/ /\ n = 1 /\ came # Threw
               /\ seen' = [seen EXCEPT ![Innermost.lazy] = @ \cup {came}]
<1> DEFINE n == Len(frames)
           m == n - 1
           below == SubSeq(frames, 1, m)
           new == [below[m] EXCEPT !.got = came]
<1>1. /\ frames \in Seq(FrameType) /\ n \in Nat \ {0} /\ m \in Nat /\ m < n
      /\ \A i \in 1..n : frames[i] \in FrameType
  BY EmptySeq DEF LazyInv, LazyTyped
<1>2. /\ below \in Seq(FrameType) /\ Len(below) = m
      /\ \A i \in 1..m : below[i] = frames[i] /\ i \in 1..n
  <2> HIDE DEF n
  <2>1. 1 \in 1..n /\ m \in 0..n /\ n = Len(frames)
    BY <1>1 DEF n
  <2>2. Len(below) = m /\ \A i \in 1..m : below[i] = frames[i] /\ i \in 1..n
    BY <1>1, <2>1
  <2>3. below = [i \in 1..m |-> frames[i]]
    BY <1>1, <2>1
  <2> QED
    BY <1>1, <2>2, <2>3
<1>3. Innermost = frames[n] /\ Innermost \in FrameType
  BY <1>1 DEF Innermost
<1>4. \/ seen' = seen
      \/ /\ n = 1 /\ came # Threw
         /\ seen' = [seen EXCEPT ![Innermost.lazy] = @ \cup {came}]
  BY <1>1 DEF HandDown, Show
<1>5. frames' = below \/ (m > 0 /\ frames' = [below EXCEPT ![m] = new])
  BY DEF HandDown
<1> HIDE DEF below
<1>6. CASE frames' = below
  BY <1>1, <1>2, <1>3, <1>4, <1>6
<1>7. CASE m > 0 /\ frames' = [below EXCEPT ![m] = new]
  <2>1. below[m] \in FrameType
    BY <1>1, <1>2, <1>7
  <2>2. new \in FrameType /\ new.lazy = below[m].lazy /\ new.run = below[m].run /\ new.got = came
    BY <2>1 DEF FrameType
  <2> HIDE DEF new
  <2>3. /\ frames' \in Seq(FrameType) /\ Len(frames') = m
        /\ \A i \in 1..m : frames'[i] = IF i = m THEN new ELSE below[i]
    BY <1>1, <1>2, <1>7, <2>2
  <2> QED
    BY <1>1, <1>2, <1>3, <1>4, <2>2, <2>3
<1> QED
  BY <1>5, <1>6, <1>7

\* A frame goes, with an answer that is settled if the frame below is to get it.
LEMMA PopKeeps ==
  ASSUME LazyInv, frames # <<>>, NEW came \in Nat, HandDown(came), UNCHANGED runs,
         cell' \in [LazyName -> CellType],
         \A c \in LazyName : cell'[c].evaluated => ~cell'[c].thunk,
         \A c \in LazyName : c # Innermost.lazy => cell'[c] = cell[c],
         came # Threw => cell'[Innermost.lazy].evaluated /\ cell'[Innermost.lazy].value = came,
         came = Threw => UNCHANGED cell,
         \A d \in Nat : Settled(d) => Settled(d)',
         came # Threw => Settled(came)'
  PROVE  LazyInv'
<1> DEFINE n == Len(frames)
           c == Innermost.lazy
<1>1. /\ n \in Nat \ {0} /\ Innermost = frames[n] /\ Innermost \in FrameType
      /\ frames' \in Seq(FrameType) /\ Len(frames') = n - 1
      /\ \A i \in 1..(n - 1) : /\ i \in 1..n /\ frames[i] \in FrameType
                               /\ frames'[i].lazy = frames[i].lazy /\ frames'[i].run = frames[i].run
                               /\ frames'[i].got = frames[i].got \/ frames'[i].got = came
      /\ \/ seen' = seen
         \/ n = 1 /\ came # Threw /\ seen' = [seen EXCEPT ![c] = @ \cup {came}]
  BY HandDownFacts
<1>2. /\ c \in LazyName /\ n \in 1..n /\ frames[n].lazy = c
      /\ seen \in [LazyName -> SUBSET Nat] /\ cell \in [LazyName -> CellType]
  BY <1>1 DEF FrameType, LazyInv, LazyTyped
<1> HIDE DEF c, n
<1>3. \/ \A d \in LazyName : seen'[d] = seen[d]
      \/ /\ n = 1 /\ came # Threw /\ seen'[c] = {came}
         /\ \A d \in LazyName : d # c => seen'[d] = seen[d]
  <2>1. seen[c] = {}
    BY <1>2 DEF LazyInv, OneValue, n
  <2> QED
    BY <1>1, <1>2, <2>1
<1>4. LazyTyped'
  BY <1>1, <1>2 DEF LazyInv, LazyTyped
<1>5. RunsInOrder'
  <2>1. \A i \in 1..n : frames[i].run <= runs /\ \A j \in 1..i : frames[j].run <= frames[i].run
    BY DEF LazyInv, RunsInOrder, n
  <2>2. \A i \in 1..(n - 1) : \A j \in 1..i : j \in 1..(n - 1)
    BY <1>1
  <2> QED
    BY <1>1, <2>1, <2>2 DEF RunsInOrder
<1>6. OneValue'
  <2> SUFFICES ASSUME NEW d \in LazyName
               PROVE  /\ seen'[d] # {} => cell'[d].evaluated /\ \A i \in 1..(n - 1) : frames'[i].lazy # d
                      /\ \A v \in seen'[d] : seen'[d] = {v} /\ (cell'[d].disposed \/ cell'[d].value = v)
    BY <1>1 DEF OneValue
  <2>1. /\ seen[d] # {} => cell[d].evaluated /\ \A i \in 1..n : frames[i].lazy # d
        /\ \A v \in seen[d] : seen[d] = {v} /\ (cell[d].disposed \/ cell[d].value = v)
    BY DEF LazyInv, OneValue, n
  <2>2. CASE d # c
    <3>1. cell'[d] = cell[d] /\ seen'[d] = seen[d]
      BY <1>3, <2>2 DEF c
    <3> QED
      BY <1>1, <2>1, <3>1
  <2>3. CASE d = c
    <3>1. seen[d] = {}
      BY <1>2, <2>1, <2>3
    <3>2. CASE seen'[d] = {}
      BY <3>2
    <3>3. CASE seen'[d] # {}
      <4>1. n = 1 /\ came # Threw /\ seen'[d] = {came}
        BY <1>3, <2>3, <3>1, <3>3
      <4> QED
        BY <2>3, <4>1 DEF c
    <3> QED
      BY <3>2, <3>3
  <2> QED
    BY <2>2, <2>3
<1>7. MadeOfSettled'
  <2> SUFFICES ASSUME NEW d \in Nat, Given(d)', came # Threw => d # came PROVE Settled(d)'
    BY DEF MadeOfSettled
  <2>1. "base" \in LazyName /\ "derived" \in LazyName
    BY DEF LazyName
  <2>2. \A x \in LazyName : cell'[x] = cell[x] \/ (came # Threw /\ cell'[x].value = came)
    BY DEF c
  <2>3. \A i \in 1..(n - 1) : frames'[i].got = d /\ d > Threw => frames[i].got = d /\ i \in 1..n
    BY <1>1 DEF Threw
  <2>4. d \in seen'["derived"] => d \in seen["derived"]
    BY <1>3, <2>1
  <2>5. Given(d)
    BY <1>1, <2>1, <2>2, <2>3, <2>4 DEF Given, n
  <2> QED
    BY <2>5 DEF LazyInv, MadeOfSettled
<1> QED
  BY <1>4, <1>5, <1>6, <1>7 DEF LazyInv

\* What is handed down, and to whom, leaves what is settled settled.
LEMMA PopSettles ==
  ASSUME LazyInv, frames # <<>>, NEW came \in Nat, HandDown(came), NEW d \in Nat,
         ~cell'["base"].thunk, cell'["base"].value <= d,
         \A i \in 1..Len(frames) : frames[i].lazy = "base" => frames[i].run <= d,
         \A b \in seen["base"] : b <= d,
         Innermost.lazy = "base" => came <= d
  PROVE  Settled(d)'
<1> DEFINE n == Len(frames)
<1>1. /\ n \in Nat \ {0} /\ Len(frames') = n - 1
      /\ \A i \in 1..(n - 1) : /\ i \in 1..n
                               /\ frames'[i].lazy = frames[i].lazy /\ frames'[i].run = frames[i].run
      /\ \/ seen' = seen
         \/ seen' = [seen EXCEPT ![Innermost.lazy] = @ \cup {came}]
  BY HandDownFacts
<1>2. seen \in [LazyName -> SUBSET Nat] /\ "base" \in LazyName
  BY DEF LazyInv, LazyTyped, LazyName
<1>3. seen'["base"] = seen["base"] \/ (Innermost.lazy = "base" /\ seen'["base"] = seen["base"] \cup {came})
  BY <1>1, <1>2
<1>4. \A b \in seen'["base"] : b <= d
  BY <1>3
<1>5. \A i \in 1..Len(frames') : frames'[i].lazy = "base" => frames'[i].run <= d
  BY <1>1
<1> QED
  BY <1>4, <1>5 DEF Settled

LEMMA ReturnsKeep == LazyInv /\ ThunkReturns => LazyInv'
<1> SUFFICES ASSUME LazyInv, ThunkReturns PROVE LazyInv'
  OBVIOUS
<1> DEFINE c == Innermost.lazy
           n == Len(frames)
<1>1. frames # <<>> /\ (c = "derived" => Innermost.got > Threw) /\ UNCHANGED runs
  BY DEF ThunkReturns, UserCode
<1>2. /\ n \in Nat /\ n \in 1..n /\ Innermost = frames[n] /\ Innermost \in FrameType
      /\ cell \in [LazyName -> CellType] /\ seen \in [LazyName -> SUBSET Nat]
      /\ "base" \in LazyName /\ "derived" \in LazyName
  BY <1>1, EmptySeq DEF LazyInv, LazyTyped, Innermost, LazyName
<1>3. c \in LazyName /\ Returned \in Nat \ {0}
  BY <1>1, <1>2 DEF FrameType, Returned, Threw, Unread, LazyName
<1> PICK r \in Nat \ {0} : r = Returned
  BY <1>3
<1> DEFINE new == [cell[c] EXCEPT !.value = r, !.thunk = FALSE, !.evaluated = TRUE]
<1>4. /\ new \in CellType /\ new.value = r /\ ~new.thunk /\ new.evaluated
      /\ cell' = [cell EXCEPT ![c] = new]
  <2>1. cell[c] \in CellType
    BY <1>2, <1>3
  <2>2. cell' = [cell EXCEPT ![c] = new]
    BY DEF ThunkReturns, FinishLazy
  <2> QED
    BY <2>1, <2>2, CellUpdates
<1> HIDE DEF new
<1>10. HandDown(r)
  BY DEF ThunkReturns
<1>5. /\ cell' \in [LazyName -> CellType]
      /\ \A x \in LazyName : cell'[x] = IF x = c THEN new ELSE cell[x]
  BY <1>2, <1>3, <1>4
<1> HIDE DEF c, n
<1>6. \A x \in LazyName : cell'[x].evaluated => ~cell'[x].thunk
  BY <1>4, <1>5 DEF LazyInv, OneValue
<1>7. ASSUME NEW d \in Nat, Settled(d) PROVE Settled(d)'
  <2>1. CASE c = "base"
    <3>1. r <= d
      BY <1>2, <1>7, <2>1 DEF Settled, Returned, c, n
    <3> QED
      BY <1>1, <1>2, <1>3, <1>4, <1>10, <1>5, <1>7, <2>1, <3>1, PopSettles DEF Settled
  <2>2. CASE c # "base"
    BY <1>1, <1>2, <1>3, <1>10, <1>5, <1>7, <2>2, PopSettles DEF Settled, c
  <2> QED
    BY <2>1, <2>2
<1>8. Settled(r)'
  <2>1. CASE c = "base"
    <3>1. seen["base"] = {}
      BY <1>2, <2>1 DEF LazyInv, OneValue, c, n
    <3>2. \A i \in 1..n : frames[i].run <= r
      BY <1>2, <2>1 DEF LazyInv, RunsInOrder, Returned, c, n
    <3> QED
      BY <1>1, <1>2, <1>3, <1>4, <1>10, <1>5, <2>1, <3>1, <3>2, PopSettles DEF n
  <2>2. CASE c # "base"
    <3>1. r = Innermost.got /\ Innermost.got > Threw
      BY <1>1, <1>3, <2>2 DEF Returned, c, LazyName
    <3>2. Given(r)
      BY <1>2, <3>1 DEF Given, n
    <3> QED
      BY <1>3, <1>7, <3>2 DEF LazyInv, MadeOfSettled
  <2> QED
    BY <2>1, <2>2
<1> QED
  <2>1. \A x \in LazyName : x # Innermost.lazy => cell'[x] = cell[x]
    BY <1>5 DEF c
  <2>2. cell'[Innermost.lazy].evaluated /\ cell'[Innermost.lazy].value = r
    BY <1>3, <1>4, <1>5 DEF c
  <2> QED
    BY <1>1, <1>10, <1>5, <1>6, <1>7, <1>8, <2>1, <2>2, PopKeeps DEF Threw

LEMMA ThrowKeeps == LazyInv /\ ThunkThrows => LazyInv'
<1> SUFFICES ASSUME LazyInv, ThunkThrows PROVE LazyInv'
  OBVIOUS
<1>1. frames # <<>> /\ HandDown(Threw) /\ UNCHANGED <<cell, runs>> /\ Threw \in Nat
  BY DEF ThunkThrows, Threw
<1>2. cell' \in [LazyName -> CellType] /\ \A c \in LazyName : cell'[c].evaluated => ~cell'[c].thunk
  BY <1>1 DEF LazyInv, LazyTyped, OneValue
<1>3. ASSUME NEW d \in Nat, Settled(d) PROVE Settled(d)'
  BY <1>1, <1>3, PopSettles DEF Settled, Threw
<1> QED
  BY <1>1, <1>2, <1>3, PopKeeps

LEMMA LazyUnchanged == LazyInv /\ UNCHANGED <<cell, frames, runs, seen>> => LazyInv'
BY DEF LazyInv, LazyTyped, RunsInOrder, OneValue, MadeOfSettled, Given, Settled

LEMMA ReadKeeps ==
  ASSUME LazyInv, NEW c \in LazyName, ReadLazy(c)
  PROVE  LazyInv'
<1>1. UNCHANGED cell
  BY DEF ReadLazy
<1>2. CASE ~Answers(c)
  <2>1. CallThunk(c) /\ UNCHANGED seen
    BY <1>2 DEF ReadLazy
  <2> QED
    BY <1>1, <1>2, <2>1, CallKeeps
<1>3. CASE Answers(c) /\ UNCHANGED <<frames, runs, seen>>
  BY <1>1, <1>3, LazyUnchanged
<1>4. CASE Answers(c) /\ ~UNCHANGED <<frames, runs, seen>>
  <2>1. /\ frames = <<>> /\ UNCHANGED <<frames, runs>>
        /\ Answered(c) # Threw /\ seen' = [seen EXCEPT ![c] = @ \cup {Answered(c)}]
    BY <1>4 DEF ReadLazy, Show
  <2> DEFINE v == cell[c].value
  <2>2. /\ cell[c].evaluated /\ ~cell[c].disposed /\ Answered(c) = v /\ v \in Nat /\ v > Threw
        /\ seen \in [LazyName -> SUBSET Nat] /\ Len(frames) = 0
    BY <2>1 DEF Answered, LazyInv, LazyTyped, CellType, Threw
  <2>3. \A u \in seen[c] : u = v
    BY <2>2 DEF LazyInv, OneValue
  <2>4. seen'[c] = {v} /\ \A d \in LazyName : d # c => seen'[d] = seen[d]
    BY <2>1, <2>2, <2>3
  <2> HIDE DEF v
  <2>5. LazyTyped' /\ RunsInOrder'
    BY <1>1, <2>1, <2>2 DEF LazyInv, LazyTyped, RunsInOrder
  <2>6. OneValue'
    <3> SUFFICES ASSUME NEW d \in LazyName
                 PROVE  /\ cell[d].evaluated => ~cell[d].thunk
                        /\ seen'[d] # {} => cell[d].evaluated
                        /\ \A u \in seen'[d] : seen'[d] = {u} /\ (cell[d].disposed \/ cell[d].value = u)
      BY <1>1, <2>1, <2>2 DEF OneValue
    <3>1. CASE d = c
      BY <2>2, <2>4, <3>1 DEF LazyInv, OneValue, v
    <3>2. CASE d # c
      BY <2>4, <3>2 DEF LazyInv, OneValue
    <3> QED
      BY <3>1, <3>2
  <2>7. MadeOfSettled'
    <3> SUFFICES ASSUME NEW d \in Nat, Given(d)' PROVE Settled(d)'
      BY DEF MadeOfSettled
    <3>1. "base" \in LazyName /\ "derived" \in LazyName
      BY DEF LazyName
    <3>2. d \in seen'["derived"] => d \in seen["derived"] \/ (c = "derived" /\ d = v)
      BY <2>4, <3>1
    <3>3. Given(d)
      BY <1>1, <2>1, <2>2, <3>2 DEF Given, v
    <3>4. Settled(d)
      BY <3>3 DEF LazyInv, MadeOfSettled
    <3>5. c = "base" => v <= d
      BY <3>4 DEF Settled, v
    <3>6. \A b \in seen'["base"] : b <= d
      BY <2>4, <3>1, <3>4, <3>5 DEF Settled
    <3> QED
      BY <1>1, <2>1, <3>4, <3>6 DEF Settled
  <2> QED
    BY <2>5, <2>6, <2>7 DEF LazyInv
<1> QED
  BY <1>2, <1>3, <1>4

LEMMA DerivedReadKeeps == LazyInv /\ DerivedReads => LazyInv'
<1> SUFFICES ASSUME LazyInv, DerivedReads PROVE LazyInv'
  OBVIOUS
<1>1. frames # <<>> /\ Innermost.lazy = "derived" /\ UNCHANGED <<cell, seen>>
  BY DEF DerivedReads
<1>2. CASE ~Answers("base")
  <2>1. CallThunk("base") /\ "base" \in LazyName
    BY <1>2 DEF DerivedReads, LazyName
  <2> QED
    BY <1>1, <1>2, <2>1, CallKeeps
<1>3. CASE Answers("base")
  <2> DEFINE n == Len(frames)
             v == Answered("base")
             new == [Innermost EXCEPT !.got = v]
  <2>1. frames' = [frames EXCEPT ![n] = [@ EXCEPT !.got = v]] /\ UNCHANGED runs
    BY <1>3 DEF DerivedReads
  <2>2. /\ frames \in Seq(FrameType) /\ n \in Nat /\ n \in 1..n /\ Innermost = frames[n]
        /\ Innermost \in FrameType /\ cell["base"].value \in Nat
    BY <1>1, EmptySeq DEF LazyInv, LazyTyped, Innermost, CellType, LazyName
  <2>3. v \in Nat
    BY <2>2 DEF Answered, Threw
  <2>4. frames' = [frames EXCEPT ![n] = new]
    BY <2>1, <2>2
  <2> HIDE DEF v
  <2>5. new \in FrameType /\ new.lazy = Innermost.lazy /\ new.run = Innermost.run /\ new.got = v
    BY <2>2, <2>3 DEF FrameType
  <2> HIDE DEF new
  <2>6. /\ frames' \in Seq(FrameType) /\ Len(frames') = n
        /\ \A i \in 1..n : frames'[i] = IF i = n THEN new ELSE frames[i]
    BY <2>2, <2>4, <2>5
  <2>7. \A i \in 1..n : /\ frames'[i].lazy = frames[i].lazy /\ frames'[i].run = frames[i].run
                        /\ frames'[i].got = frames[i].got \/ frames'[i].got = v
    BY <2>2, <2>5, <2>6
  <2> HIDE DEF n
  <2>8. LazyTyped' /\ OneValue'
    BY <1>1, <2>1, <2>6, <2>7 DEF LazyInv, LazyTyped, OneValue, n
  <2>9. RunsInOrder'
    <3>1. \A i \in 1..n : \A j \in 1..i : j \in 1..n
      BY <2>2
    <3> QED
      BY <2>1, <2>6, <2>7, <3>1 DEF LazyInv, RunsInOrder, n
  <2>10. MadeOfSettled'
    <3> SUFFICES ASSUME NEW d \in Nat, Given(d)' PROVE Settled(d)'
      BY DEF MadeOfSettled
    <3>1. d = v /\ d > Threw => Given(d)
      BY DEF Answered, Given, v, Threw
    <3>2. Given(d)
      BY <1>1, <2>6, <2>7, <3>1 DEF Given, n
    <3>3. Settled(d)
      BY <3>2 DEF LazyInv, MadeOfSettled
    <3> QED
      BY <1>1, <2>6, <2>7, <3>3 DEF Settled, n
  <2> QED
    BY <2>8, <2>9, <2>10 DEF LazyInv
<1> QED
  BY <1>2, <1>3

LEMMA DisposeKeeps ==
  ASSUME LazyInv, NEW c \in LazyName, Dispose(c)
  PROVE  LazyInv'
<1> DEFINE new == [cell[c] EXCEPT !.value = 0, !.thunk = FALSE, !.disposed = TRUE]
<1>1. cell[c] \in CellType /\ 0 \in Nat /\ cell \in [LazyName -> CellType]
  BY DEF LazyInv, LazyTyped
<1>2. /\ new \in CellType /\ new.value = 0 /\ ~new.thunk /\ new.disposed
      /\ new.evaluated = cell[c].evaluated
  BY <1>1, CellUpdates
<1>3. cell' = [cell EXCEPT ![c] = new] /\ UNCHANGED <<frames, runs, seen>>
  BY DEF Dispose
<1> HIDE DEF new
<1>4. /\ cell' \in [LazyName -> CellType]
      /\ \A d \in LazyName : cell'[d] = IF d = c THEN new ELSE cell[d]
  BY <1>1, <1>2, <1>3
<1>5. LazyTyped' /\ RunsInOrder'
  BY <1>3, <1>4 DEF LazyInv, LazyTyped, RunsInOrder
<1>6. OneValue'
  <2> SUFFICES ASSUME NEW d \in LazyName
               PROVE  /\ cell'[d].evaluated => ~cell'[d].thunk
                      /\ cell[d].evaluated => cell'[d].evaluated
                      /\ \A v \in seen[d] : cell[d].disposed \/ cell[d].value = v
                                             => cell'[d].disposed \/ cell'[d].value = v
    BY <1>3 DEF LazyInv, OneValue
  <2> QED
    BY <1>2, <1>4 DEF LazyInv, OneValue
<1>7. MadeOfSettled'
  <2> SUFFICES ASSUME NEW d \in Nat, Given(d)' PROVE Settled(d)'
    BY DEF MadeOfSettled
  <2>1. "base" \in LazyName /\ "derived" \in LazyName
    BY DEF LazyName
  <2>2. cell'["base"].evaluated /\ ~cell'["base"].disposed => cell'["base"] = cell["base"]
    BY <1>2, <1>4, <2>1
  <2>3. cell'["derived"].value > Threw => cell'["derived"] = cell["derived"]
    BY <1>2, <1>4, <2>1 DEF Threw
  <2>4. Given(d)
    BY <1>3, <2>2, <2>3 DEF Given
  <2>5. Settled(d)
    BY <2>4 DEF LazyInv, MadeOfSettled
  <2>6. ~cell'["base"].thunk /\ cell'["base"].value <= d
    BY <1>2, <1>4, <2>1, <2>5 DEF Settled
  <2> QED
    BY <1>3, <2>5, <2>6 DEF Settled
<1> QED
  BY <1>5, <1>6, <1>7 DEF LazyInv

LEMMA LazySteps == LazyInv /\ [LazyNext]_lazyVars => LazyInv'
<1> SUFFICES ASSUME LazyInv, [LazyNext]_lazyVars PROVE LazyInv'
  OBVIOUS
<1>1. CASE UNCHANGED lazyVars
  BY <1>1, LazyUnchanged DEF lazyVars
<1> QED
  BY <1>1, ReadKeeps, DisposeKeeps, DerivedReadKeeps, ReturnsKeep, ThrowKeeps DEF LazyNext

LEMMA LazyIsStable == LazyInv => LazyStable
<1> SUFFICES ASSUME LazyInv PROVE LazyStable
  OBVIOUS
<1>1. seen \in [LazyName -> SUBSET Nat] /\ "derived" \in LazyName
  BY DEF LazyInv, LazyTyped, LazyName
<1>2. \A d \in seen["derived"] : Settled(d)
  BY <1>1 DEF LazyInv, MadeOfSettled, Given
<1> QED
  BY <1>2 DEF LazyInv, OneValue, Settled, LazyStable

-----------------------------------------------------------------------------
(* A request's way through the server. *)

BuilderType ==
  [routes : SUBSET {"found", "other"}, middlewares : Nat, derivers : Nat, typed : Nat,
   custom : BOOLEAN, trie : SUBSET {"found", "other", "none"}]

\* A builder whose trie, if it is compiled, is of its own routes.
SoundBuilder == {b \in BuilderType : b.trie \in {{"none"}, b.routes}}

Layer == {"middleware", "core", "typed", "handler"} \X Nat
Refusals == {Failed("RouteNotFound", "router"), Failed("MethodNotAllowed", "router")}
Results == {Nothing, Rejected} \cup UserResults \cup Refusals

PipelineTyped ==
  /\ builders \in Seq(SoundBuilder)
  /\ serving \in 0..Len(builders)
  /\ layers \in Seq(Layer)
  /\ result \in Results
  /\ status \in {0, 200, 404, 405, 500}

\* No request yet.
Unserved == serving = 0 => layers = <<>> /\ result = Nothing /\ derived = {} /\ status = 0 /\ clientGot = "none"

\* The layers entered are the outer ones of the onion; the derivers run in the core, which
\* is within the middleware, and have all run where a layer within the core does.
DerivedAt(depth, outside, derivers, d) ==
  /\ depth <= outside => d = {}
  /\ depth = outside + 1 => \E n \in 0..(derivers + 1) : d = 0..(n - 1)
  /\ depth > outside + 1 => d = 0..derivers

InOnion ==
  serving # 0 =>
    /\ Len(layers) <= Builder.middlewares + Builder.typed + 2
    /\ \A i \in 1..Len(layers) : layers[i] = Onion[i]
    /\ DerivedAt(Len(layers), Builder.middlewares, Builder.derivers, derived)

\* What the layers returned, and what became of it.
AnsweredSoFar ==
  /\ serving # 0 /\ result = Nothing => layers # <<>>
  /\ result = Rejected => thrown
  /\ result.by = "router" => "found" \notin Builder.routes
  /\ status # 0 => layers = <<>> /\ serving # 0
  /\ result.by = "router" /\ status # 0 => Builder.custom \/ status \in {404, 405}
  /\ status = 500 => thrown \/ Builder.custom \/ result.by = "user"
  /\ status = 200 => Builder.custom \/ result = Response(200)
  /\ clientGot = "Ok" => status = 200

PipelineInv == PipelineTyped /\ Unserved /\ InOnion /\ AnsweredSoFar

\* Results are told apart by what they are of.
LEMMA ResultFacts ==
  /\ {Nothing, Rejected} \subseteq Results /\ Nothing # Rejected
  /\ Nothing.by # "router" /\ Rejected.by # "router"
  /\ \A r \in UserResults : r \in Results /\ r # Nothing /\ r # Rejected /\ r.by # "router"
  /\ \A r \in Refusals : r \in Results /\ r # Nothing /\ r # Rejected
BY DEF Results, Refusals, Nothing, Rejected, Failed, Response, UserResults, ServerErrors, Statuses

\* createBuilder gives a sound builder, whatever was changed; so does getTrie.
LEMMA BuilderUpdates ==
  ASSUME NEW b \in BuilderType
  PROVE  /\ [b EXCEPT !.trie = {"none"}] \in SoundBuilder
         /\ [b EXCEPT !.trie = b.routes] \in SoundBuilder
         /\ [b EXCEPT !.trie = b.routes].routes = b.routes
         /\ [b EXCEPT !.trie = b.routes].middlewares = b.middlewares
         /\ [b EXCEPT !.trie = b.routes].derivers = b.derivers
         /\ [b EXCEPT !.trie = b.routes].typed = b.typed
         /\ [b EXCEPT !.trie = b.routes].custom = b.custom
         /\ [b EXCEPT !.trie = b.routes].trie = b.routes
         /\ \A r \in {"found", "other"} : [b EXCEPT !.routes = @ \cup {r}] \in BuilderType
         /\ [b EXCEPT !.middlewares = @ + 1] \in BuilderType
         /\ [b EXCEPT !.typed = @ + 1] \in BuilderType
         /\ [b EXCEPT !.derivers = @ + 1] \in BuilderType
         /\ [b EXCEPT !.custom = TRUE] \in BuilderType
<1>1. /\ b.routes \in SUBSET {"found", "other"} /\ b.middlewares \in Nat /\ b.derivers \in Nat
      /\ b.typed \in Nat /\ b.custom \in BOOLEAN /\ b.trie \in SUBSET {"found", "other", "none"}
  BY DEF BuilderType
<1>2. /\ [b EXCEPT !.trie = {"none"}] \in BuilderType
      /\ [b EXCEPT !.trie = b.routes] \in BuilderType
  BY <1>1 DEF BuilderType
<1>3. /\ [b EXCEPT !.trie = {"none"}].trie = {"none"}
      /\ [b EXCEPT !.trie = b.routes].routes = b.routes
      /\ [b EXCEPT !.trie = b.routes].middlewares = b.middlewares
      /\ [b EXCEPT !.trie = b.routes].derivers = b.derivers
      /\ [b EXCEPT !.trie = b.routes].typed = b.typed
      /\ [b EXCEPT !.trie = b.routes].custom = b.custom
      /\ [b EXCEPT !.trie = b.routes].trie = b.routes
  BY DEF BuilderType
<1>4. \A r \in {"found", "other"} : [b EXCEPT !.routes = @ \cup {r}] \in BuilderType
  BY <1>1 DEF BuilderType
<1>5. /\ [b EXCEPT !.middlewares = @ + 1] \in BuilderType
      /\ [b EXCEPT !.typed = @ + 1] \in BuilderType
      /\ [b EXCEPT !.derivers = @ + 1] \in BuilderType
  BY <1>1 DEF BuilderType
<1>6. [b EXCEPT !.custom = TRUE] \in BuilderType
  BY <1>1 DEF BuilderType
<1> QED
  BY <1>2, <1>3, <1>4, <1>5, <1>6 DEF SoundBuilder

\* The builder that serves.
LEMMA ServingBuilder ==
  ASSUME PipelineTyped, serving # 0
  PROVE  /\ serving \in 1..Len(builders) /\ Builder \in SoundBuilder /\ Builder \in BuilderType
         /\ Builder.middlewares \in Nat /\ Builder.derivers \in Nat /\ Builder.typed \in Nat
         /\ Builder.routes \in SUBSET {"found", "other"}
         /\ Builder.trie \in {{"none"}, Builder.routes}
<1>1. serving \in 1..Len(builders)
  BY DEF PipelineTyped
<1>2. Builder \in SoundBuilder
  BY <1>1 DEF PipelineTyped, Builder
<1> QED
  BY <1>1, <1>2 DEF SoundBuilder, BuilderType

\* Numbered layers of a kind, and what two sequences are when one follows the other.
LEMMA NumberedLayers ==
  ASSUME NEW n \in Nat, NEW kind \in {"middleware", "typed"}, NEW s, s = [i \in 1..n |-> <<kind, i>>]
  PROVE  s \in Seq(Layer) /\ Len(s) = n /\ \A i \in 1..n : s[i] = <<kind, i>>
<1>1. \A i \in 1..n : <<kind, i>> \in Layer
  BY DEF Layer
<1>2. s \in [1..n -> Layer] /\ \A i \in 1..n : s[i] = <<kind, i>>
  BY <1>1
<1>3. s \in Seq(Layer) /\ Len(s) = n
  BY <1>2
<1> QED
  BY <1>2, <1>3

\* The layers of the onion: the middleware, the core, the typed middleware, the handler.
OnionOf(m, t) ==
  [i \in 1..m |-> <<"middleware", i>>] \o << <<"core", 0>> >>
    \o [i \in 1..t |-> <<"typed", i>>] \o << <<"handler", 0>> >>

LEMMA OnionLayers ==
  ASSUME NEW m \in Nat, NEW t \in Nat
  PROVE  /\ OnionOf(m, t) \in Seq(Layer) /\ Len(OnionOf(m, t)) = m + t + 2
         /\ \A i \in 1..m : OnionOf(m, t)[i] = <<"middleware", i>>
         /\ OnionOf(m, t)[m + 1] = <<"core", 0>>
         /\ \A i \in (m + 2)..(m + t + 1) : OnionOf(m, t)[i] = <<"typed", i - (m + 1)>>
         /\ OnionOf(m, t)[m + t + 2] = <<"handler", 0>>
<1> DEFINE outer == [i \in 1..m |-> <<"middleware", i>>]
           core == << <<"core", 0>> >>
           inner == [i \in 1..t |-> <<"typed", i>>]
           last == << <<"handler", 0>> >>
           two == outer \o core
           three == two \o inner
           four == three \o last
<1>1. OnionOf(m, t) = four
  BY DEF OnionOf
<1>2. /\ outer \in Seq(Layer) /\ Len(outer) = m /\ \A i \in 1..m : outer[i] = <<"middleware", i>>
  BY NumberedLayers
<1>3. /\ inner \in Seq(Layer) /\ Len(inner) = t /\ \A i \in 1..t : inner[i] = <<"typed", i>>
  BY NumberedLayers
<1>4. core \in Seq(Layer) /\ Len(core) = 1 /\ core[1] = <<"core", 0>>
  <2>1. <<"core", 0>> \in Layer
    BY DEF Layer
  <2> QED
    BY <2>1
<1>5. last \in Seq(Layer) /\ Len(last) = 1 /\ last[1] = <<"handler", 0>>
  <2>1. <<"handler", 0>> \in Layer
    BY DEF Layer
  <2> QED
    BY <2>1
<1>6. /\ outer \o core \in Seq(Layer)
      /\ Len(outer \o core) = Len(outer) + Len(core)
      /\ \A i \in 1..(Len(outer) + Len(core)) :
           (outer \o core)[i] = IF i <= Len(outer) THEN outer[i] ELSE core[i - Len(outer)]
  <2> HIDE DEF outer, core
  <2> QED
    BY <1>2, <1>4, ConcatProperties
<1>7. /\ two \o inner \in Seq(Layer)
      /\ Len(two \o inner) = Len(two) + Len(inner)
      /\ \A i \in 1..(Len(two) + Len(inner)) :
           (two \o inner)[i] = IF i <= Len(two) THEN two[i] ELSE inner[i - Len(two)]
  <2>1. two \in Seq(Layer)
    BY <1>6
  <2> HIDE DEF two, inner
  <2> QED
    BY <1>3, <2>1, ConcatProperties
<1>8. /\ three \o last \in Seq(Layer)
      /\ Len(three \o last) = Len(three) + Len(last)
      /\ \A i \in 1..(Len(three) + Len(last)) :
           (three \o last)[i] = IF i <= Len(three) THEN three[i] ELSE last[i - Len(three)]
  <2>1. three \in Seq(Layer)
    BY <1>7
  <2> HIDE DEF three, last
  <2> QED
    BY <1>5, <2>1, ConcatProperties
<1>9. /\ Len(two) = m + 1 /\ Len(three) = m + 1 + t
      /\ \A i \in 1..(m + 1) : two[i] = IF i <= m THEN outer[i] ELSE core[i - m]
      /\ \A i \in 1..(m + 1 + t) : three[i] = IF i <= m + 1 THEN two[i] ELSE inner[i - (m + 1)]
  <2>1. two = outer \o core /\ three = two \o inner
    OBVIOUS
  <2> HIDE DEF outer, core, inner, two, three
  <2>2. /\ Len(two) = m + 1
        /\ \A i \in 1..(m + 1) : two[i] = IF i <= m THEN outer[i] ELSE core[i - m]
    BY <1>2, <1>4, <1>6, <2>1
  <2> QED
    BY <1>3, <1>7, <2>1, <2>2
<1>10. /\ four \in Seq(Layer) /\ Len(four) = m + 1 + t + 1
       /\ \A i \in 1..(m + 1 + t + 1) : four[i] = IF i <= m + 1 + t THEN three[i] ELSE last[i - (m + 1 + t)]
  <2>1. four = three \o last
    OBVIOUS
  <2> HIDE DEF three, last, four
  <2> QED
    BY <1>5, <1>8, <1>9, <2>1
<1> HIDE DEF outer, core, inner, last, two, three, four
<1>11. m + 1 + t + 1 = m + t + 2
  OBVIOUS
<1>12. \A i \in 1..m : four[i] = <<"middleware", i>>
  <2>1. \A i \in 1..m : /\ i \in 1..(m + 1) /\ i \in 1..(m + 1 + t) /\ i \in 1..(m + 1 + t + 1)
                        /\ i <= m /\ i <= m + 1 /\ i <= m + 1 + t
    OBVIOUS
  <2> QED
    BY <1>2, <1>9, <1>10, <2>1
<1>13. four[m + 1] = <<"core", 0>>
  <2>1. /\ m + 1 \in 1..(m + 1) /\ m + 1 \in 1..(m + 1 + t) /\ m + 1 \in 1..(m + 1 + t + 1)
        /\ m + 1 <= m + 1 /\ m + 1 <= m + 1 + t /\ ~(m + 1 <= m) /\ m + 1 - m = 1
    OBVIOUS
  <2> QED
    <3>1. four[m + 1] = three[m + 1] /\ three[m + 1] = two[m + 1]
      BY <1>9, <1>10, <2>1
    <3> DEFINE at == m + 1
    <3>2. two[m + 1] = core[1]
      <4>1. at \in 1..(m + 1) /\ ~(at <= m) /\ at - m = 1
        OBVIOUS
      <4> HIDE DEF at
      <4>2. two[at] = core[at - m]
        BY <1>9, <4>1
      <4> QED
        BY <4>1, <4>2 DEF at
    <3> QED
      BY <1>4, <3>1, <3>2
<1>14. \A i \in (m + 2)..(m + t + 1) : four[i] = <<"typed", i - (m + 1)>>
  <2>1. \A i \in (m + 2)..(m + t + 1) :
          /\ i \in 1..(m + 1 + t) /\ i \in 1..(m + 1 + t + 1)
          /\ i <= m + 1 + t /\ ~(i <= m + 1) /\ i - (m + 1) \in 1..t
    OBVIOUS
  <2> QED
    BY <1>3, <1>9, <1>10, <2>1
<1>15. four[m + t + 2] = <<"handler", 0>>
  <2> DEFINE at == m + t + 2
  <2>3. at \in 1..(m + 1 + t + 1) /\ ~(at <= m + 1 + t) /\ at - (m + 1 + t) = 1
    OBVIOUS
  <2> HIDE DEF at
  <2>4. four[at] = last[at - (m + 1 + t)]
    BY <1>10, <2>3
  <2>2. four[m + t + 2] = last[1]
    BY <2>3, <2>4 DEF at
  <2> QED
    BY <1>5, <2>2
<1> QED
  BY <1>1, <1>10, <1>11, <1>12, <1>13, <1>14, <1>15

\* Where the innermost layer is in the onion.
LEMMA TopLayer ==
  ASSUME PipelineTyped, Unserved, InOnion, layers # <<>>,
         NEW m, NEW t, NEW k, m = Builder.middlewares, t = Builder.typed, k = Len(layers)
  PROVE  /\ serving # 0 /\ m \in Nat /\ t \in Nat /\ k \in 1..(m + t + 2) /\ Top = Onion[k]
         /\ Inside("core") => k = m + 1
         /\ Inside("handler") => k = m + t + 2
         /\ Top[1] \in {"middleware", "typed"} => k # m + 1 /\ k # m + t + 2
<1>1. serving # 0
  BY DEF Unserved
<1>2. m \in Nat /\ t \in Nat
  BY <1>1, ServingBuilder
<1>3. k \in Nat /\ k # 0
  BY DEF PipelineTyped
<1>4. k \in 1..(m + t + 2) /\ Top = Onion[k]
  BY <1>1, <1>2, <1>3 DEF InOnion, Top
<1>5. /\ \A i \in 1..m : Onion[i] = <<"middleware", i>>
      /\ Onion[m + 1] = <<"core", 0>>
      /\ \A i \in (m + 2)..(m + t + 1) : Onion[i] = <<"typed", i - (m + 1)>>
      /\ Onion[m + t + 2] = <<"handler", 0>>
  <2>1. Onion = OnionOf(m, t)
    BY DEF Onion, OnionOf
  <2> QED
    BY <1>2, <2>1, OnionLayers
<1>6. k \in 1..m \/ k = m + 1 \/ k \in (m + 2)..(m + t + 1) \/ k = m + t + 2
  BY <1>2, <1>4
<1>7. m + 1 # m + t + 2
  BY <1>2
<1>8. \/ Top[1] = "middleware" /\ k \in 1..m
      \/ Top[1] = "core" /\ k = m + 1
      \/ Top[1] = "typed" /\ k \in (m + 2)..(m + t + 1)
      \/ Top[1] = "handler" /\ k = m + t + 2
  BY <1>4, <1>5, <1>6
<1>9. /\ k \in 1..m => k # m + 1 /\ k # m + t + 2
      /\ k \in (m + 2)..(m + t + 1) => k # m + 1 /\ k # m + t + 2
  BY <1>2
<1>10. /\ Inside("core") => k = m + 1
       /\ Inside("handler") => k = m + t + 2
       /\ Top[1] \in {"middleware", "typed"} => k # m + 1 /\ k # m + t + 2
  BY <1>8, <1>9 DEF Inside
<1> QED
  BY <1>1, <1>2, <1>4, <1>10

\* Going one layer in, and coming back from one.
LEMMA OneLayerIn ==
  ASSUME NEW s \in Seq(Layer), NEW onion \in Seq(Layer), Len(s) < Len(onion),
         \A i \in 1..Len(s) : s[i] = onion[i],
         NEW t, t = Append(s, onion[Len(s) + 1])
  PROVE  /\ t \in Seq(Layer) /\ Len(t) = Len(s) + 1 /\ t # <<>>
         /\ \A i \in 1..Len(t) : t[i] = onion[i]
<1>1. Len(s) \in Nat /\ Len(onion) \in Nat
  OBVIOUS
<1>2. Len(s) + 1 \in 1..Len(onion)
  BY <1>1
<1>3. onion[Len(s) + 1] \in Layer
  BY <1>2
<1>4. /\ t \in Seq(Layer) /\ Len(t) = Len(s) + 1
      /\ \A i \in 1..Len(s) : t[i] = s[i]
      /\ t[Len(s) + 1] = onion[Len(s) + 1]
  BY <1>3, AppendProperties
<1>5. \A i \in 1..(Len(s) + 1) : i \in 1..Len(s) \/ i = Len(s) + 1
  BY <1>1
<1>6. t # <<>>
  BY <1>1, <1>4
<1> QED
  BY <1>4, <1>5, <1>6

LEMMA OneLayerOut ==
  ASSUME NEW s \in Seq(Layer), s # <<>>, NEW onion,
         \A i \in 1..Len(s) : s[i] = onion[i],
         NEW t, t = Front(s)
  PROVE  /\ t \in Seq(Layer) /\ Len(t) = Len(s) - 1
         /\ \A i \in 1..Len(t) : t[i] = onion[i]
<1>1. Len(s) \in Nat /\ Len(s) # 0
  OBVIOUS
<1>2. t = SubSeq(s, 1, Len(s) - 1)
  BY DEF Front
<1>3. /\ t \in Seq(Layer) /\ Len(t) = Len(s) - 1
      /\ \A i \in 1..(Len(s) - 1) : t[i] = s[i]
  <2> DEFINE n == Len(s) - 1
  <2>1. n \in Int /\ 1 \in Int /\ n \in Nat /\ \A i \in 1..n : s[i] \in Layer
    BY <1>1
  <2> HIDE DEF n
  <2>2. /\ SubSeq(s, 1, n) \in Seq(Layer)
        /\ Len(SubSeq(s, 1, n)) = IF 1 <= n THEN n - 1 + 1 ELSE 0
        /\ \A i \in 1..(n - 1 + 1) : SubSeq(s, 1, n)[i] = s[1 + i - 1]
    BY <2>1, SubSeqProperties
  <2>3. t = SubSeq(s, 1, n)
    BY <1>2 DEF n
  <2>4. t \in Seq(Layer) /\ Len(t) = n /\ \A i \in 1..n : t[i] = s[i]
    <3>1. n - 1 + 1 = n /\ (IF 1 <= n THEN n - 1 + 1 ELSE 0) = n /\ \A i \in 1..n : 1 + i - 1 = i
      BY <2>1
    <3> QED
      BY <2>2, <2>3, <3>1
  <2> QED
    BY <2>4 DEF n
<1>4. \A i \in 1..(Len(s) - 1) : i \in 1..Len(s)
  BY <1>1
<1> QED
  BY <1>3, <1>4

\* The first n derivers.
LEMMA DeriversRun ==
  ASSUME NEW n \in Nat
  PROVE  /\ Cardinality(0..(n - 1)) = n
         /\ (0..(n - 1)) \cup {n} = 0..n
         /\ 0..(n - 1) = {} <=> n = 0
<1>1. Cardinality(0..(n - 1)) = IF 0 > n - 1 THEN 0 ELSE (n - 1) - 0 + 1
  BY FS_Interval
<1>2. (IF 0 > n - 1 THEN 0 ELSE (n - 1) - 0 + 1) = n
  OBVIOUS
<1>3. /\ (0..(n - 1)) \cup {n} = 0..n
      /\ 0..(n - 1) = {} <=> n = 0
  OBVIOUS
<1> QED
  BY <1>1, <1>2, <1>3

\* The builder that serves keeps its onion, and its routes.
SameBuilder ==
  /\ Builder'.middlewares = Builder.middlewares /\ Builder'.derivers = Builder.derivers
  /\ Builder'.typed = Builder.typed /\ Builder'.routes = Builder.routes

LEMMA SameOnion ==
  ASSUME SameBuilder
  PROVE  Onion' = Onion
BY DEF SameBuilder, Onion

\* A step of a layer: one layer in, one out, or none.
LEMMA LayerStep ==
  ASSUME PipelineInv, layers # <<>>, SameBuilder,
         builders' \in Seq(SoundBuilder), Len(builders') = Len(builders),
         serving' = serving, status' = status, clientGot' = clientGot,
         \/ EnterNext /\ Len(layers) < Builder.middlewares + Builder.typed + 2
         \/ layers' = Front(layers)
         \/ layers' = layers,
         result' \in Results, result' = Nothing => layers' # <<>>,
         result' = Rejected => thrown',
         result'.by = "router" => "found" \notin Builder.routes,
         DerivedAt(Len(layers'), Builder.middlewares, Builder.derivers, derived')
  PROVE  PipelineInv'
<1> DEFINE m == Builder.middlewares
           t == Builder.typed
           k == Len(layers)
           onion == Onion
<1>0. PipelineTyped /\ Unserved /\ InOnion /\ AnsweredSoFar
  BY DEF PipelineInv
<1>1. serving # 0 /\ m \in Nat /\ t \in Nat /\ k \in 1..(m + t + 2)
  BY <1>0, TopLayer
<1>2. onion \in Seq(Layer) /\ Len(onion) = m + t + 2
  <2>1. onion = OnionOf(m, t)
    BY DEF Onion, OnionOf
  <2> HIDE DEF onion, m, t
  <2> QED
    BY <1>1, <2>1, OnionLayers
<1>3. layers \in Seq(Layer) /\ \A i \in 1..Len(layers) : layers[i] = onion[i]
  BY <1>0, <1>1 DEF PipelineTyped, InOnion
<1>4. onion' = onion
  BY SameOnion
<1>5. /\ layers' \in Seq(Layer) /\ Len(layers') <= m + t + 2
      /\ \A i \in 1..Len(layers') : layers'[i] = onion[i]
  <2> DEFINE after == layers'
  <2>1. CASE EnterNext /\ k < m + t + 2
    <3>1. after = Append(layers, onion[Len(layers) + 1]) /\ Len(layers) < Len(onion)
      BY <1>2, <2>1 DEF EnterNext
    <3> HIDE DEF after, onion
    <3>2. /\ after \in Seq(Layer) /\ Len(after) = Len(layers) + 1
          /\ \A i \in 1..Len(after) : after[i] = onion[i]
      BY <1>2, <1>3, <3>1, OneLayerIn
    <3> QED
      BY <1>1, <2>1, <3>2 DEF after
  <2>2. CASE layers' = Front(layers)
    <3>1. after = Front(layers)
      BY <2>2
    <3> HIDE DEF after, onion
    <3>2. /\ after \in Seq(Layer) /\ Len(after) = Len(layers) - 1
          /\ \A i \in 1..Len(after) : after[i] = onion[i]
      BY <1>3, <3>1, OneLayerOut
    <3> QED
      BY <1>1, <3>2 DEF after
  <2>3. CASE layers' = layers
    BY <1>1, <1>3, <2>3
  <2> QED
    BY <2>1, <2>2, <2>3
<1> HIDE DEF onion
<1>6. status = 0 /\ clientGot # "Ok"
  BY <1>0 DEF AnsweredSoFar
<1>7. PipelineTyped'
  BY <1>0, <1>5, <1>6 DEF PipelineTyped
<1>8. Unserved'
  BY <1>1 DEF Unserved
<1>9. InOnion'
  BY <1>4, <1>5 DEF InOnion, SameBuilder, onion
<1>10. AnsweredSoFar'
  BY <1>6 DEF AnsweredSoFar, SameBuilder
<1> QED
  BY <1>7, <1>8, <1>9, <1>10 DEF PipelineInv

\* What the steps of a layer need to know.
LEMMA InALayer ==
  ASSUME PipelineInv, layers # <<>>
  PROVE  /\ serving \in 1..Len(builders) /\ Builder \in SoundBuilder /\ builders \in Seq(SoundBuilder)
         /\ Builder.middlewares \in Nat /\ Builder.typed \in Nat /\ Builder.derivers \in Nat
         /\ Len(layers) \in 1..(Builder.middlewares + Builder.typed + 2)
         /\ Len(Front(layers)) = Len(layers) - 1
         /\ DerivedAt(Len(layers), Builder.middlewares, Builder.derivers, derived)
         /\ result \in Results /\ (result = Rejected => thrown)
         /\ result.by = "router" => "found" \notin Builder.routes
         /\ Inside("core") => Len(layers) = Builder.middlewares + 1
         /\ Inside("handler") => Len(layers) # Builder.middlewares + 1
         /\ Top[1] \in {"middleware", "typed"} =>
              /\ Len(layers) # Builder.middlewares + 1
              /\ Len(layers) # Builder.middlewares + Builder.typed + 2
<1> DEFINE m == Builder.middlewares
           t == Builder.typed
           n == Builder.derivers
           k == Len(layers)
<1>0. PipelineTyped /\ Unserved /\ InOnion /\ AnsweredSoFar
  BY DEF PipelineInv
<1>1. /\ serving # 0 /\ m \in Nat /\ t \in Nat /\ k \in 1..(m + t + 2)
      /\ Inside("core") => k = m + 1
      /\ Inside("handler") => k = m + t + 2
      /\ Top[1] \in {"middleware", "typed"} => k # m + 1 /\ k # m + t + 2
  <2>1. m = Builder.middlewares /\ t = Builder.typed /\ k = Len(layers)
    OBVIOUS
  <2> HIDE DEF m, t, k
  <2> QED
    BY ONLY <1>0, <2>1, layers # <<>>, TopLayer, Zenon
<1>2. /\ serving \in 1..Len(builders) /\ Builder \in SoundBuilder /\ n \in Nat
  BY <1>0, <1>1, ServingBuilder
<1>3. DerivedAt(k, m, n, derived)
  BY <1>0, <1>1 DEF InOnion
<1>4. Len(Front(layers)) = k - 1
  <2>1. layers \in Seq(Layer) /\ \A i \in 1..Len(layers) : layers[i] = layers[i]
    BY <1>0 DEF PipelineTyped
  <2> QED
    BY <2>1, OneLayerOut
<1>5. /\ builders \in Seq(SoundBuilder) /\ result \in Results /\ (result = Rejected => thrown)
      /\ result.by = "router" => "found" \notin Builder.routes
  BY <1>0, <1>1 DEF PipelineTyped, AnsweredSoFar
<1>6. Inside("handler") => k # m + 1
  <2>1. m + t + 2 # m + 1
    BY <1>1
  <2> QED
    BY <1>1, <2>1
<1> QED
  BY <1>1, <1>2, <1>3, <1>4, <1>5, <1>6

LEMMA SameBuilders == UNCHANGED <<builders, serving>> => SameBuilder
BY DEF SameBuilder, Builder

LEMMA CallNextKeeps ==
  ASSUME PipelineInv, CallNext
  PROVE  PipelineInv'
<1> DEFINE m == Builder.middlewares
           t == Builder.typed
           n == Builder.derivers
           k == Len(layers)
<1>1. /\ layers # <<>> /\ Top[1] \in {"middleware", "typed"} /\ EnterNext /\ result' = Nothing
      /\ builders' = builders /\ serving' = serving /\ derived' = derived /\ status' = status
      /\ clientGot' = clientGot /\ thrown' = thrown
  BY DEF CallNext
<1>2. /\ builders \in Seq(SoundBuilder) /\ m \in Nat /\ t \in Nat /\ n \in Nat /\ k \in 1..(m + t + 2)
      /\ DerivedAt(k, m, n, derived) /\ k # m + 1 /\ k # m + t + 2
  BY <1>1, InALayer
<1>3. layers \in Seq(Layer) /\ Len(layers') = k + 1 /\ layers' # <<>>
  <2> DEFINE new == Onion[Len(layers) + 1]
  <2>1. layers \in Seq(Layer)
    BY DEF PipelineInv, PipelineTyped
  <2>2. layers' = Append(layers, new)
    BY <1>1 DEF EnterNext
  <2> HIDE DEF new
  <2>3. Len(layers') = k + 1 /\ layers' # <<>>
    BY <2>1, <2>2
  <2> QED
    BY <2>1, <2>3
<1> HIDE DEF k
<1>4. DerivedAt(k + 1, m, n, derived)
  <2> HIDE DEF m, t, n
  <2>1. CASE k + 1 <= m
    BY <1>2, <2>1 DEF DerivedAt
  <2>2. CASE k = m
    <3>1. derived = {} /\ k + 1 = m + 1 /\ ~(k + 1 <= m) /\ ~(k + 1 > m + 1)
      BY <1>2, <2>2 DEF DerivedAt
    <3>2. 0 \in 0..(n + 1) /\ 0..(0 - 1) = {}
      BY <1>2
    <3> QED
      BY <3>1, <3>2 DEF DerivedAt
  <2>3. CASE k > m + 1
    BY <1>2, <2>3 DEF DerivedAt
  <2>4. k + 1 <= m \/ k = m \/ k > m + 1
    BY <1>2
  <2> QED
    BY <2>1, <2>2, <2>3, <2>4
<1>5. k < m + t + 2
  BY <1>2
<1>6. SameBuilder
  BY <1>1, SameBuilders
<1>7. result' \in Results /\ result' # Rejected /\ result'.by # "router"
  BY <1>1, ResultFacts
<1> QED
  BY <1>1, <1>2, <1>3, <1>4, <1>5, <1>6, <1>7, LayerStep DEF k

\* A layer returns: the derivers' fields are dropped if it is the core.
LEMMA ReturnKeeps ==
  ASSUME PipelineInv, layers # <<>>, NEW r \in Results \ {Nothing}, Returns(r),
         builders' \in Seq(SoundBuilder), Len(builders') = Len(builders), SameBuilder,
         UNCHANGED <<serving, status, clientGot>>,
         r = Rejected => thrown', r.by = "router" => "found" \notin Builder.routes,
         \/ Len(layers) # Builder.middlewares + 1 /\ derived' = derived
         \/ Len(layers) = Builder.middlewares + 1 /\ derived' = {}
  PROVE  PipelineInv'
<1> DEFINE m == Builder.middlewares
           t == Builder.typed
           n == Builder.derivers
           k == Len(layers)
<1>1. /\ layers' = Front(layers) /\ result' = r /\ serving' = serving /\ status' = status
      /\ clientGot' = clientGot
  BY DEF Returns
<1>2. /\ m \in Nat /\ t \in Nat /\ n \in Nat /\ k \in 1..(m + t + 2)
      /\ DerivedAt(k, m, n, derived) /\ Len(Front(layers)) = k - 1
  BY InALayer
<1>3. DerivedAt(k - 1, m, n, derived')
  <2> HIDE DEF m, t, n, k
  <2>1. CASE k <= m
    <3>1. derived' = {}
      BY <1>2, <2>1 DEF DerivedAt, m, k
    <3>2. k - 1 <= m /\ ~(k - 1 = m + 1) /\ ~(k - 1 > m + 1)
      BY <1>2, <2>1
    <3> QED
      BY <3>1, <3>2 DEF DerivedAt
  <2>2. CASE k = m + 1
    <3>1. derived' = {} /\ k - 1 <= m /\ ~(k - 1 = m + 1) /\ ~(k - 1 > m + 1)
      BY <1>2, <2>2, SMTT(30) DEF m, k
    <3> QED
      BY <3>1 DEF DerivedAt
  <2>3. CASE k > m + 1
    <3>1. k # m + 1
      BY <1>2, <2>3
    <3>2. derived' = 0..n /\ ~(k - 1 <= m)
      BY <1>2, <2>3, <3>1 DEF DerivedAt, m, k
    <3>3. n + 1 \in 0..(n + 1) /\ (n + 1) - 1 = n
      BY <1>2
    <3>4. \E d \in 0..(n + 1) : derived' = 0..(d - 1)
      BY <3>2, <3>3
    <3> QED
      BY <3>2, <3>4 DEF DerivedAt
  <2>4. k <= m \/ k = m + 1 \/ k > m + 1
    BY <1>2
  <2> QED
    BY <2>1, <2>2, <2>3, <2>4
<1> HIDE DEF k
<1> QED
  BY <1>1, <1>2, <1>3, LayerStep DEF k

LEMMA LayerReturnsKeeps ==
  ASSUME PipelineInv, LayerReturns
  PROVE  PipelineInv'
<1>1. /\ layers # <<>> /\ Top[1] \in {"middleware", "typed"}
      /\ UNCHANGED <<builders, serving, derived, status, clientGot>>
      /\ \E r \in Results \ {Nothing} :
           /\ Returns(r)
           /\ \/ r = result /\ thrown' = thrown
              \/ r \in UserResults
              \/ r = Rejected /\ thrown'
  <2>1. result \in Results
    BY DEF PipelineInv, PipelineTyped
  <2> QED
    BY <2>1, ResultFacts DEF LayerReturns
<1>2. PICK r \in Results \ {Nothing} :
           /\ Returns(r)
           /\ \/ r = result /\ thrown' = thrown
              \/ r \in UserResults
              \/ r = Rejected /\ thrown'
  BY <1>1
<1>3. /\ builders \in Seq(SoundBuilder) /\ Len(layers) # Builder.middlewares + 1
      /\ (result = Rejected => thrown)
      /\ (result.by = "router" => "found" \notin Builder.routes)
  BY <1>1, InALayer
<1>4. SameBuilder
  BY <1>1, SameBuilders
<1>5. (r = Rejected => thrown') /\ (r.by = "router" => "found" \notin Builder.routes)
  BY <1>2, <1>3, ResultFacts
<1> QED
  BY <1>1, <1>2, <1>3, <1>4, <1>5, ReturnKeeps

LEMMA HandleKeeps ==
  ASSUME PipelineInv, Handle
  PROVE  PipelineInv'
<1>1. /\ layers # <<>> /\ Inside("handler") /\ UNCHANGED <<builders, serving, derived, status, clientGot>>
      /\ \E r \in UserResults \cup {Rejected} : Returns(r) /\ (r = Rejected => thrown')
  BY ResultFacts DEF Handle, Inside
<1>2. PICK r \in UserResults \cup {Rejected} : Returns(r) /\ (r = Rejected => thrown')
  BY <1>1
<1>3. builders \in Seq(SoundBuilder) /\ Len(layers) # Builder.middlewares + 1
  BY <1>1, InALayer
<1>4. SameBuilder /\ r \in Results \ {Nothing} /\ r.by # "router"
  BY <1>1, SameBuilders, ResultFacts
<1> QED
  BY <1>1, <1>2, <1>3, <1>4, ReturnKeeps

LEMMA CoreReturnsKeeps ==
  ASSUME PipelineInv, CoreReturns
  PROVE  PipelineInv'
<1>1. /\ layers # <<>> /\ Inside("core") /\ Returns(result) /\ result # Nothing /\ derived' = {}
      /\ UNCHANGED <<builders, serving, thrown, status, clientGot>>
  BY DEF CoreReturns, Inside
<1>2. /\ builders \in Seq(SoundBuilder) /\ Len(layers) = Builder.middlewares + 1
      /\ result \in Results /\ (result = Rejected => thrown)
      /\ (result.by = "router" => "found" \notin Builder.routes)
  BY <1>1, InALayer
<1>3. SameBuilder
  BY <1>1, SameBuilders
<1>4. result = Rejected => thrown'
  BY <1>1, <1>2
<1> QED
  BY <1>1, <1>2, <1>3, <1>4, ReturnKeeps

\* The trie that Match finds or makes has the builder's own routes.
LEMMA MatchCompiles ==
  ASSUME builders \in Seq(SoundBuilder), serving \in 1..Len(builders), NEW after,
         after = [builders EXCEPT ![serving].trie = IF @ = {"none"} THEN builders[serving].routes ELSE @]
  PROVE  /\ after \in Seq(SoundBuilder) /\ Len(after) = Len(builders)
         /\ after[serving].trie = builders[serving].routes /\ after[serving].routes = builders[serving].routes
         /\ after[serving].middlewares = builders[serving].middlewares /\ after[serving].derivers = builders[serving].derivers
         /\ after[serving].typed = builders[serving].typed
<1> DEFINE b == builders[serving]
           c == [b EXCEPT !.trie = b.routes]
<1>1. b \in SoundBuilder
  OBVIOUS
<1>2. b \in BuilderType /\ (b.trie = {"none"} \/ b.trie = b.routes)
  BY <1>1 DEF SoundBuilder
<1>3. after = [builders EXCEPT ![serving] = c]
  BY <1>2
<1>4. /\ c \in SoundBuilder /\ c.trie = b.routes /\ c.routes = b.routes
      /\ c.middlewares = b.middlewares /\ c.derivers = b.derivers /\ c.typed = b.typed
  <2> HIDE DEF b
  <2> QED
    BY <1>2, BuilderUpdates
<1> HIDE DEF c
<1>5. after \in Seq(SoundBuilder) /\ Len(after) = Len(builders) /\ after[serving] = c
  BY <1>3, <1>4
<1> QED
  BY <1>4, <1>5

LEMMA MatchKeeps ==
  ASSUME PipelineInv, Match
  PROVE  PipelineInv'
<1> DEFINE m == Builder.middlewares
           t == Builder.typed
           n == Builder.derivers
           k == Len(layers)
<1>1. /\ layers # <<>> /\ Inside("core") /\ derived = {} /\ result = Nothing
      /\ builders' = [builders EXCEPT ![serving].trie = IF @ = {"none"} THEN builders[serving].routes ELSE @]
      /\ UNCHANGED <<serving, calls, thrown, status, clientGot>>
  BY DEF Match, Inside, Builder
<1>2. \/ /\ derived' = {0} /\ UNCHANGED <<layers, result>>
      \/ /\ "found" \notin builders'[serving].trie /\ derived' = {}
         /\ \E r \in Refusals : Returns(r)
  BY <1>1 DEF Match, Refusals
<1>3. /\ serving \in 1..Len(builders) /\ builders \in Seq(SoundBuilder)
      /\ m \in Nat /\ t \in Nat /\ n \in Nat /\ k = m + 1
  BY <1>1, InALayer
<1>4. /\ builders' \in Seq(SoundBuilder) /\ Len(builders') = Len(builders)
      /\ builders'[serving].trie = Builder.routes /\ builders'[serving].routes = Builder.routes
      /\ builders'[serving].middlewares = m /\ builders'[serving].derivers = n
      /\ builders'[serving].typed = t
  <2> DEFINE after == builders'
  <2>1. after = [builders EXCEPT ![serving].trie = IF @ = {"none"} THEN builders[serving].routes ELSE @]
    BY <1>1
  <2> HIDE DEF after, m, t, n, k
  <2>2. /\ after \in Seq(SoundBuilder) /\ Len(after) = Len(builders)
        /\ after[serving].trie = builders[serving].routes /\ after[serving].routes = builders[serving].routes
        /\ after[serving].middlewares = builders[serving].middlewares
        /\ after[serving].derivers = builders[serving].derivers
        /\ after[serving].typed = builders[serving].typed
    BY <1>3, <2>1, MatchCompiles
  <2> QED
    BY <2>2 DEF after, Builder, m, t, n
<1>5. SameBuilder
  BY <1>1, <1>4 DEF SameBuilder, Builder
<1>6. CASE derived' = {0} /\ UNCHANGED <<layers, result>>
  <2>1. DerivedAt(k, m, n, {0})
    <3> HIDE DEF m, t, n, k
    <3>1. 1 \in 0..(n + 1) /\ 0..(1 - 1) = {0}
      BY <1>3
    <3>2. ~(k <= m) /\ ~(k > m + 1)
      BY <1>3
    <3> QED
      BY <3>1, <3>2 DEF DerivedAt
  <2>2. result' \in Results /\ result' # Rejected /\ result'.by # "router" /\ layers' # <<>>
    BY <1>1, <1>6, ResultFacts
  <2> QED
    BY <1>1, <1>4, <1>5, <1>6, <2>1, <2>2, LayerStep
<1>7. ASSUME NEW r \in Refusals, Returns(r),
             "found" \notin builders'[serving].trie, derived' = {}
      PROVE  PipelineInv'
  <2>1. "found" \notin Builder.routes
    BY <1>4, <1>7
  <2>2. r \in Results \ {Nothing} /\ r # Rejected
    BY ResultFacts
  <2>3. Len(layers) = Builder.middlewares + 1
    BY <1>3
  <2> QED
    BY <1>1, <1>4, <1>5, <1>7, <2>1, <2>2, <2>3, ReturnKeeps
<1> QED
  BY <1>2, <1>6, <1>7

\* How many derivers have run in the core.
LEMMA DerivedInCore ==
  ASSUME PipelineInv, Inside("core")
  PROVE  \E d \in 0..(Builder.derivers + 1) :
           /\ derived = 0..(d - 1) /\ Cardinality(derived) = d /\ derived \cup {d} = 0..d
           /\ derived = {} <=> d = 0
<1> DEFINE m == Builder.middlewares
           t == Builder.typed
           n == Builder.derivers
           k == Len(layers)
<1>1. n \in Nat /\ m \in Nat /\ k = m + 1 /\ DerivedAt(k, m, n, derived)
  BY InALayer DEF Inside
<1>2. PICK d \in 0..(n + 1) : derived = 0..(d - 1)
  BY <1>1 DEF DerivedAt
<1>3. d \in Nat
  BY <1>1, <1>2
<1> QED
  BY <1>2, <1>3, DeriversRun

LEMMA DeriveKeeps ==
  ASSUME PipelineInv, Derive
  PROVE  PipelineInv'
<1> DEFINE m == Builder.middlewares
           t == Builder.typed
           n == Builder.derivers
           k == Len(layers)
<1>1. /\ layers # <<>> /\ Inside("core") /\ result = Nothing /\ Cardinality(derived) <= n /\ derived # {}
      /\ UNCHANGED <<builders, serving, calls, status, clientGot>>
  BY DEF Derive, Inside
<1>2. \/ derived' = derived \cup {Cardinality(derived)} /\ UNCHANGED <<layers, result>>
      \/ \E r \in UserResults \cup {Rejected} : Returns(r) /\ derived' = {} /\ (r = Rejected => thrown')
  <2>1. \A e \in ServerErrors : Failed(e, "user") \in UserResults
    BY DEF UserResults
  <2> QED
    BY <2>1, ResultFacts DEF Derive
<1>3. builders \in Seq(SoundBuilder) /\ m \in Nat /\ n \in Nat /\ k = m + 1
  BY <1>1, InALayer
<1>4. SameBuilder
  BY <1>1, SameBuilders
<1>5. CASE derived' = derived \cup {Cardinality(derived)} /\ UNCHANGED <<layers, result>>
  <2>1. PICK d \in 0..(n + 1) : /\ Cardinality(derived) = d /\ derived \cup {d} = 0..d
    BY <1>1, DerivedInCore
  <2>2. derived' = 0..d /\ d <= n
    BY <1>1, <1>5, <2>1
  <2>3. DerivedAt(k, m, n, derived')
    <3> HIDE DEF m, n, k
    <3>1. d + 1 \in 0..(n + 1) /\ (d + 1) - 1 = d
      BY <1>3, <2>1, <2>2
    <3>2. ~(k <= m) /\ ~(k > m + 1)
      BY <1>3
    <3>3. \E e \in 0..(n + 1) : derived' = 0..(e - 1)
      BY <2>2, <3>1
    <3> QED
      BY <3>2, <3>3 DEF DerivedAt
  <2>4. result' \in Results /\ result' # Rejected /\ result'.by # "router" /\ layers' # <<>>
    BY <1>1, <1>5, ResultFacts
  <2>5. layers' = layers
    BY <1>5
  <2> QED
    BY <1>1, <1>3, <1>4, <2>3, <2>4, <2>5, LayerStep
<1>6. ASSUME NEW r \in UserResults \cup {Rejected}, Returns(r), derived' = {}, r = Rejected => thrown'
      PROVE  PipelineInv'
  <2>1. r \in Results \ {Nothing} /\ r.by # "router"
    BY ResultFacts
  <2> QED
    BY <1>1, <1>3, <1>4, <1>6, <2>1, ReturnKeeps
<1> QED
  BY <1>2, <1>5, <1>6

LEMMA EnterCoreKeeps ==
  ASSUME PipelineInv, EnterCore
  PROVE  PipelineInv'
<1> DEFINE m == Builder.middlewares
           t == Builder.typed
           n == Builder.derivers
           k == Len(layers)
<1>1. /\ layers # <<>> /\ Inside("core") /\ result = Nothing /\ Cardinality(derived) = n + 1 /\ EnterNext
      /\ UNCHANGED <<builders, serving, result, derived, calls, thrown, status, clientGot>>
  BY DEF EnterCore, Inside
<1>2. builders \in Seq(SoundBuilder) /\ m \in Nat /\ t \in Nat /\ n \in Nat /\ k = m + 1
  BY <1>1, InALayer
<1>3. SameBuilder
  BY <1>1, SameBuilders
<1>4. derived = 0..n
  <2>1. PICK d \in 0..(n + 1) : derived = 0..(d - 1) /\ Cardinality(derived) = d
    BY <1>1, DerivedInCore
  <2>2. d = n + 1 /\ (n + 1) - 1 = n
    BY <1>1, <1>2, <2>1
  <2> QED
    BY <2>1, <2>2
<1>5. Len(layers') = k + 1 /\ layers' # <<>>
  <2> DEFINE new == Onion[Len(layers) + 1]
  <2>1. layers \in Seq(Layer)
    BY DEF PipelineInv, PipelineTyped
  <2>2. layers' = Append(layers, new)
    BY <1>1 DEF EnterNext
  <2> HIDE DEF new
  <2> QED
    BY <2>1, <2>2
<1>6. DerivedAt(k + 1, m, n, derived')
  <2> HIDE DEF m, t, n, k
  <2>1. ~(k + 1 <= m) /\ ~(k + 1 = m + 1)
    BY <1>2
  <2> QED
    BY <1>1, <1>4, <2>1 DEF DerivedAt
<1>7. k < m + t + 2
  <2> HIDE DEF m, t, n, k
  <2> QED
    BY <1>2
<1>8. result' \in Results /\ result' # Rejected /\ result'.by # "router"
  BY <1>1, ResultFacts
<1> HIDE DEF k
<1> QED
  BY <1>1, <1>2, <1>3, <1>5, <1>6, <1>7, <1>8, LayerStep DEF k

\* Nothing served: only the builders matter.
LEMMA BuildingKeeps ==
  ASSUME PipelineInv, serving = 0, builders' \in Seq(SoundBuilder), UNCHANGED serveVars
  PROVE  PipelineInv'
<1>1. /\ layers' = <<>> /\ result' = Nothing /\ derived' = {} /\ status' = 0 /\ clientGot' = "none"
      /\ serving' = 0
  BY DEF PipelineInv, Unserved, serveVars
<1>2. PipelineTyped'
  BY <1>1, ResultFacts DEF PipelineTyped
<1>3. Unserved' /\ InOnion'
  BY <1>1 DEF Unserved, InOnion
<1>4. AnsweredSoFar'
  BY <1>1, ResultFacts DEF AnsweredSoFar
<1> QED
  BY <1>2, <1>3, <1>4 DEF PipelineInv

LEMMA BuildKeeps ==
  ASSUME PipelineInv, Build
  PROVE  PipelineInv'
<1>0. builders \in Seq(SoundBuilder) /\ serving = 0 /\ UNCHANGED serveVars
  BY DEF PipelineInv, PipelineTyped, Build
<1>1. PICK i \in 1..Len(builders) :
        \/ \E r \in {"found", "other"} : Make(builders[i], [builders[i] EXCEPT !.routes = @ \cup {r}])
        \/ Make(builders[i], [builders[i] EXCEPT !.middlewares = @ + 1])
        \/ Make(builders[i], [builders[i] EXCEPT !.typed = @ + 1])
        \/ Make(builders[i], [builders[i] EXCEPT !.derivers = @ + 1])
        \/ Make(builders[i], [builders[i] EXCEPT !.custom = TRUE])
  BY DEF Build
<1> DEFINE b == builders[i]
<1>2. b \in BuilderType
  BY <1>0 DEF SoundBuilder
<1>3. \E c \in BuilderType : Make(b, c)
  <2>1. /\ \A r \in {"found", "other"} : [b EXCEPT !.routes = @ \cup {r}] \in BuilderType
        /\ [b EXCEPT !.middlewares = @ + 1] \in BuilderType
        /\ [b EXCEPT !.typed = @ + 1] \in BuilderType
        /\ [b EXCEPT !.derivers = @ + 1] \in BuilderType
        /\ [b EXCEPT !.custom = TRUE] \in BuilderType
    BY <1>2, BuilderUpdates
  <2> QED
    BY <1>1, <2>1, Zenon
<1>4. PICK c \in BuilderType : builders' = Append(builders, [c EXCEPT !.trie = {"none"}])
  BY <1>3 DEF Make
<1>5. [c EXCEPT !.trie = {"none"}] \in SoundBuilder
  BY BuilderUpdates
<1>6. builders' \in Seq(SoundBuilder)
  BY <1>0, <1>4, <1>5, AppendProperties
<1> QED
  BY <1>0, <1>6, BuildingKeeps

LEMMA CompileKeeps ==
  ASSUME PipelineInv, Compile
  PROVE  PipelineInv'
<1>0. builders \in Seq(SoundBuilder) /\ serving = 0 /\ UNCHANGED serveVars
  BY DEF PipelineInv, PipelineTyped, Compile
<1>1. PICK i \in 1..Len(builders) :
        builders' = [builders EXCEPT ![i] = [builders[i] EXCEPT !.trie = builders[i].routes]]
  BY DEF Compile
<1> DEFINE b == builders[i]
           c == [b EXCEPT !.trie = b.routes]
<1>2. b \in BuilderType
  BY <1>0 DEF SoundBuilder
<1>3. c \in SoundBuilder
  <2> HIDE DEF b
  <2> QED
    BY <1>2, BuilderUpdates
<1>4. builders' = [builders EXCEPT ![i] = c]
  BY <1>1
<1> HIDE DEF c
<1>5. builders' \in Seq(SoundBuilder)
  BY <1>0, <1>3, <1>4
<1> QED
  BY <1>0, <1>5, BuildingKeeps

LEMMA ServeKeeps ==
  ASSUME PipelineInv, Serve
  PROVE  PipelineInv'
<1> DEFINE m == Builder'.middlewares
           t == Builder'.typed
           n == Builder'.derivers
           first == IF m = 0 THEN <<"core", 0>> ELSE <<"middleware", 1>>
           onion == Onion'
<1>1. /\ serving' \in 1..Len(builders) /\ builders' = builders /\ layers' = <<first>>
      /\ result' = Nothing /\ derived' = {} /\ status' = 0 /\ clientGot' = "none"
  BY DEF PipelineInv, Unserved, Serve, Builder
<1>2. builders \in Seq(SoundBuilder) /\ Builder' = builders[serving'] /\ serving' # 0
  BY <1>1 DEF PipelineInv, PipelineTyped, Builder
<1>3. Builder' \in SoundBuilder
  BY <1>1, <1>2
<1>4. m \in Nat /\ t \in Nat /\ n \in Nat
  BY <1>3 DEF SoundBuilder, BuilderType
<1>5. /\ onion \in Seq(Layer) /\ Len(onion) = m + t + 2
      /\ \A i \in 1..m : onion[i] = <<"middleware", i>>
      /\ onion[m + 1] = <<"core", 0>>
  <2>1. onion = OnionOf(m, t)
    BY DEF Onion, OnionOf
  <2> HIDE DEF onion, m, t
  <2> QED
    BY <1>4, <2>1, OnionLayers
<1> HIDE DEF onion
<1>6. first \in Layer /\ onion[1] = first
  <2>1. m = 0 => m + 1 = 1
    OBVIOUS
  <2>2. m # 0 => 1 \in 1..m
    BY <1>4
  <2>3. onion[1] = first
    BY <1>5, <2>1, <2>2
  <2>4. <<"core", 0>> \in Layer /\ <<"middleware", 1>> \in Layer
    BY DEF Layer
  <2> QED
    BY <2>3, <2>4
<1> HIDE DEF first
<1>7. layers' \in Seq(Layer) /\ Len(layers') = 1 /\ layers'[1] = first /\ layers' # <<>>
  BY <1>1, <1>6
<1>8. DerivedAt(1, m, n, derived')
  <2> HIDE DEF m, n
  <2>1. 1 <= m \/ m = 0
    BY <1>4
  <2>2. 0 \in 0..(n + 1) /\ 0..(0 - 1) = {} /\ ~(1 > m + 1)
    BY <1>4
  <2> QED
    BY <1>1, <2>1, <2>2 DEF DerivedAt
<1>9. PipelineTyped'
  BY <1>1, <1>2, <1>7, ResultFacts DEF PipelineTyped
<1>10. Unserved'
  BY <1>2 DEF Unserved
<1>11. InOnion'
  <2>1. 1 <= m + t + 2
    BY <1>4
  <2>2. \A i \in 1..1 : i = 1
    OBVIOUS
  <2> QED
    BY <1>6, <1>7, <1>8, <2>1, <2>2 DEF InOnion, onion
<1>12. AnsweredSoFar'
  BY <1>1, <1>7, ResultFacts DEF AnsweredSoFar
<1> QED
  BY <1>9, <1>10, <1>11, <1>12 DEF PipelineInv

\* After the layers have returned, nothing but the answer is left.
LEMMA AnswerKeeps ==
  ASSUME PipelineInv, layers = <<>>, serving # 0, UNCHANGED <<builders, serving, layers, result, derived>>,
         status' \in {200, 404, 405, 500}, thrown => thrown', AnsweredSoFar'
  PROVE  PipelineInv'
<1>1. PipelineTyped'
  BY DEF PipelineInv, PipelineTyped
<1>2. Unserved'
  BY DEF Unserved
<1>3. InOnion'
  <2>1. SameBuilder
    BY SameBuilders
  <2> QED
    BY <2>1, SameOnion DEF PipelineInv, InOnion, SameBuilder
<1> QED
  BY <1>1, <1>2, <1>3 DEF PipelineInv

LEMMA FetchAnswersKeeps ==
  ASSUME PipelineInv, FetchAnswers
  PROVE  PipelineInv'
<1>1. /\ layers = <<>> /\ serving # 0 /\ status = 0
      /\ UNCHANGED <<builders, serving, layers, result, derived, clientGot>>
  BY DEF FetchAnswers
<1>2. /\ result \in Results \ {Nothing}
      /\ result = Rejected => thrown
      /\ result.by = "router" => "found" \notin Builder.routes
      /\ clientGot # "Ok"
  BY <1>1 DEF PipelineInv, PipelineTyped, AnsweredSoFar
<1>3. Builder' = Builder
  BY <1>1 DEF Builder
<1> DEFINE Due == /\ status' \in {200, 404, 405, 500} /\ (thrown => thrown')
                  /\ result.by = "router" => Builder.custom \/ status' \in {404, 405}
                  /\ status' = 500 => thrown' \/ Builder.custom \/ result.by = "user"
                  /\ status' = 200 => Builder.custom \/ result = Response(200)
<1>4. Due
  <2>1. CASE result = Rejected
    <3>1. result.error = "rejected" /\ result.by = "user"
      BY <2>1 DEF Rejected, Failed
    <3>2. status' = 500 /\ thrown' = thrown
      BY <3>1 DEF FetchAnswers, ServerErrors
    <3> QED
      BY <3>1, <3>2
  <2>2. CASE result \in {Response(code) : code \in Statuses}
    <3>1. PICK code \in Statuses : result = Response(code)
      BY <2>2
    <3>2. result.error = "none" /\ result.status = code /\ result.by = "user"
      BY <3>1 DEF Response
    <3>3. status' = code /\ thrown' = thrown
      BY <3>2 DEF FetchAnswers, ServerErrors
    <3> QED
      BY <3>1, <3>2, <3>3 DEF Statuses
  <2>3. ASSUME NEW e \in ServerErrors, NEW by \in {"user", "router"}, result = Failed(e, by),
               by = "router" => e \in {"RouteNotFound", "MethodNotAllowed"}
        PROVE  Due
    <3>1. result.error = e /\ result.by = by /\ e # "none" /\ e # "rejected"
      BY <2>3 DEF Failed, ServerErrors
    <3>2. \/ ~Builder.custom /\ status' = DefaultStatus(e) /\ thrown' = thrown
          \/ Builder.custom /\ status' \in Statuses /\ thrown' = thrown
          \/ Builder.custom /\ status' = 500 /\ thrown' = TRUE
      BY <3>1 DEF FetchAnswers
    <3>3. /\ DefaultStatus(e) \in {404, 405, 500}
          /\ by = "router" => DefaultStatus(e) \in {404, 405}
      BY <2>3 DEF DefaultStatus
    <3> QED
      BY <3>1, <3>2, <3>3 DEF Statuses
  <2>4. \/ result = Rejected \/ result \in {Response(code) : code \in Statuses}
        \/ \E e \in ServerErrors : result = Failed(e, "user")
        \/ \E e \in {"RouteNotFound", "MethodNotAllowed"} : result = Failed(e, "router")
    BY <1>2 DEF Results, UserResults, Refusals
  <2> QED
    BY <2>1, <2>2, <2>3, <2>4 DEF ServerErrors
<1>5. AnsweredSoFar'
  BY <1>1, <1>2, <1>3, <1>4 DEF AnsweredSoFar
<1> QED
  BY <1>1, <1>4, <1>5, AnswerKeeps

LEMMA ClientReceivesKeeps ==
  ASSUME PipelineInv, ClientReceives
  PROVE  PipelineInv'
<1>1. /\ status # 0 /\ UNCHANGED <<builders, serving, layers, result, derived, thrown, status>>
      /\ clientGot' = "Ok" => status = 200
  BY DEF ClientReceives
<1>2. AnsweredSoFar /\ PipelineTyped
  BY DEF PipelineInv
<1>3. layers = <<>> /\ serving # 0 /\ status' \in {200, 404, 405, 500}
  BY <1>1, <1>2 DEF AnsweredSoFar, PipelineTyped
<1>4. Builder' = Builder
  BY <1>1 DEF Builder
<1>5. AnsweredSoFar'
  BY <1>1, <1>2, <1>4 DEF AnsweredSoFar
<1> QED
  BY <1>1, <1>3, <1>5, AnswerKeeps

LEMMA PipelineStart == PipelineInit => PipelineInv
<1> SUFFICES ASSUME PipelineInit PROVE PipelineInv
  OBVIOUS
<1>1. PICK b \in Builders : builders = <<b>>
  BY DEF PipelineInit
<1>2. b \in SoundBuilder
  <2>1. MaxLayers \in Nat
    BY PipelineAssumption
  <2>2. /\ b.routes \in {{}, {"found"}} /\ b.middlewares \in 0..MaxLayers /\ b.derivers \in 0..MaxLayers
        /\ b.typed \in 0..MaxLayers /\ b.custom \in {FALSE} /\ b.trie \in {{"none"}}
        /\ b = [routes |-> b.routes, middlewares |-> b.middlewares, derivers |-> b.derivers,
                typed |-> b.typed, custom |-> b.custom, trie |-> b.trie]
    BY <1>1 DEF Builders
  <2>3. /\ b.routes \in SUBSET {"found", "other"} /\ b.middlewares \in Nat /\ b.derivers \in Nat
        /\ b.typed \in Nat /\ b.trie \in SUBSET {"found", "other", "none"} /\ b.trie = {"none"}
    BY <2>1, <2>2
  <2>4. b.custom \in BOOLEAN
    BY <2>2
  <2>5. b \in BuilderType
    BY <2>2, <2>3, <2>4 DEF BuilderType
  <2> QED
    BY <2>3, <2>5 DEF SoundBuilder
<1>3. builders \in Seq(SoundBuilder) /\ Len(builders) = 1
  BY <1>1, <1>2
<1>4. /\ serving = 0 /\ layers = <<>> /\ result = Nothing /\ derived = {}
      /\ status = 0 /\ clientGot = "none"
  BY DEF PipelineInit
<1>5. PipelineTyped /\ Unserved /\ InOnion
  BY <1>3, <1>4, ResultFacts DEF PipelineTyped, Unserved, InOnion
<1>6. AnsweredSoFar
  BY <1>4, ResultFacts DEF AnsweredSoFar
<1> QED
  BY <1>5, <1>6 DEF PipelineInv

LEMMA PipelineSteps == PipelineInv /\ [PipelineNext]_pipelineVars => PipelineInv'
<1> SUFFICES ASSUME PipelineInv, [PipelineNext]_pipelineVars PROVE PipelineInv'
  OBVIOUS
<1>1. CASE PipelineNext
  BY <1>1, BuildKeeps, CompileKeeps, ServeKeeps, CallNextKeeps, LayerReturnsKeeps, MatchKeeps, DeriveKeeps,
     EnterCoreKeeps, CoreReturnsKeeps, HandleKeeps, FetchAnswersKeeps, ClientReceivesKeeps, Zenon
     DEF PipelineNext
<1>2. CASE UNCHANGED pipelineVars
  <2>1. UNCHANGED <<builders, serving, layers, result, derived, thrown, status, clientGot>>
    BY <1>2 DEF pipelineVars, serveVars
  <2>2. Builder' = Builder /\ Onion' = Onion
    BY <2>1 DEF Builder, Onion
  <2> QED
    BY <2>1, <2>2 DEF PipelineInv, PipelineTyped, Unserved, InOnion, AnsweredSoFar
<1> QED
  BY <1>1, <1>2

LEMMA PipelineInvSound == PipelineInv => PipelineSound
<1> SUFFICES ASSUME PipelineInv PROVE PipelineSound
  OBVIOUS
<1> DEFINE m == Builder.middlewares
           t == Builder.typed
           n == Builder.derivers
           k == Len(layers)
           onion == Onion
<1>0. PipelineTyped /\ Unserved /\ InOnion /\ AnsweredSoFar
  BY DEF PipelineInv
<1>1. ASSUME Inside("handler") PROVE layers = Onion /\ derived = 0..n
  <2>0. layers # <<>> /\ layers \in Seq(Layer)
    BY <1>0, <1>1 DEF Inside, PipelineTyped
  <2>1. serving # 0 /\ m \in Nat /\ t \in Nat /\ k = m + t + 2
    BY <1>0, <1>1, <2>0, TopLayer
  <2>2. onion \in Seq(Layer) /\ Len(onion) = m + t + 2
    <3>1. onion = OnionOf(m, t)
      BY DEF Onion, OnionOf
    <3> HIDE DEF onion, m, t
    <3> QED
      BY <2>1, <3>1, OnionLayers
  <2>3. \A i \in 1..Len(layers) : layers[i] = onion[i]
    BY <1>0, <2>1 DEF InOnion
  <2>4. DerivedAt(k, m, n, derived)
    BY <1>0, <2>1 DEF InOnion
  <2>5. layers = onion
    <3> HIDE DEF onion
    <3> QED
      BY <2>0, <2>1, <2>2, <2>3, SeqEqual
  <2>6. k > m + 1
    BY <2>1
  <2> HIDE DEF m, n, k
  <2>7. derived = 0..n
    BY <2>4, <2>6 DEF DerivedAt
  <2> QED
    BY <2>5, <2>7
<1>2. \A i \in 1..Len(builders) : builders[i].trie \in {{"none"}, builders[i].routes}
  BY <1>0 DEF PipelineTyped, SoundBuilder
<1>3. /\ result.by = "router" => /\ "found" \notin Builder.routes
                                 /\ status # 0 => Builder.custom \/ status \in {404, 405}
      /\ status = 500 => thrown \/ Builder.custom \/ result.by = "user"
      /\ status = 200 => Builder.custom \/ result = Response(200)
      /\ clientGot = "Ok" => status = 200
  BY <1>0 DEF AnsweredSoFar
<1> QED
  BY <1>1, <1>2, <1>3 DEF PipelineSound

-----------------------------------------------------------------------------
(* The parts together: a step of one leaves the others alone. *)

LEMMA CommandPart == [Next]_vars => [SubprocessNext]_subprocessVars
BY Zenon DEF Next, Only, vars

LEMMA ExchangePart == [Next]_vars => [ExchangeNext]_exchangeVars
BY Zenon DEF Next, Only, vars

LEMMA MachinePart == [Next]_vars => [MachineNext]_machineVars
BY Zenon DEF Next, Only, vars

LEMMA ParallelPart == [Next]_vars => [\E t \in TaskId : TaskSettles(t)]_parallelVars
BY Zenon DEF Next, Only, vars

LEMMA LazyPart == [Next]_vars => [LazyNext]_lazyVars
BY Zenon DEF Next, Only, vars

LEMMA PipelinePart == [Next]_vars => [PipelineNext]_pipelineVars
BY Zenon DEF Next, Only, vars

LEMMA BreakerPart == [Next]_vars => [BreakerNext]_breakerVars
BY Zenon DEF Next, Only, vars

LEMMA AttemptPart == [Next]_vars => [AttemptNext]_attemptVars
BY Zenon DEF Next, Only, vars

LEMMA LimiterPart == [Next]_vars => [LimiterNext]_<<limiterVars, now>>
<1>1. CASE UNCHANGED <<limiterVars, now>>
  BY <1>1
<1> QED
  BY <1>1, Zenon DEF Next, Only, vars

LEMMA CachePart == [Next]_vars => [CacheNext]_<<cacheVars, clock>>
<1>1. CASE UNCHANGED <<cacheVars, clock>>
  BY <1>1
<1> QED
  BY <1>1, Zenon DEF Next, Only, vars

\* For any waiters and bodies, no order of a platform's events leaves a child, a timer, a
\* stream or a reply behind, or has a listener throw once a handler is called
\* (subprocess.ts, node.ts, bun.ts, lambda.ts, workers.ts).
THEOREM AdaptersAreSound == Spec => []AdaptersSound
<1>1. Init => CommandInv /\ ExchangeInv
  BY CommandStart, ExchangeStart DEF Init
<1>2. CommandInv /\ [Next]_vars => CommandInv'
  BY CommandPart, CommandSteps
<1>3. ExchangeInv /\ [Next]_vars => ExchangeInv'
  BY ExchangePart, ExchangeSteps
<1>4. CommandInv /\ ExchangeInv => AdaptersSound
  BY DEF CommandInv, ExchangeInv, AdaptersSound
<1> QED
  BY <1>1, <1>2, <1>3, <1>4, PTL DEF Spec

\* For any machine with its states, transitions and hooks, through any sequence of events
\* the hooks bracket each stay in a state (transition, send).
THEOREM MachineHooksBracket == Spec => []HooksBracketStates
<1>1. Init => MachineInv
  BY MachineStart DEF Init
<1>2. MachineInv /\ [Next]_vars => MachineInv'
  BY MachinePart, MachineSteps
<1>3. MachineInv => HooksBracketStates
  BY DEF MachineInv
<1> QED
  BY <1>1, <1>2, <1>3, PTL DEF Spec

\* For any number of parallel tasks and any order in which they settle, what a combinator
\* answers goes by their places in the list; for any policy the delays grow to its cap;
\* and the reads of a Lazy agree whatever its thunk does (task.ts, retry.ts, lazy.ts).
THEOREM TasksAreSound == Spec => []TasksSound
<1>1. Init => ParallelInv /\ LazyInv
  BY ParallelStart, LazyStart DEF Init
<1>2. ParallelInv /\ [Next]_vars => ParallelInv'
  BY ParallelPart, ParallelSteps, ParallelStays
<1>3. LazyInv /\ [Next]_vars => LazyInv'
  BY LazyPart, LazySteps
<1>4. ParallelInv /\ LazyInv => TasksSound
  BY LazyIsStable, DelaysDoGrow, ParallelByPosition DEF TasksSound
<1> QED
  BY <1>1, <1>2, <1>3, <1>4, PTL DEF Spec

\* For any number of builders, layers and calls of next, a handler runs inside all the
\* middleware in the order of registration and with the fields of all derivers, whatever
\* user code does; a compiled trie is of its own builder's routes; an answer's status
\* says what came of the request (server.ts, client.ts).
THEOREM PipelineIsSound == Spec => []PipelineSound
<1>1. Init => PipelineInv
  BY PipelineStart DEF Init
<1>2. PipelineInv /\ [Next]_vars => PipelineInv'
  BY PipelinePart, PipelineSteps
<1> QED
  BY <1>1, <1>2, PipelineInvSound, PTL DEF Spec

\* The variables of all policies and adapters keep their types: among them that the
\* breaker counts to its threshold at most, that the limiter's tokens stay within its
\* capacity, and that a cache holds maxSize entries at most, one for each key.
THEOREM PoliciesTyped == Spec => []PoliciesTypeOK
<1> DEFINE PoliciesInv ==
             BreakerTypeOK /\ LimiterInv /\ CacheInv /\ AttemptInv /\ CommandInv /\ ExchangeInv
<1>1. Init => PoliciesInv
  BY BreakerInitType, LimiterInitInv, CacheInitInv, AttemptInitInv, CommandStart, ExchangeStart DEF Init
<1>2. PoliciesInv /\ [Next]_vars => PoliciesInv'
  <2> SUFFICES ASSUME PoliciesInv, [Next]_vars PROVE PoliciesInv'
    OBVIOUS
  <2>1. BreakerTypeOK'
    BY BreakerPart, BreakerNextType
  <2>2. LimiterInv'
    BY LimiterPart, LimiterNextInv
  <2>3. CacheInv'
    BY CachePart, CacheNextInv
  <2>4. AttemptInv'
    BY AttemptPart, AttemptNextInv
  <2>5. CommandInv'
    BY CommandPart, CommandSteps
  <2>6. ExchangeInv'
    BY ExchangePart, ExchangeSteps
  <2> QED
    BY <2>1, <2>2, <2>3, <2>4, <2>5, <2>6
<1>3. PoliciesInv => PoliciesTypeOK
  BY DEF LimiterInv, CacheInv, AttemptInv, CommandInv, ExchangeInv, PoliciesTypeOK
<1> QED
  BY <1>1, <1>2, <1>3, PTL DEF Spec
=============================================================================
