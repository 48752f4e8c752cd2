----------------------------- MODULE QueueProofs -----------------------------
(***************************************************************************)
(* Proofs about the job queue, for every concurrency, every set of         *)
(* priorities and drainers, every clock and every depth of nested calls.   *)
(*                                                                         *)
(* The invariant adds to QueueSound that no job is in two places, that ids *)
(* are given in order, that every job pushed is pending, active or         *)
(* processed, and that pending is sorted, which insertSorted's binary      *)
(* search both needs and keeps.                                            *)
(***************************************************************************)
EXTENDS Queue, QueueLemmas

USE QueueAssumption

-----------------------------------------------------------------------------
(* The inductive invariant. *)

Places == {"onError", "dequeue", "handler", "loop"}
JobOrNone == Job \cup {None}
FrameType == [at : Places, check : BOOLEAN, job : JobOrNone]

\* The frames in which a handler runs, and their jobs.
Frames(s) == {i \in DOMAIN s : s[i].at = "handler"}
Called(s) == {s[i].job : i \in Frames(s)}

\* QueueTypeOK without activeCount and processedCount, which Counted is about.
Typed ==
  /\ pending \in Seq(Job)
  /\ paused \in BOOLEAN
  /\ nextJobId \in 1 .. MaxJobs + 1
  /\ awaiting \subseteq Job /\ threw \subseteq Job
  /\ stack \in Seq(FrameType)
  /\ \A i \in Frames(stack) : stack[i].job \in Job
  /\ dpc \in [Drainer -> {"uncalled", "waiting", "resolved"}]
  /\ promised \in [Drainer -> SUBSET Job]
  /\ broken \in BOOLEAN

\* A job is in one place: waiting once, in one handler, awaited, or thrown.
OnePlace ==
  /\ IsInjective(pending)
  /\ awaiting \cap threw = {}
  /\ Called(stack) \cap (awaiting \cup threw) = {}
  /\ \A i, k \in Frames(stack) : stack[i].job = stack[k].job => i = k
  /\ Range(pending) \cap Active = {}

\* Ids are given in order.
Numbered ==
  /\ \A j \in Unfinished : j.id < nextJobId
  /\ \A d \in Drainer : \A j \in promised[d] : j.id < nextJobId

\* activeCount counts what runs, never more than Concurrency, and every job pushed is
\* pending, active or processed.
Counted ==
  /\ IsFiniteSet(Active)
  /\ activeCount = Cardinality(Active)
  /\ activeCount <= Concurrency
  /\ processedCount \in Nat
  /\ processedCount + Len(pending) + activeCount = nextJobId - 1

\* No job waits behind one that is due later.
Sorted == \A i, k \in DOMAIN pending : i < k => B!Due(pending[i], pending[k])

QueueInv ==
  /\ Typed /\ OnePlace /\ Numbered /\ Counted /\ Sorted
  /\ NoIdleSlot /\ DrainCovers

-----------------------------------------------------------------------------
(* The call stack. *)

LEMMA ActiveIs ==
  /\ Active = awaiting \cup threw \cup Called(stack)
  /\ Active' = awaiting' \cup threw' \cup Called(stack')
BY DEF Active, Called, Frames, Range

\* A frame without a handler comes on top, and leaves.
LEMMA PushFrame ==
  ASSUME NEW s \in Seq(FrameType), NEW f \in FrameType, f.at # "handler"
  PROVE  /\ Append(s, f) \in Seq(FrameType)
         /\ Append(s, f) # <<>>
         /\ Frames(Append(s, f)) = Frames(s)
         /\ \A i \in Frames(s) : Append(s, f)[i] = s[i]
<1> DEFINE t == Append(s, f)
<1>1. /\ t \in Seq(FrameType) /\ Len(s) \in Nat /\ Len(t) = Len(s) + 1
      /\ DOMAIN s = 1 .. Len(s) /\ DOMAIN t = 1 .. Len(s) + 1
      /\ t[Len(s) + 1] = f
      /\ \A i \in 1 .. Len(s) : t[i] = s[i]
  OBVIOUS
<1> HIDE DEF t
<1>2. t # <<>>
  BY <1>1
<1>3. Frames(t) = Frames(s)
  BY <1>1 DEF Frames
<1> QED
  BY <1>1, <1>2, <1>3 DEF Frames, t

LEMMA PopFrame ==
  ASSUME NEW s \in Seq(FrameType), s # <<>>, s[Len(s)].at # "handler"
  PROVE  LET t == SubSeq(s, 1, Len(s) - 1)
         IN  /\ t \in Seq(FrameType)
             /\ Frames(t) = Frames(s)
             /\ \A i \in Frames(s) : t[i] = s[i]
<1> DEFINE t == SubSeq(s, 1, Len(s) - 1)
<1>1. /\ t \in Seq(FrameType) /\ Len(s) \in Nat \ {0}
      /\ DOMAIN s = 1 .. Len(s) /\ DOMAIN t = 1 .. Len(s) - 1
      /\ \A i \in 1 .. Len(s) - 1 : t[i] = s[i]
  OBVIOUS
<1> HIDE DEF t
<1>2. Frames(t) = Frames(s)
  BY <1>1 DEF Frames
<1>3. \A i \in Frames(s) : t[i] = s[i]
  BY <1>1, SMTT(30) DEF Frames
<1> QED
  BY <1>1, <1>2, <1>3 DEF t

\* What Goto makes of the stack: it changes the innermost frame only.
Moved(s, place, j) == [s EXCEPT ![Len(s)].at = place, ![Len(s)].job = j]

LEMMA GotoFrame ==
  ASSUME NEW s \in Seq(FrameType), s # <<>>,
         NEW place \in Places, NEW j \in JobOrNone,
         NEW t, t = Moved(s, place, j)
  PROVE  /\ Len(s) \in DOMAIN s
         /\ t \in Seq(FrameType) /\ t # <<>>
         /\ DOMAIN t = DOMAIN s
         /\ t[Len(s)].at = place /\ t[Len(s)].job = j
         /\ \A i \in DOMAIN s \ {Len(s)} : t[i] = s[i]
<1> DEFINE n == Len(s)
<1>1. n \in Nat \ {0} /\ DOMAIN s = 1 .. n /\ n \in DOMAIN s
  OBVIOUS
<1>2. s[n] \in FrameType
  BY <1>1
<1>3. t = [i \in 1 .. n |-> IF i = n THEN [[s[n] EXCEPT !.at = place] EXCEPT !.job = j] ELSE s[i]]
  BY <1>1, <1>2 DEF FrameType, Moved
<1>4. [[s[n] EXCEPT !.at = place] EXCEPT !.job = j] \in FrameType
  BY <1>2 DEF FrameType
<1> DEFINE f == [[s[n] EXCEPT !.at = place] EXCEPT !.job = j]
<1>5. f \in FrameType /\ f.at = place /\ f.job = j
  BY <1>2, <1>4 DEF FrameType
<1> HIDE DEF f
<1>6. t = [i \in 1 .. n |-> IF i = n THEN f ELSE s[i]]
  BY <1>3 DEF f
<1>7. t \in Seq(FrameType) /\ Len(t) = n /\ DOMAIN t = 1 .. n
  <2>1. \A i \in 1 .. n : s[i] \in FrameType
    OBVIOUS
  <2>2. \A i \in 1 .. n : t[i] \in FrameType
    BY <1>5, <1>6, <2>1
  <2> HIDE DEF n
  <2> QED
    BY <1>1, <1>6, <2>2, IsASeq
<1>8. t # <<>>
  BY <1>1, <1>7
<1> QED
  BY <1>1, <1>5, <1>6, <1>7, <1>8, ZenonT(60)
-----------------------------------------------------------------------------
(* insertSorted. *)

LEMMA Middle ==
  ASSUME NEW low \in Nat, NEW high \in Nat, low < high
  PROVE  /\ (low + high) \div 2 \in Nat
         /\ low <= (low + high) \div 2 /\ (low + high) \div 2 < high
OBVIOUS

\* What comes before a job that a new one comes after is one the new one comes after.
LEMMA DueBefore ==
  ASSUME NEW a \in Job, NEW b \in Job, NEW new \in Job, B!Due(a, b), NotAfter(b, new)
  PROVE  NotAfter(a, new)
<1>1. /\ a.priority \in Int /\ b.priority \in Int /\ new.priority \in Int
      /\ a.createdAt \in Nat /\ b.createdAt \in Nat /\ new.createdAt \in Nat
  BY DEF Job
<1> QED
  BY <1>1 DEF B!Due, NotAfter

\* One call of the binary search, as a function of those it makes.
Half(g, range, new) ==
  LET low == range[1]  high == range[2]  mid == (low + high) \div 2
  IN  IF low >= high THEN low
      ELSE IF NotAfter(pending[mid + 1], new) THEN g[<<mid + 1, high>>]
           ELSE g[<<low, mid>>]

Ranges == (0 .. Len(pending)) \X (0 .. Len(pending))
Searches(g, n, new) ==
  /\ g = [r \in Ranges |-> g[r]]
  /\ \A r \in Ranges : r[2] - r[1] <= n => g[r] = Half(g, r, new)

\* The search ends: ranges become smaller.
LEMMA SearchExists ==
  ASSUME pending \in Seq(Job), NEW new \in Job
  PROVE  \E g : Searches(g, Len(pending), new)
<1> DEFINE L == Len(pending)
           P == {n \in Nat : \E g : Searches(g, n, new)}
<1>0. L \in Nat
  OBVIOUS
<1>1. 0 \in P
  <2> DEFINE g == [r \in Ranges |-> r[1]]
  <2>1. Searches(g, 0, new)
    BY <1>0 DEF Searches, Half, Ranges
  <2> QED
    BY <2>1
<1>2. ASSUME NEW n \in Nat, n \in P PROVE n + 1 \in P
  <2>1. PICK g : Searches(g, n, new)
    BY <1>2
  <2> DEFINE h == [r \in Ranges |-> IF r[2] - r[1] <= n THEN g[r] ELSE Half(g, r, new)]
  <2>2. /\ h = [r \in Ranges |-> h[r]]
        /\ \A r \in Ranges : r[2] - r[1] <= n => h[r] = g[r]
        /\ \A r \in Ranges : ~(r[2] - r[1] <= n) => h[r] = Half(g, r, new)
    OBVIOUS
  <2> HIDE DEF h
  <2>3. ASSUME NEW r \in Ranges, r[2] - r[1] <= n + 1
        PROVE  h[r] = Half(h, r, new)
    <3> DEFINE low == r[1]
               high == r[2]
               mid == (low + high) \div 2
    <3>1. low \in 0 .. L /\ high \in 0 .. L
      BY DEF Ranges
    <3>2. h[r] = Half(g, r, new)
      BY <2>1, <2>2, <3>1 DEF Searches
    <3>3. CASE low >= high
      BY <3>2, <3>3 DEF Half
    <3>4. CASE low < high
      <4>1. mid \in Nat /\ low <= mid /\ mid < high
        BY <3>1, <3>4, <1>0, Middle
      <4> HIDE DEF mid
      <4>2. /\ <<mid + 1, high>> \in Ranges /\ high - (mid + 1) <= n
            /\ <<low, mid>> \in Ranges /\ mid - low <= n
        BY <4>1, <3>1, <1>0, <2>3 DEF Ranges
      <4> DEFINE upper == <<mid + 1, high>>
                 lower == <<low, mid>>
      <4>3. upper[1] = mid + 1 /\ upper[2] = high /\ lower[1] = low /\ lower[2] = mid
        OBVIOUS
      <4> HIDE DEF upper, lower
      <4>4. h[upper] = g[upper] /\ h[lower] = g[lower]
        BY <2>2, <4>2, <4>3 DEF upper, lower
      <4>5. /\ Half(g, r, new) = IF NotAfter(pending[mid + 1], new) THEN g[upper] ELSE g[lower]
            /\ Half(h, r, new) = IF NotAfter(pending[mid + 1], new) THEN h[upper] ELSE h[lower]
        BY <3>1, <3>4 DEF Half, mid, upper, lower
      <4> QED
        BY <3>2, <4>4, <4>5
    <3> QED
      BY <3>1, <3>3, <3>4
  <2>4. Searches(h, n + 1, new)
    BY <2>2, <2>3 DEF Searches
  <2> QED
    BY <2>4
<1>3. \A n \in Nat : n \in P
  <2> HIDE DEF P
  <2> QED
    BY <1>1, <1>2, NatSetInduction
<1> QED
  BY <1>0, <1>3

LEMMA SearchIs ==
  ASSUME pending \in Seq(Job), NEW new \in Job
  PROVE  \E g : /\ Position(new) = g[<<0, Len(pending)>>]
                /\ \A r \in Ranges : g[r] = Half(g, r, new)
<1> DEFINE search == CHOOSE g : g = [r \in Ranges |-> Half(g, r, new)]
<1>1. Position(new) = search[<<0, Len(pending)>>]
  BY DEF Position, Ranges, Half
<1>2. PICK g : Searches(g, Len(pending), new)
  BY SearchExists
<1>3. \A r \in Ranges : r[2] - r[1] <= Len(pending)
  BY DEF Ranges
<1>4. \A r \in Ranges : g[r] = Half(g, r, new)
  BY <1>2, <1>3 DEF Searches
<1>5. g = [r \in Ranges |-> Half(g, r, new)]
  BY <1>2, <1>4 DEF Searches
<1>6. search = [r \in Ranges |-> Half(search, r, new)]
  BY <1>5
<1> HIDE DEF search
<1> QED
  BY <1>1, <1>6

\* The jobs up to low go before the new one, those from high on do not.
Parted(low, high, new) ==
  /\ low \in 0 .. Len(pending) /\ high \in 0 .. Len(pending) /\ low <= high
  /\ \A i \in 1 .. Len(pending) : i <= low => NotAfter(pending[i], new)
  /\ \A i \in 1 .. Len(pending) : i > high => ~NotAfter(pending[i], new)

\* The binary search finds the place of the new job.
LEMMA PositionParts ==
  ASSUME pending \in Seq(Job), Sorted, NEW new \in Job
  PROVE  Parted(Position(new), Position(new), new)
<1> DEFINE L == Len(pending)
<1>0. L \in Nat /\ DOMAIN pending = 1 .. L
  OBVIOUS
<1>1. PICK g : Position(new) = g[<<0, L>>] /\ \A r \in Ranges : g[r] = Half(g, r, new)
  BY SearchIs
<1> DEFINE P == {n \in Nat : \A low, high \in 0 .. L :
                   Parted(low, high, new) /\ high - low <= n
                     => Parted(g[<<low, high>>], g[<<low, high>>], new)}
<1>2. 0 \in P
  <2> SUFFICES ASSUME NEW low \in 0 .. L, NEW high \in 0 .. L, Parted(low, high, new), high - low <= 0
               PROVE  Parted(g[<<low, high>>], g[<<low, high>>], new)
    OBVIOUS
  <2>1. low = high /\ <<low, high>> \in Ranges
    BY <1>0 DEF Parted, Ranges
  <2>2. g[<<low, high>>] = low
    <3> DEFINE r == <<low, high>>
    <3>1. r[1] = low /\ r[2] = high /\ g[r] = Half(g, r, new)
      BY <1>1, <2>1
    <3> HIDE DEF r
    <3>2. low >= high
      BY <2>1
    <3> QED
      BY <3>1, <3>2 DEF Half, r
  <2> QED
    BY <2>1, <2>2
<1>3. ASSUME NEW n \in Nat, n \in P PROVE n + 1 \in P
  <2> SUFFICES ASSUME NEW low \in 0 .. L, NEW high \in 0 .. L, Parted(low, high, new), high - low <= n + 1
               PROVE  Parted(g[<<low, high>>], g[<<low, high>>], new)
    OBVIOUS
  <2> DEFINE mid == (low + high) \div 2
  <2>1. CASE low = high
    BY <1>0, <1>3, <2>1
  <2>2. CASE low < high
    <3>1. mid \in Nat /\ low <= mid /\ mid < high
      BY <2>2, <1>0, Middle
    <3>2. g[<<low, high>>] = IF NotAfter(pending[mid + 1], new) THEN g[<<mid + 1, high>>] ELSE g[<<low, mid>>]
      <4>1. <<low, high>> \in Ranges
        BY DEF Ranges
      <4> DEFINE r == <<low, high>>
      <4>2. r[1] = low /\ r[2] = high
        OBVIOUS
      <4>3. g[r] = Half(g, r, new)
        BY <1>1, <4>1
      <4> HIDE DEF r
      <4>4. ~(low >= high)
        BY <2>2, <1>0
      <4>5. Half(g, r, new) = IF NotAfter(pending[mid + 1], new) THEN g[<<mid + 1, high>>] ELSE g[<<low, mid>>]
        BY <4>2, <4>4 DEF Half
      <4> QED
        BY <4>3, <4>5 DEF r
    <3> HIDE DEF mid
    <3>3. /\ mid + 1 \in 0 .. L /\ mid \in 0 .. L /\ mid + 1 \in 1 .. L
          /\ high - (mid + 1) <= n /\ mid - low <= n
      BY <3>1, <1>0
    <3>4. CASE NotAfter(pending[mid + 1], new)
      <4>1. ASSUME NEW i \in 1 .. L, i <= mid + 1 PROVE NotAfter(pending[i], new)
        <5>1. CASE i = mid + 1
          BY <5>1, <3>4
        <5>2. CASE i < mid + 1
          <6>1. B!Due(pending[i], pending[mid + 1])
            BY <5>2, <3>3, <1>0 DEF Sorted
          <6>2. pending[i] \in Job /\ pending[mid + 1] \in Job
            BY <3>3, <1>0
          <6> QED
            BY <6>1, <6>2, <3>4, DueBefore
        <5> QED
          BY <4>1, <5>1, <5>2, <3>1
      <4>2. Parted(mid + 1, high, new)
        BY <4>1, <3>1, <3>3 DEF Parted
      <4> QED
        BY <1>3, <3>2, <3>3, <3>4, <4>2
    <3>5. CASE ~NotAfter(pending[mid + 1], new)
      <4>1. ASSUME NEW i \in 1 .. L, i > mid PROVE ~NotAfter(pending[i], new)
        <5>1. CASE i = mid + 1
          BY <5>1, <3>5
        <5>2. CASE i > mid + 1
          <6>1. B!Due(pending[mid + 1], pending[i])
            BY <5>2, <3>3, <1>0 DEF Sorted
          <6>2. pending[i] \in Job /\ pending[mid + 1] \in Job
            BY <3>3, <1>0
          <6> QED
            BY <6>1, <6>2, <3>5, DueBefore
        <5> QED
          BY <4>1, <5>1, <5>2, <3>1
      <4>2. Parted(low, mid, new)
        BY <4>1, <3>1, <3>3 DEF Parted
      <4> QED
        BY <1>3, <3>2, <3>3, <3>5, <4>2
    <3> QED
      BY <3>4, <3>5
  <2> QED
    BY <2>1, <2>2 DEF Parted
<1>4. \A n \in Nat : n \in P
  <2> HIDE DEF P
  <2> QED
    BY <1>2, <1>3, NatSetInduction
<1>5. Parted(0, L, new) /\ L \in P
  <2> HIDE DEF P
  <2>1. \A i \in 1 .. L : ~(i <= 0) /\ ~(i > L)
    BY <1>0
  <2> QED
    BY <1>0, <1>4, <2>1 DEF Parted
<1> QED
  BY <1>0, <1>1, <1>5

LEMMA InsertedAt ==
  ASSUME NEW S, NEW s \in Seq(S), NEW x \in S, NEW p \in 0 .. Len(s)
  PROVE  LET q == SubSeq(s, 1, p) \o <<x>> \o SubSeq(s, p + 1, Len(s))
         IN  /\ q \in Seq(S) /\ Len(q) = Len(s) + 1
             /\ \A i \in 1 .. p : q[i] = s[i]
             /\ q[p + 1] = x
             /\ \A i \in p + 2 .. Len(s) + 1 : q[i] = s[i - 1]
             /\ Range(q) = Range(s) \cup {x}
             /\ IsInjective(s) /\ x \notin Range(s) => IsInjective(q)
<1> DEFINE L == Len(s)
           a == SubSeq(s, 1, p)
           c == SubSeq(s, p + 1, L)
           b == a \o <<x>>
           q == b \o c
<1>1. L \in Nat /\ DOMAIN s = 1 .. L /\ \A i \in 1 .. L : s[i] \in S
  OBVIOUS
<1>2. a \in Seq(S) /\ Len(a) = p /\ \A i \in 1 .. p : a[i] = s[i]
  BY <1>1
<1>3. c \in Seq(S) /\ Len(c) = L - p /\ \A i \in 1 .. L - p : c[i] = s[p + i]
  <2>1. /\ c \in Seq(S)
        /\ Len(c) = IF p + 1 <= L THEN L - (p + 1) + 1 ELSE 0
        /\ \A i \in 1 .. L - (p + 1) + 1 : c[i] = s[p + 1 + i - 1]
    BY <1>1, SubSeqProperties
  <2> HIDE DEF c
  <2>2. Len(c) = L - p
    <3>1. CASE p = L
      BY <1>1, <2>1, <3>1
    <3>2. CASE p < L
      <4>1. p + 1 <= L /\ L - (p + 1) + 1 = L - p
        BY <1>1, <3>2
      <4> QED
        BY <2>1, <4>1
    <3>3. p \in Int /\ p <= L
      BY <1>1
    <3> HIDE DEF L
    <3>4. p = L \/ p < L
      BY <1>1, <3>3
    <3> QED
      BY <3>1, <3>2, <3>4
  <2>3. ASSUME NEW i \in 1 .. L - p PROVE c[i] = s[p + i]
    <3>1. p + 1 + i - 1 = p + i /\ i \in 1 .. L - (p + 1) + 1
      BY <1>1
    <3>2. c[i] = s[p + 1 + i - 1]
      BY <2>1, <3>1
    <3> QED
      BY <3>1, <3>2
  <2> QED
    BY <2>1, <2>2, <2>3
<1> HIDE DEF a, c
<1>4. b \in Seq(S) /\ Len(b) = p + 1 /\ b[p + 1] = x /\ \A i \in 1 .. p : b[i] = s[i]
  BY <1>1, <1>2
<1> HIDE DEF b
<1>5. /\ q \in Seq(S) /\ Len(q) = L + 1
      /\ \A i \in 1 .. L + 1 : q[i] = IF i <= p + 1 THEN b[i] ELSE c[i - (p + 1)]
  <2>1. /\ q \in Seq(S) /\ Len(q) = Len(b) + Len(c)
        /\ \A i \in 1 .. Len(b) + Len(c) : q[i] = IF i <= Len(b) THEN b[i] ELSE c[i - Len(b)]
    BY <1>3, <1>4, ConcatProperties
  <2> HIDE DEF q
  <2>2. Len(b) + Len(c) = L + 1
    BY <1>1, <1>3, <1>4
  <2> QED
    BY <1>4, <2>1, <2>2
<1> HIDE DEF q
<1>6. DOMAIN q = 1 .. L + 1
  BY <1>5
<1>7. /\ \A i \in 1 .. p : q[i] = s[i]
      /\ q[p + 1] = x
  BY <1>1, <1>4, <1>5
<1>8. ASSUME NEW i \in p + 2 .. L + 1 PROVE q[i] = s[i - 1]
  <2>1. i \in 1 .. L + 1 /\ ~(i <= p + 1) /\ i - (p + 1) \in 1 .. L - p /\ p + (i - (p + 1)) = i - 1
    BY <1>1
  <2> QED
    BY <2>1, <1>3, <1>5
<1>9. Range(q) = Range(s) \cup {x}
  <2>1. ASSUME NEW i \in 1 .. L + 1 PROVE q[i] \in Range(s) \cup {x}
    <3>1. CASE i <= p
      BY <3>1, <1>1, <1>7 DEF Range
    <3>2. CASE i = p + 1
      BY <3>2, <1>7
    <3>3. CASE i > p + 1
      <4>1. i \in p + 2 .. L + 1 /\ i - 1 \in 1 .. L
        BY <3>3, <1>1
      <4> QED
        BY <4>1, <1>8, <1>1 DEF Range
    <3> QED
      BY <3>1, <3>2, <3>3
  <2>2. ASSUME NEW i \in 1 .. L PROVE s[i] \in Range(q)
    <3>1. CASE i <= p
      <4>1. i \in 1 .. p /\ i \in 1 .. L + 1
        BY <3>1, <1>1
      <4> QED
        BY <4>1, <1>6, <1>7 DEF Range
    <3>2. CASE i > p
      <4>1. i + 1 \in p + 2 .. L + 1 /\ i + 1 \in 1 .. L + 1 /\ (i + 1) - 1 = i
        BY <3>2, <1>1
      <4>2. q[i + 1] = s[i]
        BY <4>1, <1>8
      <4> QED
        BY <4>1, <4>2, <1>6 DEF Range
    <3> QED
      BY <3>1, <3>2
  <2>3. x \in Range(q)
    BY <1>6, <1>7, <1>1 DEF Range
  <2> QED
    BY <2>1, <2>2, <2>3, <1>1, <1>6 DEF Range
<1>10. ASSUME IsInjective(s), x \notin Range(s) PROVE IsInjective(q)
  <2> DEFINE from(i) == IF i <= p THEN i ELSE i - 1
  <2>1. \A i \in 1 .. L + 1 : i # p + 1 => from(i) \in 1 .. L /\ q[i] = s[from(i)] /\ q[i] # x
    <3> SUFFICES ASSUME NEW i \in 1 .. L + 1, i # p + 1
                 PROVE  from(i) \in 1 .. L /\ q[i] = s[from(i)] /\ q[i] # x
      OBVIOUS
    <3>1. CASE i <= p
      BY <3>1, <1>1, <1>7, <1>10 DEF Range
    <3>2. CASE i > p
      <4>1. i \in p + 2 .. L + 1 /\ i - 1 \in 1 .. L
        BY <3>2, <1>1
      <4> QED
        BY <4>1, <3>2, <1>8, <1>1, <1>10 DEF Range
    <3> QED
      BY <3>1, <3>2
  <2>2. \A i, k \in 1 .. L + 1 : i # p + 1 /\ k # p + 1 /\ from(i) = from(k) => i = k
    BY <1>1
  <2>3. \A i, k \in 1 .. L : s[i] = s[k] => i = k
    BY <1>1, <1>10 DEF IsInjective
  <2> HIDE DEF from
  <2>4. ASSUME NEW i \in 1 .. L + 1, NEW k \in 1 .. L + 1, q[i] = q[k] PROVE i = k
    BY <2>1, <2>2, <2>3, <2>4, <1>7, SMTT(30)
  <2> QED
    BY <2>4, <1>6 DEF IsInjective
<1> QED
  BY <1>5, <1>7, <1>8, <1>9, <1>10 DEF q, a, b, c

-----------------------------------------------------------------------------
(* What the invariant says of all jobs at once. *)

LEMMA CalledSame ==
  ASSUME NEW s \in Seq(FrameType), NEW t \in Seq(FrameType),
         Frames(t) = Frames(s), \A i \in Frames(s) : t[i] = s[i]
  PROVE  Called(t) = Called(s)
BY DEF Called

LEMMA UnfinishedJobs ==
  ASSUME Typed
  PROVE  Range(pending) \subseteq Job /\ Active \subseteq Job /\ Unfinished \subseteq Job
<1>1. Range(pending) \subseteq Job
  BY DEF Typed, Range
<1>2. Called(stack) \subseteq Job
  BY DEF Typed, Called
<1> QED
  BY <1>1, <1>2, ActiveIs DEF Typed, Unfinished

\* When nothing is pending and activeCount is 0, every job is finished.
LEMMA NoneLeft ==
  ASSUME QueueInv, pending = <<>>, activeCount = 0
  PROVE  Unfinished = {}
<1>1. Active = {}
  BY FS_EmptySet DEF QueueInv, Counted
<1>2. Range(pending) = {}
  BY EmptyQueue
<1> QED
  BY <1>1, <1>2 DEF Unfinished

LEMMA QueueStarts ==
  ASSUME QueueInit
  PROVE  QueueInv
<1>1. Frames(stack) = {} /\ Called(stack) = {} /\ Active = {}
  BY ActiveIs DEF QueueInit, Frames, Called
<1>2. pending \in Seq(Job) /\ Len(pending) = 0 /\ IsInjective(pending) /\ Range(pending) = {}
  BY EmptyQueue DEF QueueInit
<1>3. stack \in Seq(FrameType)
  BY EmptyQueue DEF QueueInit
<1>4. Typed
  <2>1. nextJobId \in 1 .. MaxJobs + 1 /\ pending \in Seq(Job) /\ stack \in Seq(FrameType)
    BY <1>2, <1>3 DEF QueueInit
  <2>2. /\ paused = FALSE /\ broken = FALSE /\ awaiting = {} /\ threw = {}
        /\ dpc \in [Drainer -> {"uncalled", "waiting", "resolved"}]
        /\ promised \in [Drainer -> SUBSET Job]
    BY DEF QueueInit
  <2>3. paused \in BOOLEAN /\ broken \in BOOLEAN
    BY <2>2
  <2> QED
    BY <1>1, <2>1, <2>2, <2>3 DEF Typed
<1>5. OnePlace /\ Numbered
  BY <1>1, <1>2 DEF QueueInit, OnePlace, Numbered, Unfinished
<1>6. Counted
  BY <1>1, <1>2, FS_EmptySet DEF QueueInit, Counted
<1>7. Sorted
  BY DEF QueueInit, Sorted
<1>8. NoIdleSlot /\ DrainCovers
  BY DEF QueueInit, NoIdleSlot, DrainCovers
<1> QED
  BY <1>4, <1>5, <1>6, <1>7, <1>8 DEF QueueInv

-----------------------------------------------------------------------------
(* The steps that start, move and finish no job. *)

LEMMA QuietStep ==
  ASSUME QueueInv,
         stack' \in Seq(FrameType), Frames(stack') = Frames(stack),
         \A i \in Frames(stack) : stack'[i] = stack[i],
         UNCHANGED <<pending, counts, nextJobId, awaiting, threw>>,
         paused' \in BOOLEAN, broken' \in BOOLEAN,
         dpc' \in [Drainer -> {"uncalled", "waiting", "resolved"}],
         promised' \in [Drainer -> SUBSET Job],
         \A d \in Drainer : promised'[d] = promised[d] \/ promised'[d] = Unfinished,
         \A d \in Drainer : dpc'[d] = "resolved" =>
           \/ dpc[d] = "resolved" /\ promised'[d] = promised[d]
           \/ Unfinished = {},
         NoIdleSlot'
  PROVE  QueueInv' /\ UNCHANGED B!boardVars
<1>1. Called(stack') = Called(stack)
  BY CalledSame DEF QueueInv, Typed
<1>2. Active' = Active
  BY <1>1, ActiveIs
<1>3. Unfinished' = Unfinished
  BY <1>2 DEF Unfinished
<1>4. Typed'
  BY DEF QueueInv, Typed
<1>5. OnePlace'
  BY <1>1, <1>2 DEF QueueInv, OnePlace
<1>6. Numbered'
  BY <1>3 DEF QueueInv, Numbered
<1>7. Counted'
  BY <1>2 DEF QueueInv, Counted, counts
<1>8. Sorted'
  BY DEF QueueInv, Sorted, B!Due
<1>9. DrainCovers'
  BY <1>3 DEF QueueInv, DrainCovers
<1>10. UNCHANGED B!boardVars
  BY <1>2 DEF B!boardVars, counts
<1> QED
  BY <1>4, <1>5, <1>6, <1>7, <1>8, <1>9, <1>10 DEF QueueInv

LEMMA PauseStep ==
  ASSUME QueueInv, Pause
  PROVE  QueueInv' /\ UNCHANGED B!boardVars
<1>1. NoIdleSlot'
  BY DEF Pause, NoIdleSlot
<1> QED
  BY <1>1, QuietStep DEF Pause, QueueInv, Typed, DrainCovers, drains, counts

LEMMA ResumeStep ==
  ASSUME QueueInv, Resume
  PROVE  QueueInv' /\ UNCHANGED B!boardVars
<1> DEFINE f == Frame("dequeue", FALSE)
<1>1. f \in FrameType /\ f.at # "handler"
  BY DEF Frame, FrameType, Places, JobOrNone
<1>2. stack \in Seq(FrameType) /\ stack' = Append(stack, f)
  BY DEF Resume, QueueInv, Typed
<1> HIDE DEF f
<1>3. /\ stack' \in Seq(FrameType) /\ stack' # <<>>
      /\ Frames(stack') = Frames(stack) /\ \A i \in Frames(stack) : stack'[i] = stack[i]
  BY <1>1, <1>2, PushFrame
<1>4. NoIdleSlot'
  BY <1>3 DEF NoIdleSlot
<1> QED
  BY <1>3, <1>4, QuietStep DEF Resume, QueueInv, Typed, DrainCovers, drains, counts

LEMMA DrainStep ==
  ASSUME QueueInv, NEW d \in Drainer, Drain(d)
  PROVE  QueueInv' /\ UNCHANGED B!boardVars
<1>1. /\ UNCHANGED <<pending, counts, paused, nextJobId, awaiting, threw, stack, broken>>
      /\ promised' = [promised EXCEPT ![d] = Unfinished]
      /\ dpc[d] = "uncalled"
      /\ \/ pending = <<>> /\ activeCount = 0 /\ dpc' = [dpc EXCEPT ![d] = "resolved"]
         \/ dpc' = [dpc EXCEPT ![d] = "waiting"]
  BY DEF Drain
<1>2. Unfinished \subseteq Job
  BY UnfinishedJobs DEF QueueInv
<1>3. /\ dpc \in [Drainer -> {"uncalled", "waiting", "resolved"}]
      /\ promised \in [Drainer -> SUBSET Job]
  BY DEF QueueInv, Typed
<1>4. /\ promised' \in [Drainer -> SUBSET Job]
      /\ promised'[d] = Unfinished
      /\ \A e \in Drainer \ {d} : promised'[e] = promised[e]
  BY <1>1, <1>2, <1>3
<1>5. /\ dpc' \in [Drainer -> {"uncalled", "waiting", "resolved"}]
      /\ \A e \in Drainer \ {d} : dpc'[e] = dpc[e]
      /\ dpc'[d] = "resolved" => pending = <<>> /\ activeCount = 0
  BY <1>1, <1>3
<1>6. dpc'[d] = "resolved" => Unfinished = {}
  BY <1>5, NoneLeft
<1>7. NoIdleSlot'
  BY <1>1 DEF QueueInv, NoIdleSlot, counts
<1>8. stack' \in Seq(FrameType) /\ paused' \in BOOLEAN /\ broken' \in BOOLEAN /\ stack' = stack
  BY <1>1 DEF QueueInv, Typed
<1>9. \A e \in Drainer : promised'[e] = promised[e] \/ promised'[e] = Unfinished
  BY <1>4
<1>10. \A e \in Drainer : dpc'[e] = "resolved" =>
           \/ dpc[e] = "resolved" /\ promised'[e] = promised[e]
           \/ Unfinished = {}
  BY <1>4, <1>5, <1>6
<1> QED
  BY <1>1, <1>4, <1>5, <1>7, <1>8, <1>9, <1>10, QuietStep

LEMMA EndDequeueStep ==
  ASSUME QueueInv, EndDequeue
  PROVE  QueueInv' /\ UNCHANGED B!boardVars
<1>1. /\ stack # <<>> /\ stack[Len(stack)].at \in {"loop", "dequeue"}
      /\ stack' = SubSeq(stack, 1, Len(stack) - 1)
      /\ UNCHANGED <<pending, counts, paused, nextJobId, awaiting, threw, promised, broken>>
  BY DEF EndDequeue, At, Top, Popped
<1>2. stack \in Seq(FrameType) /\ stack[Len(stack)].at # "handler"
  BY <1>1 DEF QueueInv, Typed
<1>3. /\ stack' \in Seq(FrameType)
      /\ Frames(stack') = Frames(stack) /\ \A i \in Frames(stack) : stack'[i] = stack[i]
  BY <1>1, <1>2, PopFrame
<1>4. NoIdleSlot'
  <2>1. activeCount \in Nat /\ activeCount <= Concurrency /\ Concurrency \in Nat
    BY FS_CardinalityType DEF QueueInv, Counted
  <2>2. ~paused => pending = <<>> \/ activeCount = Concurrency
    BY <1>1, <2>1 DEF EndDequeue, MayStart, At
  <2> QED
    BY <1>1, <2>2 DEF NoIdleSlot, counts
<1>5. /\ dpc' \in [Drainer -> {"uncalled", "waiting", "resolved"}]
      /\ \A d \in Drainer : dpc'[d] = "resolved" => dpc[d] = "resolved" \/ (pending = <<>> /\ activeCount = 0)
  <2>1. CheckDrain \/ dpc' = dpc
    BY DEF EndDequeue
  <2>2. CASE CheckDrain
    BY <2>2 DEF CheckDrain, QueueInv, Typed
  <2>3. CASE dpc' = dpc
    BY <2>3 DEF QueueInv, Typed
  <2> QED
    BY <2>1, <2>2, <2>3
<1>6. \A d \in Drainer : dpc'[d] = "resolved" =>
           \/ dpc[d] = "resolved" /\ promised'[d] = promised[d]
           \/ Unfinished = {}
  BY <1>1, <1>5, NoneLeft
<1>7. promised' \in [Drainer -> SUBSET Job] /\ paused' \in BOOLEAN /\ broken' \in BOOLEAN
  BY <1>1 DEF QueueInv, Typed
<1>8. \A d \in Drainer : promised'[d] = promised[d]
  BY <1>1
<1> QED
  BY <1>1, <1>3, <1>4, <1>5, <1>6, <1>7, <1>8, QuietStep

LEMMA OnErrorStep ==
  ASSUME QueueInv, OnErrorEnds
  PROVE  QueueInv' /\ UNCHANGED B!boardVars
<1>1. /\ stack # <<>> /\ stack[Len(stack)].at = "onError"
      /\ UNCHANGED <<pending, counts, paused, nextJobId, awaiting, threw, dpc, promised>>
      /\ \/ stack' = [stack EXCEPT ![Len(stack)].at = "dequeue", ![Len(stack)].job = None] /\ broken' = broken
         \/ stack' = SubSeq(stack, 1, Len(stack) - 1) /\ broken' = TRUE
  BY DEF OnErrorEnds, OnErrorReturns, OnErrorThrows, At, Top, Popped, Goto, Moved, drains
<1>2. stack \in Seq(FrameType) /\ stack[Len(stack)].at # "handler" /\ Len(stack) \in DOMAIN stack
  BY <1>1 DEF QueueInv, Typed
<1>3. /\ stack' \in Seq(FrameType)
      /\ Frames(stack') = Frames(stack) /\ \A i \in Frames(stack) : stack'[i] = stack[i]
      /\ stack' # <<>> \/ broken'
  <2>1. CASE stack' = SubSeq(stack, 1, Len(stack) - 1) /\ broken' = TRUE
    BY <1>1, <1>2, <2>1, PopFrame
  <2>2. CASE stack' = Moved(stack, "dequeue", None)
    <3>1. /\ stack' \in Seq(FrameType) /\ stack' # <<>> /\ DOMAIN stack' = DOMAIN stack
          /\ stack'[Len(stack)].at = "dequeue"
          /\ \A i \in DOMAIN stack \ {Len(stack)} : stack'[i] = stack[i]
      <4>1. "dequeue" \in Places /\ None \in JobOrNone
        BY DEF Places, JobOrNone
      <4> QED
        BY <1>1, <1>2, <2>2, <4>1, GotoFrame
    <3> QED
      BY <1>2, <3>1 DEF Frames
  <2>3. \/ stack' = Moved(stack, "dequeue", None)
        \/ stack' = SubSeq(stack, 1, Len(stack) - 1) /\ broken' = TRUE
    BY DEF OnErrorEnds, OnErrorReturns, OnErrorThrows, Popped, Goto, Moved
  <2> QED
    BY <2>1, <2>2, <2>3
<1>4. NoIdleSlot'
  BY <1>1, <1>3 DEF NoIdleSlot
<1>5. /\ paused' \in BOOLEAN /\ broken' \in BOOLEAN
      /\ dpc' \in [Drainer -> {"uncalled", "waiting", "resolved"}]
      /\ promised' \in [Drainer -> SUBSET Job]
  BY <1>1 DEF QueueInv, Typed
<1>6. /\ \A d \in Drainer : promised'[d] = promised[d]
      /\ \A d \in Drainer : dpc'[d] = "resolved" => dpc[d] = "resolved"
  BY <1>1
<1> QED
  BY <1>1, <1>3, <1>4, <1>5, <1>6, QuietStep

-----------------------------------------------------------------------------
(* push. *)

\* A job with a higher id is due before another, or after it, as insertSorted has it.
LEMMA NewDue ==
  ASSUME NEW a \in Job, NEW new \in Job, a.id < new.id
  PROVE  /\ NotAfter(a, new) => B!Due(a, new)
         /\ ~NotAfter(a, new) => B!Due(new, a)
<1>1. /\ a.priority \in Int /\ new.priority \in Int
      /\ a.createdAt \in Nat /\ new.createdAt \in Nat
  BY DEF Job
<1>2. a.id \in 1 .. MaxJobs /\ new.id \in 1 .. MaxJobs
  BY DEF Job
<1>3. a.id \in Int /\ new.id \in Int
  BY <1>2
<1> QED
  BY <1>1, <1>3 DEF B!Due, NotAfter

\* insertSorted keeps pending sorted.
LEMMA InsertKeepsSorted ==
  ASSUME pending \in Seq(Job), Sorted, NEW new \in Job,
         \A j \in Range(pending) : j.id < new.id,
         NEW q \in Seq(Job), Len(q) = Len(pending) + 1,
         \A i \in 1 .. Position(new) : q[i] = pending[i],
         q[Position(new) + 1] = new,
         \A i \in Position(new) + 2 .. Len(pending) + 1 : q[i] = pending[i - 1]
  PROVE  \A i, k \in DOMAIN q : i < k => B!Due(q[i], q[k])
<1> DEFINE L == Len(pending)
           p == Position(new)
<1>1. L \in Nat /\ DOMAIN pending = 1 .. L
  OBVIOUS
<1>2. Parted(p, p, new)
  BY PositionParts
<1>3. p \in 0 .. L
  BY <1>2 DEF Parted
<1> HIDE DEF p
<1>5. /\ Len(q) = L + 1
      /\ \A i \in 1 .. p : q[i] = pending[i]
      /\ q[p + 1] = new
      /\ \A i \in p + 2 .. L + 1 : q[i] = pending[i - 1]
  BY DEF p
<1>6. \A i \in 1 .. L : pending[i] \in Job /\ pending[i].id < new.id
  <2>1. \A i \in 1 .. L : pending[i] \in Job /\ pending[i] \in Range(pending)
    BY <1>1 DEF Range
  <2> QED
    BY <2>1
<1>10. p \in Int
  BY <1>3
<1> HIDE DEF L
<1>7. ASSUME NEW i \in 1 .. L + 1, NEW k \in 1 .. L + 1, i < k PROVE B!Due(q[i], q[k])
  <2>1. CASE k <= p
    <3>1. i \in 1 .. p /\ k \in 1 .. p /\ i \in 1 .. L /\ k \in 1 .. L
      BY <1>1, <1>3, <1>7, <2>1
    <3> QED
      BY <3>1, <1>1, <1>5, <1>7 DEF Sorted
  <2>2. CASE k = p + 1
    <3>1. i \in 1 .. p /\ i \in 1 .. L /\ i <= p
      BY <1>1, <1>3, <1>7, <2>2
    <3>2. NotAfter(pending[i], new)
      BY <3>1, <1>2 DEF Parted
    <3>3. B!Due(pending[i], new)
      BY <3>1, <3>2, <1>6, NewDue
    <3> QED
      BY <3>1, <3>3, <1>5, <2>2
  <2>3. CASE k > p + 1
    <3>1. k \in p + 2 .. L + 1 /\ k - 1 \in 1 .. L /\ k - 1 > p
      BY <1>1, <1>3, <2>3
    <3>2. q[k] = pending[k - 1]
      BY <3>1, <1>5
    <3>3. CASE i <= p
      <4>1. i \in 1 .. p /\ i \in 1 .. L /\ i < k - 1
        BY <1>1, <1>3, <3>3, <3>1
      <4> QED
        BY <4>1, <3>1, <3>2, <1>1, <1>5 DEF Sorted
    <3>4. CASE i = p + 1
      <4>1. ~NotAfter(pending[k - 1], new)
        <5>1. k - 1 \in 1 .. Len(pending) /\ k - 1 > p
          BY <3>1 DEF L
        <5> QED
          BY <5>1, <1>2 DEF Parted
      <4>2. B!Due(new, pending[k - 1])
        BY <3>1, <4>1, <1>6, NewDue
      <4> QED
        BY <4>2, <3>2, <3>4, <1>5
    <3>5. CASE i > p + 1
      <4>1. i \in p + 2 .. L + 1 /\ i - 1 \in 1 .. L /\ i - 1 < k - 1
        BY <1>1, <1>3, <3>5, <3>1, <1>7
      <4>2. q[i] = pending[i - 1]
        BY <4>1, <1>5
      <4> QED
        BY <4>1, <4>2, <3>1, <3>2, <1>1 DEF Sorted
    <3> QED
      BY <1>1, <1>10, <3>3, <3>4, <3>5
  <2> QED
    BY <1>1, <1>10, <2>1, <2>2, <2>3
<1>8. DOMAIN q = 1 .. L + 1
  BY <1>1, <1>5
<1> QED
  BY <1>7, <1>8

LEMMA PushStep ==
  ASSUME QueueInv, NEW priority \in Priorities, NEW now \in Clock, Push(priority, now)
  PROVE  QueueInv' /\ B!BoardNext
<1> DEFINE new == [id |-> nextJobId, priority |-> priority, createdAt |-> now]
           f == Frame("dequeue", FALSE)
<1>1. /\ nextJobId <= MaxJobs /\ nextJobId' = nextJobId + 1
      /\ pending' = SubSeq(pending, 1, Position(new)) \o <<new>> \o SubSeq(pending, Position(new) + 1, Len(pending))
      /\ stack' = Append(stack, f)
      /\ UNCHANGED <<counts, paused, awaiting, threw, drains, broken>>
  BY DEF Push, InsertSorted
<1>2. /\ nextJobId \in 1 .. MaxJobs + 1 /\ pending \in Seq(Job) /\ stack \in Seq(FrameType)
      /\ MaxJobs \in Nat
  BY DEF QueueInv, Typed
<1>3. new \in Job /\ new.id = nextJobId
  BY <1>1, <1>2 DEF Job
<1>4. f \in FrameType /\ f.at # "handler"
  BY DEF Frame, FrameType, Places, JobOrNone
<1> HIDE DEF new, f
<1>5. \A j \in Unfinished : j.id < new.id
  BY <1>3 DEF QueueInv, Numbered
<1>6. new \notin Unfinished
  BY <1>2, <1>3, <1>5
<1>7. /\ pending' \in Seq(Job) /\ Len(pending') = Len(pending) + 1
      /\ Range(pending') = Range(pending) \cup {new}
      /\ IsInjective(pending')
      /\ Sorted'
  <2>1. \A j \in Range(pending) : j.id < new.id
    BY <1>5 DEF Unfinished
  <2>2. /\ Sorted /\ IsInjective(pending) /\ new \notin Range(pending)
        /\ Position(new) \in 0 .. Len(pending)
    BY <1>2, <1>3, <1>6, PositionParts DEF QueueInv, OnePlace, Parted, Unfinished
  <2> DEFINE q == pending'
  <2>3. q = SubSeq(pending, 1, Position(new)) \o <<new>> \o SubSeq(pending, Position(new) + 1, Len(pending))
    BY <1>1
  <2> HIDE DEF q
  <2>4. /\ q \in Seq(Job) /\ Len(q) = Len(pending) + 1
        /\ \A i \in 1 .. Position(new) : q[i] = pending[i]
        /\ q[Position(new) + 1] = new
        /\ \A i \in Position(new) + 2 .. Len(pending) + 1 : q[i] = pending[i - 1]
        /\ Range(q) = Range(pending) \cup {new}
        /\ IsInjective(q)
    <3> DEFINE at == Position(new)
               e == SubSeq(pending, 1, at) \o <<new>> \o SubSeq(pending, at + 1, Len(pending))
    <3>1. q = e
      BY <2>3
    <3> HIDE DEF at
    <3>2. at \in 0 .. Len(pending)
      BY <2>2 DEF at
    <3>3. /\ e \in Seq(Job) /\ Len(e) = Len(pending) + 1
          /\ \A i \in 1 .. at : e[i] = pending[i]
          /\ e[at + 1] = new
          /\ \A i \in at + 2 .. Len(pending) + 1 : e[i] = pending[i - 1]
          /\ Range(e) = Range(pending) \cup {new}
          /\ IsInjective(pending) /\ new \notin Range(pending) => IsInjective(e)
      BY ONLY <1>2, <1>3, <3>2, InsertedAt
    <3> HIDE DEF e
    <3> QED
      BY <2>2, <3>1, <3>3 DEF at
  <2>5. \A i, k \in DOMAIN q : i < k => B!Due(q[i], q[k])
    BY ONLY <1>2, <1>3, <2>1, <2>2, <2>4, InsertKeepsSorted
  <2> QED
    BY <2>4, <2>5 DEF q, Sorted, B!Due
<1>8. /\ stack' \in Seq(FrameType) /\ stack' # <<>>
      /\ Frames(stack') = Frames(stack) /\ \A i \in Frames(stack) : stack'[i] = stack[i]
  BY <1>1, <1>2, <1>4, PushFrame
<1>9. Called(stack') = Called(stack)
  BY <1>2, <1>8, CalledSame
<1>10. Active' = Active
  BY <1>1, <1>9, ActiveIs
<1>11. Unfinished' = Unfinished \cup {new}
  BY <1>7, <1>10 DEF Unfinished
<1>12. Typed'
  <2>1. nextJobId' \in 1 .. MaxJobs + 1
    BY <1>1, <1>2
  <2> QED
    BY <1>1, <1>7, <1>8, <2>1 DEF QueueInv, Typed, drains
<1>13. OnePlace'
  BY <1>1, <1>6, <1>7, <1>8, <1>9, <1>10 DEF QueueInv, OnePlace, Unfinished
<1>14. Numbered'
  <2>1. \A j \in Job : j.id \in Nat
    BY DEF Job
  <2>2. \A j \in Unfinished' : j.id < nextJobId'
    <3>1. \A j \in Unfinished : j \in Job
      BY UnfinishedJobs DEF QueueInv
    <3> QED
      BY <1>1, <1>2, <1>3, <1>5, <1>11, <2>1, <3>1, SMTT(30)
  <2>3. \A d \in Drainer : \A j \in promised'[d] : j.id < nextJobId'
    <3>1. \A d \in Drainer : \A j \in promised[d] : j \in Job /\ j.id < nextJobId
      BY DEF QueueInv, Numbered, Typed
    <3> QED
      BY <1>1, <1>2, <2>1, <3>1, SMTT(30) DEF drains
  <2> QED
    BY <2>2, <2>3 DEF Numbered
<1>15. Counted'
  <2>1. Len(pending) \in Nat /\ activeCount \in Nat /\ processedCount \in Nat
    BY <1>2, FS_CardinalityType DEF QueueInv, Counted
  <2>2. processedCount + Len(pending) + activeCount = nextJobId - 1
    BY DEF QueueInv, Counted
  <2>3. processedCount' + Len(pending') + activeCount' = nextJobId' - 1
    BY <1>1, <1>2, <1>7, <2>1, <2>2 DEF counts
  <2> QED
    BY <1>1, <1>10, <2>3 DEF QueueInv, Counted, counts
<1>16. NoIdleSlot'
  BY <1>8 DEF NoIdleSlot
<1>17. DrainCovers'
  <2>1. \A d \in Drainer : new \notin promised[d]
    BY <1>2, <1>3 DEF QueueInv, Numbered
  <2> QED
    BY <1>1, <1>11, <2>1 DEF QueueInv, DrainCovers, drains
<1>18. B!Post(new)
  <2>1. new.id = (nextJobId - 1) + 1 /\ nextJobId' - 1 = new.id
    BY <1>1, <1>2, <1>3
  <2> QED
    BY <1>1, <1>7, <1>10, <2>1 DEF B!Post, counts
<1> QED
  BY <1>3, <1>7, <1>12, <1>13, <1>14, <1>15, <1>16, <1>17, <1>18 DEF QueueInv, B!BoardNext

-----------------------------------------------------------------------------
(* A job starts, its handler ends, and it settles. *)

LEMMA StartStep ==
  ASSUME QueueInv, StartJob
  PROVE  QueueInv' /\ B!BoardNext
<1> DEFINE j == Head(pending)
           n == Len(stack)
<1>1. /\ stack # <<>> /\ stack[n].at # "handler"
      /\ activeCount < Concurrency /\ pending # <<>>
      /\ pending' = Tail(pending) /\ activeCount' = activeCount + 1
      /\ stack' = Moved(stack, "handler", j)
      /\ UNCHANGED <<processedCount, paused, nextJobId, awaiting, threw, drains, broken>>
  BY DEF StartJob, MayStart, At, Top, Goto, Moved
<1>2. /\ pending \in Seq(Job) /\ stack \in Seq(FrameType) /\ IsInjective(pending)
      /\ Range(pending) \cap Active = {}
  BY DEF QueueInv, Typed, OnePlace
<1>3. /\ pending' \in Seq(Job) /\ Len(pending') = Len(pending) - 1
      /\ j \in Job /\ j \in Range(pending) /\ IsInjective(pending')
      /\ Range(pending') = Range(pending) \ {j}
  BY <1>1, <1>2, TailQueue
<1>4. Sorted' /\ \A k \in Range(pending) : B!Due(j, k)
  <2>1. /\ Len(pending) \in Nat \ {0} /\ DOMAIN pending = 1 .. Len(pending) /\ j = pending[1]
        /\ DOMAIN pending' = 1 .. Len(pending) - 1
        /\ \A i \in 1 .. Len(pending) - 1 : pending'[i] = pending[i + 1]
    BY <1>1, <1>2
  <2>2. \A i, k \in DOMAIN pending : i < k => B!Due(pending[i], pending[k])
    BY DEF QueueInv, Sorted
  <2>3. Sorted'
    <3> SUFFICES ASSUME NEW i \in 1 .. Len(pending) - 1, NEW k \in 1 .. Len(pending) - 1, i < k
                 PROVE  B!Due(pending'[i], pending'[k])
      BY <2>1 DEF Sorted, B!Due
    <3>1. i + 1 \in DOMAIN pending /\ k + 1 \in DOMAIN pending /\ i + 1 < k + 1
      BY <2>1
    <3> QED
      BY <2>1, <2>2, <3>1
  <2>4. B!Due(j, j)
    <3>1. j.id \in Nat
      BY <1>3 DEF Job
    <3> QED
      BY <3>1 DEF B!Due
  <2>5. ASSUME NEW k \in DOMAIN pending PROVE B!Due(j, pending[k])
    <3>1. CASE k = 1
      BY <2>1, <2>4, <3>1
    <3>2. CASE k # 1
      <4>1. 1 \in DOMAIN pending /\ 1 < k
        BY <2>1, <3>2
      <4> QED
        BY <2>1, <2>2, <4>1
    <3> QED
      BY <3>1, <3>2
  <2> QED
    BY <2>3, <2>5 DEF Range
<1> HIDE DEF j
<1>5. /\ n \in DOMAIN stack
      /\ stack' \in Seq(FrameType) /\ stack' # <<>> /\ DOMAIN stack' = DOMAIN stack
      /\ stack'[n].at = "handler" /\ stack'[n].job = j
      /\ \A i \in DOMAIN stack \ {n} : stack'[i] = stack[i]
  <2>1. j \in JobOrNone
    BY <1>3 DEF JobOrNone
  <2> DEFINE t == Moved(stack, "handler", j)
  <2>2. /\ n \in DOMAIN stack
        /\ t \in Seq(FrameType) /\ t # <<>> /\ DOMAIN t = DOMAIN stack
        /\ t[n].at = "handler" /\ t[n].job = j
        /\ \A i \in DOMAIN stack \ {n} : t[i] = stack[i]
    <3> HIDE DEF t
    <3>1. t = Moved(stack, "handler", j)
      BY DEF t
    <3>2. /\ stack # <<>> /\ stack \in Seq(FrameType)
          /\ "handler" \in Places
      BY <1>1, <1>2 DEF Places
    <3>3. /\ Len(stack) \in DOMAIN stack
          /\ t \in Seq(FrameType) /\ t # <<>> /\ DOMAIN t = DOMAIN stack
          /\ t[Len(stack)].at = "handler" /\ t[Len(stack)].job = j
          /\ \A i \in DOMAIN stack \ {Len(stack)} : t[i] = stack[i]
      BY ONLY <2>1, <3>1, <3>2, GotoFrame
    <3> QED
      BY <3>3
  <2> QED
    BY <1>1, <2>2
<1> HIDE DEF n
<1>6. /\ Frames(stack') = Frames(stack) \cup {n} /\ n \notin Frames(stack)
      /\ \A i \in Frames(stack) : stack'[i] = stack[i]
  BY <1>1, <1>5 DEF Frames
<1>7. Called(stack') = Called(stack) \cup {j}
  BY <1>5, <1>6 DEF Called
<1>8. j \notin Active
  BY <1>2, <1>3
<1>9. Active' = Active \cup {j}
  BY <1>1, <1>7, ActiveIs
<1>10. Unfinished' = Unfinished
  BY <1>3, <1>9 DEF Unfinished
<1>11. Typed'
  <2>1. \A i \in Frames(stack') : stack'[i].job \in Job
    BY <1>3, <1>5, <1>6 DEF QueueInv, Typed
  <2> QED
    BY <1>1, <1>3, <1>5, <2>1 DEF QueueInv, Typed, drains
<1>12. OnePlace'
  <2>1. Called(stack') \cap (awaiting' \cup threw') = {}
    BY <1>1, <1>7, <1>8, ActiveIs DEF QueueInv, OnePlace
  <2>2. \A i \in Frames(stack) : stack[i].job # j
    BY <1>8, ActiveIs DEF Called
  <2>3. \A i, k \in Frames(stack') : stack'[i].job = stack'[k].job => i = k
    BY <1>5, <1>6, <2>2 DEF QueueInv, OnePlace
  <2> QED
    BY <1>1, <1>2, <1>3, <1>9, <2>1, <2>3 DEF QueueInv, OnePlace
<1>13. Numbered'
  BY <1>1, <1>10 DEF QueueInv, Numbered, drains
<1>14. Counted'
  <2>1. /\ Len(pending) \in Nat /\ IsFiniteSet(Active) /\ activeCount = Cardinality(Active)
        /\ processedCount \in Nat /\ nextJobId \in Nat
        /\ processedCount + Len(pending) + activeCount = nextJobId - 1
    BY <1>2 DEF QueueInv, Counted, Typed
  <2>2. activeCount \in Nat
    BY <2>1, FS_CardinalityType
  <2>3. IsFiniteSet(Active') /\ Cardinality(Active') = activeCount + 1
    BY <1>8, <1>9, <2>1, FS_AddElement
  <2>4. activeCount' <= Concurrency
    BY <1>1, <2>2
  <2>5. processedCount' + Len(pending') + activeCount' = nextJobId' - 1
    BY <1>1, <1>3, <2>1, <2>2
  <2> QED
    BY <1>1, <2>1, <2>3, <2>4, <2>5 DEF Counted
<1>15. NoIdleSlot'
  BY <1>5 DEF NoIdleSlot
<1>16. DrainCovers'
  BY <1>1, <1>10 DEF QueueInv, DrainCovers, drains
<1>17. B!Begin(j)
  <2>1. Cardinality(Active) < Concurrency
    BY <1>1 DEF QueueInv, Counted
  <2> QED
    BY <1>1, <1>3, <1>4, <1>9, <2>1 DEF B!Begin, B!Cardinality, Cardinality
<1> QED
  BY <1>3, <1>4, <1>11, <1>12, <1>13, <1>14, <1>15, <1>16, <1>17 DEF QueueInv, B!BoardNext

LEMMA HandlerStep ==
  ASSUME QueueInv, HandlerEnds
  PROVE  QueueInv' /\ UNCHANGED B!boardVars
<1> DEFINE n == Len(stack)
           j == stack[n].job
           t == Moved(stack, "loop", None)
<1>1. /\ stack # <<>> /\ stack[n].at = "handler"
      /\ \/ awaiting' = awaiting \cup {j} /\ threw' = threw
         \/ threw' = threw \cup {j} /\ awaiting' = awaiting
      /\ stack' = t
      /\ UNCHANGED <<pending, counts, paused, nextJobId, drains, broken>>
  BY DEF HandlerEnds, HandlerReturns, HandlerThrows, At, Top, Goto, Moved
<1>2. stack \in Seq(FrameType) /\ None \in JobOrNone /\ "loop" \in Places
  BY DEF QueueInv, Typed, JobOrNone, Places
<1>3. /\ n \in DOMAIN stack
      /\ stack' \in Seq(FrameType) /\ stack' # <<>> /\ DOMAIN stack' = DOMAIN stack
      /\ stack'[n].at = "loop"
      /\ \A i \in DOMAIN stack \ {n} : stack'[i] = stack[i]
  <2>1. /\ n \in DOMAIN stack
        /\ t \in Seq(FrameType) /\ t # <<>> /\ DOMAIN t = DOMAIN stack
        /\ t[n].at = "loop"
        /\ \A i \in DOMAIN stack \ {n} : t[i] = stack[i]
    <3> HIDE DEF t
    <3>1. t = Moved(stack, "loop", None)
      BY DEF t
    <3> QED
      BY ONLY <1>1, <1>2, <3>1, GotoFrame
  <2> HIDE DEF t
  <2> QED
    BY <1>1, <2>1
<1> HIDE DEF n, t
<1>4. /\ n \in Frames(stack) /\ Frames(stack') = Frames(stack) \ {n}
      /\ \A i \in Frames(stack') : stack'[i] = stack[i]
  BY <1>1, <1>3 DEF Frames
<1>5. j \in Called(stack) /\ j \in Job
  BY <1>4 DEF Called, QueueInv, Typed
<1>6. \A i \in Frames(stack') : stack[i].job # j
  BY <1>4 DEF QueueInv, OnePlace
<1>7. Called(stack') = Called(stack) \ {j}
  BY <1>4, <1>6 DEF Called
<1> HIDE DEF j
<1>8. awaiting' \cup threw' = awaiting \cup threw \cup {j} /\ awaiting' \cap threw' = {}
  <2>1. awaiting \cap threw = {} /\ j \notin awaiting /\ j \notin threw
    BY <1>5 DEF QueueInv, OnePlace
  <2> QED
    BY <1>1, <2>1
<1>9. Active' = Active
  BY <1>5, <1>7, <1>8, ActiveIs
<1>10. Unfinished' = Unfinished
  BY <1>1, <1>9 DEF Unfinished
<1>11. Typed'
  <2>1. awaiting' \subseteq Job /\ threw' \subseteq Job
    BY <1>1, <1>5 DEF QueueInv, Typed
  <2>2. \A i \in Frames(stack') : stack'[i].job \in Job
    BY <1>4 DEF QueueInv, Typed
  <2> QED
    BY <1>1, <1>3, <2>1, <2>2 DEF QueueInv, Typed, drains
<1>12. OnePlace'
  <2>1. Called(stack') \cap (awaiting' \cup threw') = {}
    BY <1>7, <1>8 DEF QueueInv, OnePlace
  <2>2. \A i, k \in Frames(stack') : stack'[i].job = stack'[k].job => i = k
    BY <1>4 DEF QueueInv, OnePlace
  <2> QED
    BY <1>1, <1>8, <1>9, <2>1, <2>2 DEF QueueInv, OnePlace
<1>13. Numbered'
  BY <1>1, <1>10 DEF QueueInv, Numbered, drains
<1>14. Counted'
  BY <1>1, <1>9 DEF QueueInv, Counted, counts
<1>15. Sorted'
  BY <1>1 DEF QueueInv, Sorted, B!Due
<1>16. NoIdleSlot'
  BY <1>3 DEF NoIdleSlot
<1>17. DrainCovers'
  BY <1>1, <1>10 DEF QueueInv, DrainCovers, drains
<1>18. UNCHANGED B!boardVars
  BY <1>1, <1>9 DEF B!boardVars, counts
<1> QED
  BY <1>11, <1>12, <1>13, <1>14, <1>15, <1>16, <1>17, <1>18 DEF QueueInv

LEMMA SettleStep ==
  ASSUME QueueInv, NEW j \in Job, Settle(j)
  PROVE  QueueInv' /\ B!BoardNext
<1>1. PICK f \in {Frame("dequeue", TRUE), Frame("onError", TRUE)} :
        /\ stack = <<>> /\ j \in awaiting \cup threw
        /\ awaiting' = awaiting \ {j} /\ threw' = threw \ {j}
        /\ activeCount' = activeCount - 1 /\ processedCount' = processedCount + 1
        /\ stack' = <<f>>
        /\ UNCHANGED <<pending, paused, nextJobId, drains, broken>>
  <2>1. CASE Fulfilled(j)
    <3>1. j \in awaiting /\ j \notin threw
      BY <2>1 DEF Fulfilled, QueueInv, OnePlace
    <3>2. threw' = threw \ {j}
      BY <2>1, <3>1 DEF Fulfilled
    <3> QED
      BY <2>1, <3>1, <3>2 DEF Fulfilled
  <2>2. CASE Rejected(j)
    BY <2>2 DEF Rejected
  <2> QED
    BY <2>1, <2>2 DEF Settle
<1>2. f \in FrameType /\ f.at # "handler"
  <2>1. \A place \in {"dequeue", "onError"} :
          Frame(place, TRUE) \in FrameType /\ Frame(place, TRUE).at # "handler"
    BY DEF Frame, FrameType, Places, JobOrNone
  <2> QED
    BY <2>1
<1>3. /\ stack' \in Seq(FrameType) /\ stack' # <<>>
      /\ Frames(stack') = {} /\ Frames(stack) = {}
  <2>1. <<f>> \in Seq(FrameType) /\ DOMAIN <<f>> = {1} /\ <<f>>[1] = f /\ <<f>> # <<>>
    BY <1>2
  <2>2. DOMAIN stack = {}
    BY <1>1
  <2> QED
    BY <1>1, <1>2, <2>1, <2>2 DEF Frames
<1>4. Called(stack') = {} /\ Called(stack) = {}
  BY <1>3 DEF Called
<1>5. j \in Active /\ Active' = Active \ {j}
  BY <1>1, <1>4, ActiveIs
<1>6. j \notin Range(pending)
  BY <1>5 DEF QueueInv, OnePlace
<1>7. Unfinished' = Unfinished \ {j}
  BY <1>1, <1>5, <1>6 DEF Unfinished
<1>8. Typed'
  BY <1>1, <1>3 DEF QueueInv, Typed, drains
<1>9. OnePlace'
  BY <1>1, <1>3, <1>4, <1>5 DEF QueueInv, OnePlace
<1>10. Numbered'
  BY <1>1, <1>7 DEF QueueInv, Numbered, drains
<1>11. Counted'
  <2>1. /\ IsFiniteSet(Active) /\ activeCount = Cardinality(Active) /\ activeCount <= Concurrency
        /\ processedCount \in Nat /\ nextJobId \in Nat /\ pending \in Seq(Job)
        /\ processedCount + Len(pending) + activeCount = nextJobId - 1
    BY DEF QueueInv, Counted, Typed
  <2>2. activeCount \in Nat /\ Len(pending) \in Nat
    BY <2>1, FS_CardinalityType
  <2>3. IsFiniteSet(Active') /\ Cardinality(Active') = activeCount - 1
    BY <1>5, <2>1, FS_RemoveElement
  <2>4. activeCount' <= Concurrency /\ processedCount' \in Nat
    BY <1>1, <2>1, <2>2
  <2>5. processedCount' + Len(pending') + activeCount' = nextJobId' - 1
    BY <1>1, <2>1, <2>2
  <2> QED
    BY <1>1, <2>3, <2>4, <2>5 DEF Counted
<1>12. Sorted'
  BY <1>1 DEF QueueInv, Sorted, B!Due
<1>13. NoIdleSlot'
  BY <1>3 DEF NoIdleSlot
<1>14. DrainCovers'
  BY <1>1, <1>7 DEF QueueInv, DrainCovers, drains
<1>15. B!Finish(j)
  BY <1>1, <1>5 DEF B!Finish
<1> QED
  BY <1>8, <1>9, <1>10, <1>11, <1>12, <1>13, <1>14, <1>15 DEF QueueInv, B!BoardNext

-----------------------------------------------------------------------------
(* The invariant, and what it says. *)

LEMMA QueueStep ==
  ASSUME QueueInv, [QueueNext]_queueVars
  PROVE  QueueInv' /\ [B!BoardNext]_(B!boardVars)
<1>1. ASSUME NEW priority \in Priorities, NEW now \in Clock, Push(priority, now)
      PROVE  QueueInv' /\ [B!BoardNext]_(B!boardVars)
  BY <1>1, PushStep
<1>2. CASE Pause
  BY <1>2, PauseStep
<1>3. CASE Resume
  BY <1>3, ResumeStep
<1>4. ASSUME NEW d \in Drainer, Drain(d)
      PROVE  QueueInv' /\ [B!BoardNext]_(B!boardVars)
  BY <1>4, DrainStep
<1>5. CASE StartJob
  BY <1>5, StartStep
<1>6. CASE EndDequeue
  BY <1>6, EndDequeueStep
<1>7. CASE HandlerEnds
  BY <1>7, HandlerStep
<1>8. CASE OnErrorEnds
  BY <1>8, OnErrorStep
<1>9. ASSUME NEW j \in Job, Settle(j)
      PROVE  QueueInv' /\ [B!BoardNext]_(B!boardVars)
  BY <1>9, SettleStep
<1>10. CASE UNCHANGED queueVars
  <2>1. NoIdleSlot'
    BY <1>10 DEF QueueInv, NoIdleSlot, queueVars, counts
  <2> QED
    BY <1>10, <2>1, QuietStep DEF QueueInv, Typed, queueVars, drains, counts
<1> QED
  BY <1>1, <1>2, <1>3, <1>4, <1>5, <1>6, <1>7, <1>8, <1>9, <1>10 DEF QueueNext, Call, Dequeue

LEMMA QueueInvIsSound == QueueInv => QueueSound
<1> SUFFICES ASSUME QueueInv PROVE QueueSound
  OBVIOUS
<1>1. processedCount \in 0 .. MaxJobs
  <2>1. /\ processedCount \in Nat /\ Len(pending) \in Nat /\ activeCount \in Nat
        /\ processedCount + Len(pending) + activeCount = nextJobId - 1
        /\ nextJobId \in 1 .. MaxJobs + 1
    BY FS_CardinalityType DEF QueueInv, Counted, Typed
  <2> QED
    BY <2>1
<1>2. QueueTypeOK
  BY <1>1 DEF QueueInv, Typed, Counted, QueueTypeOK, FrameType, Places, JobOrNone
<1> QED
  BY <1>2 DEF QueueInv, QueueSound

\* activeCount counts the jobs that run, no job waits beside a free slot, and no drain()
\* resolves early, however handlers and onError push, pause, resume and drain in the
\* middle of the queue's own work (dequeue, processJob, checkDrain).
THEOREM QueueIsSound == QueueSpec => []QueueSound
<1>1. QueueInit => QueueInv
  BY QueueStarts
<1>2. QueueInv /\ [QueueNext]_queueVars => QueueInv'
  BY QueueStep
<1> QED
  BY <1>1, <1>2, QueueInvIsSound, PTL DEF QueueSpec

\* The queue implements the job board: never more than Concurrency jobs at once, each
\* begun once, and always the first that is due, which is what insertSorted's binary
\* search and a clock that may step back come to (insertSorted, dequeue).
THEOREM QueueImplementsJobBoard == QueueSpec => ImplementsJobBoard
<1>1. QueueInit => QueueInv
  BY QueueStarts
<1>2. QueueInv /\ [QueueNext]_queueVars => QueueInv' /\ [B!BoardNext]_(B!boardVars)
  BY QueueStep
<1>3. QueueInit => B!BoardInit
  <2> SUFFICES ASSUME QueueInit PROVE B!BoardInit
    OBVIOUS
  <2>1. Range(pending) = {}
    BY EmptyQueue DEF QueueInit
  <2>2. Called(stack) = {} /\ awaiting = {} /\ threw = {}
    BY DEF QueueInit, Called, Frames
  <2>3. Active = {}
    BY <2>2, ActiveIs
  <2> QED
    BY <2>1, <2>3 DEF QueueInit, B!BoardInit
<1> QED
  BY <1>1, <1>2, <1>3, PTL DEF QueueSpec, ImplementsJobBoard, B!BoardSpec
=============================================================================
