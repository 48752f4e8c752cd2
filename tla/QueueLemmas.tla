---------------------------- MODULE QueueLemmas ----------------------------
(***************************************************************************)
(* What the queue operations of the models do to the set of a sequence's   *)
(* elements and to its having no element twice.                            *)
(*                                                                         *)
(* The second part is about filter(), a recursive function (module         *)
(* Filter): there is one by induction over its sequence, whose principle   *)
(* follows from the numbers' being well founded.  The third is about       *)
(* FlattenSeq in the same way.                                             *)
(*                                                                         *)
(* The last part is the little algebra of division and products that the   *)
(* solver lacks.                                                           *)
(***************************************************************************)
EXTENDS Integers, Sequences, FiniteSets, SequencesExt, Functions, Filter,
        FiniteSetTheorems, SequenceTheorems, WellFoundedInduction, TLAPS

\* shift(): the head leaves, everything else stays.
LEMMA TailQueue ==
  ASSUME NEW S, NEW s \in Seq(S), s # <<>>, IsInjective(s)
  PROVE  /\ Tail(s) \in Seq(S)
         /\ Len(Tail(s)) = Len(s) - 1
         /\ Head(s) \in S
         /\ Head(s) \in Range(s)
         /\ IsInjective(Tail(s))
         /\ Range(Tail(s)) = Range(s) \ {Head(s)}
<1>1. /\ Tail(s) \in Seq(S)
      /\ Len(Tail(s)) = Len(s) - 1
      /\ Len(s) \in Nat \ {0}
      /\ DOMAIN s = 1 .. Len(s)
      /\ DOMAIN Tail(s) = 1 .. Len(Tail(s))
      /\ Head(s) = s[1]
      /\ \A i \in 1 .. Len(Tail(s)) : Tail(s)[i] = s[i + 1]
  OBVIOUS
<1>2. Head(s) \in S /\ Head(s) \in Range(s)
  BY <1>1 DEF Range
<1>3. IsInjective(Tail(s))
  BY <1>1 DEF IsInjective
<1>4. Range(Tail(s)) \subseteq Range(s) \ {Head(s)}
  BY <1>1 DEF Range, IsInjective
<1>5. ASSUME NEW x \in Range(s) \ {Head(s)}
      PROVE  x \in Range(Tail(s))
  <2>1. PICK i \in DOMAIN s : s[i] = x
    BY DEF Range
  <2>2. i # 1 /\ i \in 2 .. Len(s)
    BY <1>1, <2>1
  <2>3. i - 1 \in 1 .. Len(Tail(s)) /\ Tail(s)[i - 1] = x
    BY <1>1, <2>1, <2>2
  <2> QED
    BY <1>1, <2>3 DEF Range
<1> QED
  BY <1>1, <1>2, <1>3, <1>4, <1>5

\* push(): a new element joins.
LEMMA AppendQueue ==
  ASSUME NEW S, NEW s \in Seq(S), NEW x \in S, IsInjective(s), x \notin Range(s)
  PROVE  /\ Append(s, x) \in Seq(S)
         /\ Len(Append(s, x)) = Len(s) + 1
         /\ IsInjective(Append(s, x))
         /\ Range(Append(s, x)) = Range(s) \cup {x}
<1>1. /\ Append(s, x) \in Seq(S)
      /\ Len(s) \in Nat
      /\ Len(Append(s, x)) = Len(s) + 1
      /\ DOMAIN s = 1 .. Len(s)
      /\ DOMAIN Append(s, x) = 1 .. Len(s) + 1
      /\ \A i \in 1 .. Len(s) : Append(s, x)[i] = s[i]
      /\ Append(s, x)[Len(s) + 1] = x
  OBVIOUS
<1>2. IsInjective(Append(s, x))
  BY <1>1 DEF IsInjective, Range
<1>3. Range(Append(s, x)) = Range(s) \cup {x}
  BY <1>1 DEF Range
<1> QED
  BY <1>1, <1>2, <1>3

\* A whole queue joins another one with no element in common.
LEMMA ConcatQueue ==
  ASSUME NEW S, NEW s \in Seq(S), NEW t \in Seq(S),
         IsInjective(s), IsInjective(t), Range(s) \cap Range(t) = {}
  PROVE  /\ s \o t \in Seq(S)
         /\ IsInjective(s \o t)
         /\ Range(s \o t) = Range(s) \cup Range(t)
<1>1. /\ s \o t \in Seq(S)
      /\ Len(s) \in Nat /\ Len(t) \in Nat
      /\ DOMAIN s = 1 .. Len(s)
      /\ DOMAIN t = 1 .. Len(t)
      /\ DOMAIN (s \o t) = 1 .. Len(s) + Len(t)
      /\ \A i \in 1 .. Len(s) + Len(t) :
            (s \o t)[i] = IF i <= Len(s) THEN s[i] ELSE t[i - Len(s)]
  OBVIOUS
<1>2. IsInjective(s \o t)
  <2> SUFFICES ASSUME NEW i \in 1 .. Len(s) + Len(t), NEW j \in 1 .. Len(s) + Len(t),
                      (s \o t)[i] = (s \o t)[j]
               PROVE  i = j
    BY <1>1 DEF IsInjective
  <2>1. CASE i <= Len(s) /\ j <= Len(s)
    <3>1. i \in DOMAIN s /\ j \in DOMAIN s /\ s[i] = s[j]
      BY <1>1, <2>1
    <3> QED
      BY <3>1 DEF IsInjective
  <2>2. CASE i > Len(s) /\ j > Len(s)
    <3>1. /\ i - Len(s) \in DOMAIN t /\ j - Len(s) \in DOMAIN t
          /\ t[i - Len(s)] = t[j - Len(s)]
      BY <1>1, <2>2
    <3>2. i - Len(s) = j - Len(s)
      BY <3>1 DEF IsInjective
    <3> QED
      BY <1>1, <3>2
  <2>3. CASE i <= Len(s) /\ j > Len(s)
    <3>1. i \in DOMAIN s /\ j - Len(s) \in DOMAIN t /\ s[i] = t[j - Len(s)]
      BY <1>1, <2>3
    <3> QED
      BY <3>1 DEF Range
  <2>4. CASE i > Len(s) /\ j <= Len(s)
    <3>1. j \in DOMAIN s /\ i - Len(s) \in DOMAIN t /\ s[j] = t[i - Len(s)]
      BY <1>1, <2>4
    <3> QED
      BY <3>1 DEF Range
  <2> QED
    BY <1>1, <2>1, <2>2, <2>3, <2>4
<1>3. Range(s \o t) \subseteq Range(s) \cup Range(t)
  BY <1>1 DEF Range
<1>4. ASSUME NEW x \in Range(s) PROVE x \in Range(s \o t)
  BY <1>1 DEF Range
<1>5. ASSUME NEW x \in Range(t) PROVE x \in Range(s \o t)
  <2>1. PICK i \in 1 .. Len(t) : t[i] = x
    BY <1>1 DEF Range
  <2>2. /\ i + Len(s) \in 1 .. Len(s) + Len(t)
        /\ ~ (i + Len(s) <= Len(s))
        /\ (i + Len(s)) - Len(s) = i
    BY <1>1
  <2>3. (s \o t)[i + Len(s)] = x
    BY <1>1, <2>1, <2>2
  <2> QED
    BY <1>1, <2>2, <2>3 DEF Range
<1> QED
  BY <1>1, <1>2, <1>3, <1>4, <1>5

\* The empty queue.
LEMMA EmptyQueue ==
  ASSUME NEW S
  PROVE  <<>> \in Seq(S) /\ Len(<<>>) = 0 /\ IsInjective(<<>>) /\ Range(<<>>) = {}
BY DEF IsInjective, Range

\* Two queues in a row lose their first element: it is the first queue's.
LEMMA ConcatTail ==
  ASSUME NEW S, NEW s \in Seq(S), NEW t \in Seq(S), s # <<>>
  PROVE  s \o t # <<>> /\ Head(s \o t) = Head(s) /\ Tail(s \o t) = Tail(s) \o t
<1>1. /\ s \o t \in Seq(S) /\ Len(s \o t) = Len(s) + Len(t)
      /\ Len(s) \in Nat \ {0} /\ Len(t) \in Nat
      /\ \A i \in 1 .. Len(s) + Len(t) : (s \o t)[i] = IF i <= Len(s) THEN s[i] ELSE t[i - Len(s)]
  BY ConcatProperties, EmptySeq, LenProperties
<1>2. s \o t # <<>> /\ Head(s \o t) = Head(s)
  <2>1. s \o t # <<>>
    BY ConcatEqualIffEmpty
  <2>2. (s \o t)[1] = s[1]
    BY <1>1
  <2> QED
    BY <1>1, <2>1, <2>2
<1>3. /\ Tail(s \o t) \in Seq(S) /\ Len(Tail(s \o t)) = Len(s) + Len(t) - 1
      /\ \A i \in 1 .. Len(s) + Len(t) - 1 : Tail(s \o t)[i] = (s \o t)[i + 1]
  BY <1>1, <1>2, HeadTailProperties
<1>4. /\ Tail(s) \in Seq(S) /\ Len(Tail(s)) = Len(s) - 1
      /\ \A i \in 1 .. Len(s) - 1 : Tail(s)[i] = s[i + 1]
  BY HeadTailProperties
<1>5. /\ Tail(s) \o t \in Seq(S) /\ Len(Tail(s) \o t) = Len(s) - 1 + Len(t)
      /\ \A i \in 1 .. Len(s) - 1 + Len(t) :
            (Tail(s) \o t)[i] = IF i <= Len(s) - 1 THEN Tail(s)[i] ELSE t[i - (Len(s) - 1)]
  <2>1. Len(Tail(s)) = Len(s) - 1 /\ Tail(s) \in Seq(S)
    BY <1>4
  <2> QED
    BY <2>1, ConcatProperties
<1>6. ASSUME NEW i \in 1 .. Len(s) + Len(t) - 1 PROVE Tail(s \o t)[i] = (Tail(s) \o t)[i]
  <2>1. Tail(s \o t)[i] = IF i + 1 <= Len(s) THEN s[i + 1] ELSE t[i + 1 - Len(s)]
    BY <1>1, <1>3
  <2>2. CASE i + 1 <= Len(s)
    BY <1>1, <1>4, <1>5, <2>1, <2>2
  <2>3. CASE ~(i + 1 <= Len(s))
    <3>1. i + 1 - Len(s) = i - (Len(s) - 1)
      BY <1>1
    <3> QED
      BY <1>1, <1>5, <2>1, <2>3, <3>1
  <2> QED
    BY <2>2, <2>3
<1>7. Tail(s \o t) = Tail(s) \o t
  <2>1. Len(Tail(s \o t)) = Len(Tail(s) \o t) /\ Len(Tail(s \o t)) = Len(s) + Len(t) - 1
    BY <1>1, <1>3, <1>5
  <2> QED
    BY <1>3, <1>5, <1>6, <2>1, SeqEqual
<1> QED
  BY <1>2, <1>7

\* The first element of one queue moves to the end of the queue before it:
\* the two in a row are the same sequence as before.
LEMMA ConcatMove ==
  ASSUME NEW S, NEW s \in Seq(S), NEW t \in Seq(S), t # <<>>
  PROVE  Append(s, Head(t)) \o Tail(t) = s \o t
<1>1. Head(t) \in S /\ Tail(t) \in Seq(S) /\ <<Head(t)>> \in Seq(S)
  BY HeadTailProperties
<1>2. Append(s, Head(t)) \o Tail(t) = (s \o <<Head(t)>>) \o Tail(t)
  BY <1>1, AppendIsConcat
<1>3. (s \o <<Head(t)>>) \o Tail(t) = s \o (<<Head(t)>> \o Tail(t))
  BY <1>1, ConcatAssociative
<1>4. <<Head(t)>> \o Tail(t) = t
  BY <1>1
<1> QED
  BY <1>2, <1>3, <1>4

\* An element joins the second of two queues: it is the last of both in a row.
LEMMA ConcatAppend ==
  ASSUME NEW S, NEW s \in Seq(S), NEW t \in Seq(S), NEW x \in S
  PROVE  s \o Append(t, x) = Append(s \o t, x)
<1>1. /\ s \o t \in Seq(S) /\ <<x>> \in Seq(S) /\ Append(t, x) = t \o <<x>>
      /\ Append(s \o t, x) = (s \o t) \o <<x>>
  BY ConcatProperties, AppendIsConcat
<1>2. (s \o t) \o <<x>> = s \o (t \o <<x>>)
  BY <1>1, ConcatAssociative
<1> QED
  BY <1>1, <1>2

-----------------------------------------------------------------------------
\* The numbers below one another are well founded.
LEMMA BelowWellFounded == IsWellFoundedOn({p \in Nat \X Nat : p[1] < p[2]}, Nat)
<1>1. OpToRel(<, Nat) = {p \in Nat \X Nat : p[1] < p[2]}
  BY DEF OpToRel
<1> QED
  BY <1>1, NatLessThanWellFounded

\* Induction over the natural numbers, for a set of them.
LEMMA NatSetInduction ==
  ASSUME NEW P, 0 \in P, \A n \in Nat : n \in P => n + 1 \in P
  PROVE  \A n \in Nat : n \in P
<1> DEFINE Missing == Nat \ P
           Below == {p \in Nat \X Nat : p[1] < p[2]}
<1> SUFFICES ASSUME Missing # {} PROVE FALSE
  OBVIOUS
<1>1. \E n \in Missing : \A m \in Missing : ~ (<<m, n>> \in Below)
  <2>1. IsWellFoundedOn(Below, Nat) /\ Missing \subseteq Nat /\ Missing # {}
    BY BelowWellFounded
  <2> HIDE DEF Missing, Below
  <2> QED
    BY <2>1, WFMin
<1>2. PICK n \in Missing : \A m \in Missing : ~ (<<m, n>> \in Below)
  BY <1>1
<1>3. n \in Nat /\ n # 0 /\ n \notin P
  OBVIOUS
<1>4. n - 1 \in Nat /\ (n - 1) + 1 = n
  BY <1>3
<1>5. n - 1 \notin P
  BY <1>3, <1>4
<1>6. <<n - 1, n>> \in Below
  BY <1>3, <1>4
<1> QED
  BY <1>2, <1>4, <1>5, <1>6

\* A set of numbers that is not empty has a least one.
LEMMA LeastExists ==
  ASSUME NEW S \in SUBSET Nat, S # {}
  PROVE  \E x \in S : \A y \in S : x <= y
<1> DEFINE P == {n \in Nat : \A k \in 0..n : k \notin S}
<1> SUFFICES ASSUME \A x \in S : \E y \in S : ~(x <= y) PROVE FALSE
  OBVIOUS
<1>1. 0 \in P
  <2> SUFFICES ASSUME 0 \in S PROVE FALSE
    OBVIOUS
  <2>1. PICK y \in S : ~(0 <= y)
    OBVIOUS
  <2> QED
    BY <2>1
<1>2. \A n \in Nat : n \in P => n + 1 \in P
  <2> SUFFICES ASSUME NEW n \in Nat, n \in P, n + 1 \in S PROVE FALSE
    OBVIOUS
  <2>1. PICK y \in S : ~(n + 1 <= y)
    OBVIOUS
  <2>2. y \in 0..n
    BY <2>1
  <2> QED
    BY <2>2
<1> HIDE DEF P
<1>3. \A n \in Nat : n \in P
  BY <1>1, <1>2, NatSetInduction
<1>4. PICK x \in S : TRUE
  OBVIOUS
<1>5. x \in P /\ x \in 0..x
  BY <1>3, <1>4
<1> QED
  BY <1>4, <1>5 DEF P

\* Induction over sequences that grow at their end.
LEMMA SeqSetInduction ==
  ASSUME NEW S, NEW P, <<>> \in P,
         \A s \in Seq(S) : \A x \in S : s \in P => Append(s, x) \in P
  PROVE  \A s \in Seq(S) : s \in P
<1> DEFINE Lens == {n \in Nat : \A s \in Seq(S) : Len(s) = n => s \in P}
<1>1. 0 \in Lens
  OBVIOUS
<1>2. ASSUME NEW n \in Nat, n \in Lens PROVE n + 1 \in Lens
  <2> SUFFICES ASSUME NEW s \in Seq(S), Len(s) = n + 1 PROVE s \in P
    BY <1>2
  <2> DEFINE t == SubSeq(s, 1, n)
  <2>1. t \in Seq(S) /\ Len(t) = n /\ s[n + 1] \in S
    OBVIOUS
  <2>2. s = Append(t, s[n + 1])
    <3>1. Append(t, s[n + 1]) \in Seq(S) /\ Len(Append(t, s[n + 1])) = n + 1
      BY <2>1
    <3>2. \A i \in 1 .. n + 1 : Append(t, s[n + 1])[i] = s[i]
      BY <2>1
    <3> QED
      BY <3>1, <3>2, SeqEqual
  <2>3. t \in P
    BY <1>2, <2>1
  <2> HIDE DEF t
  <2> QED
    BY <2>1, <2>2, <2>3
<1>3. \A n \in Nat : n \in Lens
  <2> HIDE DEF Lens
  <2> QED
    BY <1>1, <1>2, NatSetInduction
<1> QED
  BY <1>3

\* Remaining's inner function, up to the place n.
KeptUpTo(g, s, A, n) ==
  /\ g = [i \in 0 .. n |-> g[i]]
  /\ g[0] = <<>>
  /\ \A i \in 1 .. n : g[i] = IF s[i] \in A THEN g[i - 1] ELSE Append(g[i - 1], s[i])

LEMMA KeptExists ==
  ASSUME NEW S, NEW A, NEW s \in Seq(S)
  PROVE  \E g : KeptUpTo(g, s, A, Len(s))
<1> DEFINE P == {t \in Seq(S) : \E g : KeptUpTo(g, t, A, Len(t))}
<1>1. <<>> \in P
  <2> DEFINE g == [i \in 0 .. 0 |-> <<>>]
  <2>1. KeptUpTo(g, <<>>, A, 0)
    BY DEF KeptUpTo
  <2> QED
    BY <2>1
<1>2. ASSUME NEW t \in Seq(S), NEW x \in S, t \in P PROVE Append(t, x) \in P
  <2>1. PICK g : KeptUpTo(g, t, A, Len(t))
    BY <1>2
  <2> DEFINE n == Len(t)
             h == [i \in 0 .. n + 1 |-> IF i <= n THEN g[i]
                                        ELSE IF x \in A THEN g[n] ELSE Append(g[n], x)]
  <2>2. /\ Append(t, x) \in Seq(S) /\ Len(Append(t, x)) = n + 1 /\ n \in Nat
        /\ Append(t, x)[n + 1] = x
        /\ \A i \in 1 .. n : Append(t, x)[i] = t[i]
    OBVIOUS
  <2>3. /\ h = [i \in 0 .. n + 1 |-> h[i]]
        /\ \A i \in 0 .. n : h[i] = g[i]
        /\ h[n + 1] = IF x \in A THEN g[n] ELSE Append(g[n], x)
    BY <2>2
  <2> HIDE DEF h
  <2>4. h[0] = <<>>
    <3>1. 0 \in 0 .. n
      BY <2>2
    <3>2. h[0] = g[0]
      BY <2>3, <3>1
    <3> QED
      BY <2>1, <3>2 DEF KeptUpTo
  <2>5. ASSUME NEW i \in 1 .. n + 1
        PROVE  h[i] = IF Append(t, x)[i] \in A THEN h[i - 1] ELSE Append(h[i - 1], Append(t, x)[i])
    <3>1. CASE i = n + 1
      <4>1. i - 1 = n /\ n \in 0 .. n
        BY <2>2, <3>1
      <4>2. h[i - 1] = g[n] /\ Append(t, x)[i] = x
        BY <2>2, <2>3, <3>1, <4>1
      <4> QED
        BY <2>3, <3>1, <4>2
    <3>2. CASE i \in 1 .. n
      <4>1. h[i] = g[i] /\ h[i - 1] = g[i - 1]
        <5>1. i \in 0 .. n /\ i - 1 \in 0 .. n
          BY <2>2, <3>2
        <5> QED
          BY <2>3, <5>1
      <4>2. g[i] = IF t[i] \in A THEN g[i - 1] ELSE Append(g[i - 1], t[i])
        BY <2>1, <3>2 DEF KeptUpTo
      <4> QED
        BY <2>2, <3>2, <4>1, <4>2
    <3> QED
      BY <2>2, <3>1, <3>2
  <2>6. KeptUpTo(h, Append(t, x), A, n + 1)
    BY <2>3, <2>4, <2>5 DEF KeptUpTo
  <2> QED
    BY <2>2, <2>6
<1>3. \A t \in Seq(S) : t \in P
  <2> HIDE DEF P
  <2> QED
    BY <1>1, <1>2, SeqSetInduction
<1> QED
  BY <1>3

\* The inner function for a sequence is that for a longer one, as far as it goes.
LEMMA KeptUnique ==
  ASSUME NEW s, NEW t, NEW A, NEW B, NEW n \in Nat, NEW m \in Nat, m <= n,
         NEW g, NEW h, KeptUpTo(g, s, A, n), KeptUpTo(h, t, B, m),
         \A i \in 1 .. m : s[i] = t[i] /\ (s[i] \in A <=> t[i] \in B)
  PROVE  g[m] = h[m]
<1> DEFINE P == {i \in Nat : i <= m => g[i] = h[i]}
<1>1. 0 \in P
  BY DEF KeptUpTo
<1>2. ASSUME NEW i \in Nat, i \in P PROVE i + 1 \in P
  <2> SUFFICES ASSUME i + 1 <= m PROVE g[i + 1] = h[i + 1]
    OBVIOUS
  <2>1. g[i] = h[i] /\ i + 1 \in 1 .. m /\ i + 1 \in 1 .. n /\ (i + 1) - 1 = i
    BY <1>2
  <2>2. g[i + 1] = IF s[i + 1] \in A THEN g[i] ELSE Append(g[i], s[i + 1])
    BY <2>1 DEF KeptUpTo
  <2>3. h[i + 1] = IF t[i + 1] \in B THEN h[i] ELSE Append(h[i], t[i + 1])
    BY <2>1 DEF KeptUpTo
  <2> QED
    BY <2>1, <2>2, <2>3
<1>3. \A i \in Nat : i \in P
  <2> HIDE DEF P
  <2> QED
    BY <1>1, <1>2, NatSetInduction
<1> QED
  BY <1>3

LEMMA RemainingKept ==
  ASSUME NEW S, NEW A, NEW s \in Seq(S)
  PROVE  \E g : KeptUpTo(g, s, A, Len(s)) /\ Remaining(s, A) = g[Len(s)]
<1> DEFINE Step(g) == [i \in 0 .. Len(s) |->
                         IF i = 0 THEN <<>>
                         ELSE IF s[i] \in A THEN g[i - 1] ELSE Append(g[i - 1], s[i])]
           kept == CHOOSE g : g = Step(g)
<1>1. ASSUME NEW g, KeptUpTo(g, s, A, Len(s)) PROVE g = Step(g)
  <2>1. \A i \in 0 .. Len(s) : g[i] = Step(g)[i]
    BY <1>1 DEF KeptUpTo
  <2>2. g = [i \in 0 .. Len(s) |-> g[i]]
    BY <1>1 DEF KeptUpTo
  <2> QED
    BY <2>1, <2>2
<1>2. kept = Step(kept)
  <2>1. \E g : g = Step(g)
    BY <1>1, KeptExists
  <2> HIDE DEF Step
  <2> QED
    BY <2>1
<1>3. KeptUpTo(kept, s, A, Len(s))
  <2> HIDE DEF kept
  <2>1. Len(s) \in Nat
    OBVIOUS
  <2>2. kept = [i \in 0 .. Len(s) |-> kept[i]] /\ \A i \in 0 .. Len(s) : kept[i] = Step(kept)[i]
    <3>1. \A i \in 0 .. Len(s) : kept[i] = Step(kept)[i]
      BY <1>2
    <3>2. \E f : kept = [i \in 0 .. Len(s) |-> f[i]]
      <4> DEFINE f == Step(kept)
      <4>1. f = [i \in 0 .. Len(s) |-> f[i]]
        OBVIOUS
      <4> HIDE DEF f
      <4> QED
        BY <1>2, <4>1
    <3> QED
      BY <3>1, <3>2
  <2> QED
    BY <2>1, <2>2 DEF KeptUpTo
<1>4. Remaining(s, A) = kept[Len(s)]
  BY DEF Remaining
<1> QED
  BY <1>3, <1>4

\* push(), whatever is in the queue.
LEMMA AppendRange ==
  ASSUME NEW S, NEW s \in Seq(S), NEW x \in S
  PROVE  /\ Append(s, x) \in Seq(S)
         /\ Len(Append(s, x)) = Len(s) + 1
         /\ Range(Append(s, x)) = Range(s) \cup {x}
         /\ IsInjective(Append(s, x)) => IsInjective(s) /\ x \notin Range(s)
<1>1. /\ Append(s, x) \in Seq(S)
      /\ Len(s) \in Nat
      /\ Len(Append(s, x)) = Len(s) + 1
      /\ DOMAIN s = 1 .. Len(s)
      /\ DOMAIN Append(s, x) = 1 .. Len(s) + 1
      /\ \A i \in 1 .. Len(s) : Append(s, x)[i] = s[i]
      /\ Append(s, x)[Len(s) + 1] = x
  OBVIOUS
<1>2. Range(Append(s, x)) = Range(s) \cup {x}
  BY <1>1 DEF Range
<1>3. IsInjective(Append(s, x)) => IsInjective(s)
  BY <1>1 DEF IsInjective
<1>4. IsInjective(Append(s, x)) => x \notin Range(s)
  BY <1>1 DEF IsInjective, Range
<1> QED
  BY <1>1, <1>2, <1>3, <1>4

\* filter() of an empty array, and of one with an element more.
LEMMA RemainingEmpty ==
  ASSUME NEW A
  PROVE  Remaining(<<>>, A) = <<>>
<1>1. PICK g : KeptUpTo(g, <<>>, A, Len(<<>>)) /\ Remaining(<<>>, A) = g[Len(<<>>)]
  BY EmptySeq, RemainingKept
<1> QED
  BY <1>1 DEF KeptUpTo

LEMMA RemainingAppend ==
  ASSUME NEW S, NEW A, NEW s \in Seq(S), NEW x \in S
  PROVE  Remaining(Append(s, x), A) =
           IF x \in A THEN Remaining(s, A) ELSE Append(Remaining(s, A), x)
<1> DEFINE n == Len(s)
           t == Append(s, x)
<1>1. /\ t \in Seq(S) /\ Len(t) = n + 1 /\ n \in Nat /\ t[n + 1] = x
      /\ \A i \in 1 .. n : s[i] = t[i]
  OBVIOUS
<1> HIDE DEF n, t
<1>2. PICK g : KeptUpTo(g, s, A, n) /\ Remaining(s, A) = g[n]
  BY RemainingKept DEF n
<1>3. PICK h : KeptUpTo(h, t, A, n + 1) /\ Remaining(t, A) = h[n + 1]
  BY <1>1, RemainingKept
<1>4. h[n] = g[n]
  <2>1. n <= n + 1 /\ n + 1 \in Nat /\ \A i \in 1 .. n : t[i] = s[i] /\ (t[i] \in A <=> s[i] \in A)
    BY <1>1
  <2> QED
    BY <1>1, <1>2, <1>3, <2>1, KeptUnique
<1>5. h[n + 1] = IF x \in A THEN h[n] ELSE Append(h[n], x)
  <2>1. n + 1 \in 1 .. n + 1 /\ (n + 1) - 1 = n
    BY <1>1
  <2> QED
    BY <1>1, <1>3, <2>1 DEF KeptUpTo
<1> QED
  BY <1>2, <1>3, <1>4, <1>5 DEF t

\* Dropping A or B is the same when they have the same elements of s.
LEMMA RemainingSame ==
  ASSUME NEW S, NEW A, NEW B, NEW s \in Seq(S), \A i \in 1 .. Len(s) : s[i] \in A <=> s[i] \in B
  PROVE  Remaining(s, A) = Remaining(s, B)
<1> DEFINE n == Len(s)
<1>1. n \in Nat /\ n <= n
  OBVIOUS
<1>2. PICK g : KeptUpTo(g, s, A, n) /\ Remaining(s, A) = g[n]
  BY RemainingKept
<1>3. PICK h : KeptUpTo(h, s, B, n) /\ Remaining(s, B) = h[n]
  BY RemainingKept
<1> HIDE DEF n
<1>4. \A i \in 1 .. n : s[i] = s[i] /\ (s[i] \in A <=> s[i] \in B)
  BY DEF n
<1>5. g[n] = h[n]
  BY <1>1, <1>2, <1>3, <1>4, KeptUnique
<1> QED
  BY <1>2, <1>3, <1>5

\* filter(): the elements of A leave, everything else stays.
LEMMA RemainingQueue ==
  ASSUME NEW S, NEW A, NEW s \in Seq(S)
  PROVE  /\ Remaining(s, A) \in Seq(S)
         /\ Len(Remaining(s, A)) <= Len(s)
         /\ Range(Remaining(s, A)) = Range(s) \ A
         /\ IsInjective(s) => IsInjective(Remaining(s, A))
<1> DEFINE Fine(t) == /\ Remaining(t, A) \in Seq(S)
                      /\ Len(Remaining(t, A)) <= Len(t)
                      /\ Range(Remaining(t, A)) = Range(t) \ A
                      /\ IsInjective(t) => IsInjective(Remaining(t, A))
           P == {t \in Seq(S) : Fine(t)}
<1>1. <<>> \in P
  <2>1. Remaining(<<>>, A) = <<>> /\ Range(<<>>) = {} /\ <<>> \in Seq(S) /\ Len(<<>>) <= Len(<<>>)
    BY RemainingEmpty, EmptyQueue
  <2> QED
    BY <2>1
<1>2. ASSUME NEW t \in Seq(S), NEW x \in S, t \in P PROVE Append(t, x) \in P
  <2> DEFINE u == Append(t, x)
             r == Remaining(t, A)
  <2>1. u \in Seq(S) /\ Len(u) = Len(t) + 1 /\ Range(u) = Range(t) \cup {x}
    BY AppendRange
  <2>2. r \in Seq(S) /\ Len(r) <= Len(t) /\ Range(r) = Range(t) \ A /\ (IsInjective(t) => IsInjective(r))
    BY <1>2
  <2>3. CASE x \in A
    <3>1. Remaining(u, A) = r
      BY <2>3, RemainingAppend
    <3>2. IsInjective(u) => IsInjective(t)
      BY AppendRange
    <3>3. Range(r) = Range(u) \ A
      BY <2>1, <2>2, <2>3
    <3>4. Len(t) \in Nat /\ Len(r) \in Nat
      BY <2>2
    <3>5. Len(r) <= Len(u)
      BY <2>1, <2>2, <3>4
    <3> HIDE DEF u, r
    <3>6. Fine(u)
      BY <2>1, <2>2, <3>1, <3>2, <3>3, <3>5
    <3> QED
      BY <2>1, <3>6 DEF u
  <2>4. CASE x \notin A
    <3>1. Remaining(u, A) = Append(r, x)
      BY <2>4, RemainingAppend
    <3>2. IsInjective(u) => IsInjective(t) /\ x \notin Range(t)
      BY AppendRange
    <3>3. /\ Append(r, x) \in Seq(S) /\ Len(Append(r, x)) = Len(r) + 1
          /\ Range(Append(r, x)) = Range(r) \cup {x}
      BY <2>2, AppendRange
    <3>4. IsInjective(u) => IsInjective(Append(r, x))
      BY <2>2, <3>2, AppendQueue
    <3>5. Len(t) \in Nat /\ Len(r) \in Nat
      BY <2>2
    <3>6. Range(Append(r, x)) = Range(u) \ A
      BY <2>1, <2>2, <2>4, <3>3
    <3>7. Len(Append(r, x)) <= Len(u)
      BY <2>1, <2>2, <3>3, <3>5
    <3> HIDE DEF u, r
    <3>8. Fine(u)
      BY <3>1, <3>3, <3>4, <3>6, <3>7
    <3> QED
      BY <2>1, <3>8 DEF u
  <2> QED
    BY <2>3, <2>4
<1>3. \A t \in Seq(S) : t \in P
  <2> HIDE DEF P
  <2> QED
    BY <1>1, <1>2, SeqSetInduction
<1> QED
  BY <1>3

\* filter(): what stays keeps its order.
LEMMA RemainingOrdered ==
  ASSUME NEW S, NEW A, NEW s \in Seq(S),
         NEW i \in 1 .. Len(s), NEW j \in 1 .. Len(s), i < j, s[i] \notin A, s[j] \notin A
  PROVE  \E a, b \in 1 .. Len(Remaining(s, A)) :
           a < b /\ Remaining(s, A)[a] = s[i] /\ Remaining(s, A)[b] = s[j]
<1> DEFINE Ordered(t) ==
      \A m, n \in 1 .. Len(t) : m < n /\ t[m] \notin A /\ t[n] \notin A =>
        \E a, b \in 1 .. Len(Remaining(t, A)) :
          a < b /\ Remaining(t, A)[a] = t[m] /\ Remaining(t, A)[b] = t[n]
           P == {t \in Seq(S) : Ordered(t)}
<1>1. <<>> \in P
  BY EmptyQueue
<1>2. ASSUME NEW t \in Seq(S), NEW x \in S, t \in P PROVE Append(t, x) \in P
  <2> DEFINE u == Append(t, x)
             r == Remaining(t, A)
  <2>1. /\ u \in Seq(S) /\ Len(u) = Len(t) + 1 /\ Len(t) \in Nat
        /\ \A n \in 1 .. Len(t) : u[n] = t[n]
        /\ u[Len(t) + 1] = x
    OBVIOUS
  <2>2. r \in Seq(S) /\ Len(r) \in Nat /\ Range(r) = Range(t) \ A
    BY RemainingQueue
  <2>3. /\ Len(Append(r, x)) = Len(r) + 1 /\ Append(r, x)[Len(r) + 1] = x
        /\ \A a \in 1 .. Len(r) : Append(r, x)[a] = r[a]
    BY <2>2
  <2>4. Remaining(u, A) = IF x \in A THEN r ELSE Append(r, x)
    BY RemainingAppend
  <2>5. \A n \in 1 .. Len(t) : t[n] \notin A => \E a \in 1 .. Len(r) : r[a] = t[n]
    BY <2>1, <2>2 DEF Range
  <2>6. Ordered(t)
    BY <1>2
  <2>7. \A m, n \in 1 .. Len(t) : m < n /\ t[m] \notin A /\ t[n] \notin A =>
          \E a, b \in 1 .. Len(r) : a < b /\ r[a] = t[m] /\ r[b] = t[n]
    BY <2>6
  <2> HIDE DEF u, r
  <2>8. ASSUME NEW m \in 1 .. Len(u), NEW n \in 1 .. Len(u), m < n, u[m] \notin A, u[n] \notin A
        PROVE  \E a, b \in 1 .. Len(Remaining(u, A)) :
                 a < b /\ Remaining(u, A)[a] = u[m] /\ Remaining(u, A)[b] = u[n]
    <3>1. m \in 1 .. Len(t) /\ u[m] = t[m]
      BY <2>1, <2>8
    <3>2. CASE n \in 1 .. Len(t)
      <4>1. u[n] = t[n]
        BY <2>1, <3>2
      <4>2. PICK a \in 1 .. Len(r), b \in 1 .. Len(r) : a < b /\ r[a] = t[m] /\ r[b] = t[n]
        BY <2>7, <2>8, <3>1, <3>2, <4>1
      <4>3. /\ a \in 1 .. Len(Remaining(u, A)) /\ b \in 1 .. Len(Remaining(u, A))
            /\ Remaining(u, A)[a] = r[a] /\ Remaining(u, A)[b] = r[b]
        BY <2>2, <2>3, <2>4
      <4> QED
        BY <3>1, <4>1, <4>2, <4>3
    <3>3. CASE n \notin 1 .. Len(t)
      <4>1. n = Len(t) + 1 /\ u[n] = x
        BY <2>1, <3>3
      <4>2. PICK a \in 1 .. Len(r) : r[a] = t[m]
        BY <2>5, <2>8, <3>1
      <4>3. Remaining(u, A) = Append(r, x)
        BY <2>4, <2>8, <4>1
      <4>4. a < Len(r) + 1 /\ a \in 1 .. Len(r) + 1 /\ Len(r) + 1 \in 1 .. Len(r) + 1
        BY <2>2
      <4> QED
        BY <2>3, <3>1, <4>1, <4>2, <4>3, <4>4
    <3> QED
      BY <3>2, <3>3
  <2>9. Ordered(u)
    BY <2>8
  <2> QED
    BY <2>1, <2>9 DEF u
<1>3. \A t \in Seq(S) : t \in P
  <2> HIDE DEF P
  <2> QED
    BY <1>1, <1>2, SeqSetInduction
<1> QED
  BY <1>3

\* Dropping what is not there changes nothing, dropping all leaves nothing.
LEMMA RemainingAll ==
  ASSUME NEW S, NEW A, NEW s \in Seq(S), \A i \in 1 .. Len(s) : s[i] \notin A
  PROVE  Remaining(s, A) = s
<1> DEFINE P == {t \in Seq(S) : Remaining(t, {}) = t}
<1>1. <<>> \in P
  BY RemainingEmpty, EmptySeq
<1>2. ASSUME NEW t \in Seq(S), NEW x \in S, t \in P PROVE Append(t, x) \in P
  <2>1. Remaining(Append(t, x), {}) = Append(Remaining(t, {}), x)
    BY RemainingAppend
  <2> QED
    BY <1>2, <2>1
<1>3. \A t \in Seq(S) : t \in P
  <2> HIDE DEF P
  <2> QED
    BY <1>1, <1>2, SeqSetInduction
<1>4. Remaining(s, A) = Remaining(s, {})
  BY RemainingSame
<1> QED
  BY <1>3, <1>4

LEMMA RemainingNone ==
  ASSUME NEW S, NEW A, NEW s \in Seq(S), \A i \in 1 .. Len(s) : s[i] \in A
  PROVE  Remaining(s, A) = <<>>
<1>1. Range(Remaining(s, A)) = {} /\ Remaining(s, A) \in Seq(S)
  BY RemainingQueue DEF Range
<1> DEFINE r == Remaining(s, A)
<1> HIDE DEF r
<1>2. r # <<>> => Len(r) # 0 /\ r[1] \in Range(r)
  BY <1>1 DEF Range, r
<1> QED
  BY <1>1, <1>2 DEF r

\* filter() drops something: what remains is shorter.
LEMMA RemainingShorter ==
  ASSUME NEW S, NEW A, NEW s \in Seq(S), Range(s) \cap A # {}
  PROVE  Len(Remaining(s, A)) < Len(s)
<1> DEFINE P == {t \in Seq(S) : Range(t) \cap A # {} => Len(Remaining(t, A)) < Len(t)}
<1>1. <<>> \in P
  BY EmptyQueue
<1>2. ASSUME NEW t \in Seq(S), NEW x \in S, t \in P PROVE Append(t, x) \in P
  <2>1. /\ Append(t, x) \in Seq(S) /\ Len(Append(t, x)) = Len(t) + 1
        /\ Range(Append(t, x)) = Range(t) \cup {x} /\ Len(t) \in Nat
    BY AppendRange
  <2>2. Remaining(t, A) \in Seq(S) /\ Len(Remaining(t, A)) \in Nat /\ Len(Remaining(t, A)) <= Len(t)
    BY RemainingQueue
  <2>3. CASE x \in A
    BY <2>1, <2>2, <2>3, RemainingAppend
  <2>4. CASE x \notin A
    <3>1. /\ Remaining(Append(t, x), A) = Append(Remaining(t, A), x)
          /\ Len(Append(Remaining(t, A), x)) = Len(Remaining(t, A)) + 1
      BY <2>2, <2>4, RemainingAppend
    <3>2. Range(Append(t, x)) \cap A # {} => Range(t) \cap A # {}
      BY <2>1, <2>4
    <3> QED
      BY <1>2, <2>1, <2>2, <3>1, <3>2
  <2> QED
    BY <2>3, <2>4
<1>3. \A t \in Seq(S) : t \in P
  <2> HIDE DEF P
  <2> QED
    BY <1>1, <1>2, SeqSetInduction, SMTT(30)
<1> QED
  BY <1>3

\* The last ones of a queue.
LEMMA LastOnes ==
  ASSUME NEW S, NEW s \in Seq(S), NEW m \in 0 .. Len(s)
  PROVE  LET u == SubSeq(s, m + 1, Len(s))
         IN  /\ u \in Seq(S) /\ Len(u) = Len(s) - m
             /\ Range(u) \subseteq Range(s)
             /\ IsInjective(s) => IsInjective(u)
             /\ \A i \in 1 .. Len(s) - m : u[i] = s[i + m]
             /\ m = 0 => u = s
<1> DEFINE u == SubSeq(s, m + 1, Len(s))
<1>1. /\ u \in Seq(S) /\ Len(u) = Len(s) - m /\ Len(s) \in Nat
      /\ DOMAIN s = 1 .. Len(s) /\ DOMAIN u = 1 .. Len(s) - m
      /\ \A i \in 1 .. Len(s) - m : u[i] = s[i + m]
  OBVIOUS
<1> HIDE DEF u
<1>2. \A i \in 1 .. Len(s) - m : i + m \in 1 .. Len(s)
  BY <1>1
<1>3. Range(u) \subseteq Range(s)
  BY <1>1, <1>2 DEF Range
<1>4. IsInjective(s) => IsInjective(u)
  <2> SUFFICES ASSUME IsInjective(s), NEW i \in 1 .. Len(s) - m, NEW j \in 1 .. Len(s) - m, u[i] = u[j]
               PROVE  i = j
    BY <1>1 DEF IsInjective
  <2>1. i + m \in DOMAIN s /\ j + m \in DOMAIN s /\ s[i + m] = s[j + m]
    BY <1>1, <1>2
  <2>2. i + m = j + m
    BY <2>1 DEF IsInjective
  <2> QED
    BY <2>2, <1>1
<1>5. m = 0 => u = s
  <2> SUFFICES ASSUME m = 0 PROVE u = s
    OBVIOUS
  <2>1. Len(u) = Len(s) /\ \A i \in 1 .. Len(u) : u[i] = s[i]
    BY <1>1
  <2> QED
    BY <1>1, <2>1, SeqEqual
<1> QED
  BY <1>1, <1>3, <1>4, <1>5, Zenon DEF u

-----------------------------------------------------------------------------
(* FlattenSeq of a sequence that grows at its end. *)

\* FlattenSeq's inner function, up to the place n.
FlatUpTo(g, s, n) ==
  /\ g = [i \in 1 .. n |-> g[i]]
  /\ \A i \in 1 .. n : g[i] = IF i = 1 THEN s[i] ELSE g[i - 1] \o s[i]

\* FlattenSeq has such a function.
LEMMA FlatExists ==
  ASSUME NEW S, NEW s \in Seq(S)
  PROVE  \E g : FlatUpTo(g, s, Len(s))
<1> DEFINE P == {t \in Seq(S) : \E g : FlatUpTo(g, t, Len(t))}
<1>1. <<>> \in P
  <2> DEFINE g == [i \in 1 .. 0 |-> <<>>]
  <2>1. FlatUpTo(g, <<>>, 0)
    BY DEF FlatUpTo
  <2> QED
    BY <2>1
<1>2. ASSUME NEW t \in Seq(S), NEW x \in S, t \in P PROVE Append(t, x) \in P
  <2>1. PICK g : FlatUpTo(g, t, Len(t))
    BY <1>2
  <2> DEFINE n == Len(t)
             h == [i \in 1 .. n + 1 |-> IF i <= n THEN g[i] ELSE IF n = 0 THEN x ELSE g[n] \o x]
  <2>2. /\ Append(t, x) \in Seq(S) /\ Len(Append(t, x)) = n + 1 /\ n \in Nat
        /\ Append(t, x)[n + 1] = x
        /\ \A i \in 1 .. n : Append(t, x)[i] = t[i]
    OBVIOUS
  <2>3. /\ h = [i \in 1 .. n + 1 |-> h[i]]
        /\ \A i \in 1 .. n : h[i] = g[i]
        /\ h[n + 1] = IF n = 0 THEN x ELSE g[n] \o x
    BY <2>2
  <2> HIDE DEF h
  <2>4. ASSUME NEW i \in 1 .. n + 1
        PROVE  h[i] = IF i = 1 THEN Append(t, x)[i] ELSE h[i - 1] \o Append(t, x)[i]
    <3>1. CASE i = n + 1
      <4>1. i - 1 = n /\ Append(t, x)[i] = x /\ (i # 1 => n \in 1 .. n)
        BY <2>2, <3>1
      <4>2. i # 1 => h[i - 1] = g[n]
        BY <2>3, <4>1
      <4> QED
        BY <2>2, <2>3, <3>1, <4>1, <4>2
    <3>2. CASE i \in 1 .. n
      <4>1. h[i] = g[i] /\ Append(t, x)[i] = t[i]
        BY <2>2, <2>3, <3>2
      <4>2. i # 1 => i - 1 \in 1 .. n
        BY <2>2, <3>2
      <4>3. i # 1 => h[i - 1] = g[i - 1]
        BY <2>3, <4>2
      <4>4. g[i] = IF i = 1 THEN t[i] ELSE g[i - 1] \o t[i]
        BY <2>1, <3>2 DEF FlatUpTo
      <4> QED
        BY <4>1, <4>3, <4>4
    <3> QED
      BY <2>2, <3>1, <3>2
  <2>5. FlatUpTo(h, Append(t, x), n + 1)
    BY <2>3, <2>4 DEF FlatUpTo
  <2> QED
    BY <2>2, <2>5
<1>3. \A t \in Seq(S) : t \in P
  <2> HIDE DEF P
  <2> QED
    BY <1>1, <1>2, SeqSetInduction
<1> QED
  BY <1>3

\* Two sequences that agree as far as m are flattened alike so far.
LEMMA FlatUnique ==
  ASSUME NEW s, NEW t, NEW n \in Nat, NEW m \in Nat, m <= n, m # 0,
         NEW g, NEW h, FlatUpTo(g, s, n), FlatUpTo(h, t, m),
         \A i \in 1 .. m : s[i] = t[i]
  PROVE  g[m] = h[m]
<1> DEFINE P == {i \in Nat : i \in 1 .. m => g[i] = h[i]}
<1>1. 0 \in P
  OBVIOUS
<1>2. ASSUME NEW i \in Nat, i \in P PROVE i + 1 \in P
  <2> SUFFICES ASSUME i + 1 <= m PROVE g[i + 1] = h[i + 1]
    OBVIOUS
  <2>1. /\ i + 1 \in 1 .. m /\ i + 1 \in 1 .. n /\ (i + 1) - 1 = i
        /\ i + 1 # 1 => i \in 1 .. m
    BY <1>2
  <2>2. g[i + 1] = IF i + 1 = 1 THEN s[i + 1] ELSE g[i] \o s[i + 1]
    BY <2>1 DEF FlatUpTo
  <2>3. h[i + 1] = IF i + 1 = 1 THEN t[i + 1] ELSE h[i] \o t[i + 1]
    BY <2>1 DEF FlatUpTo
  <2>4. i + 1 # 1 => g[i] = h[i]
    BY <1>2, <2>1
  <2> QED
    BY <2>1, <2>2, <2>3, <2>4
<1>3. \A i \in Nat : i \in P
  <2> HIDE DEF P
  <2> QED
    BY <1>1, <1>2, NatSetInduction
<1> QED
  BY <1>3

\* It is what FlattenSeq computes.
LEMMA FlattenFlat ==
  ASSUME NEW S, NEW s \in Seq(S), s # <<>>
  PROVE  \E g : FlatUpTo(g, s, Len(s)) /\ FlattenSeq(s) = g[Len(s)]
<1> DEFINE Inner(g) == [i \in 1 .. Len(s) |-> IF i = 1 THEN s[i] ELSE g[i - 1] \o s[i]]
           flat == CHOOSE g : g = Inner(g)
<1>1. ASSUME NEW g, FlatUpTo(g, s, Len(s)) PROVE g = Inner(g)
  <2>1. \A i \in 1 .. Len(s) : g[i] = Inner(g)[i]
    BY <1>1 DEF FlatUpTo
  <2>2. g = [i \in 1 .. Len(s) |-> g[i]]
    BY <1>1 DEF FlatUpTo
  <2> QED
    BY <2>1, <2>2
<1>2. flat = Inner(flat)
  <2>1. \E g : g = Inner(g)
    BY <1>1, FlatExists
  <2> HIDE DEF Inner
  <2> QED
    BY <2>1
<1>3. FlatUpTo(flat, s, Len(s))
  <2> HIDE DEF flat
  <2>1. \A i \in 1 .. Len(s) : flat[i] = Inner(flat)[i]
    BY <1>2
  <2>2. \E f : flat = [i \in 1 .. Len(s) |-> f[i]]
    <3> DEFINE f == Inner(flat)
    <3>1. f = [i \in 1 .. Len(s) |-> f[i]]
      OBVIOUS
    <3> HIDE DEF f
    <3> QED
      BY <1>2, <3>1
  <2> QED
    BY <2>1, <2>2 DEF FlatUpTo
<1>4. FlattenSeq(s) = flat[Len(s)]
  <2>1. Len(s) # 0
    OBVIOUS
  <2> QED
    BY <2>1 DEF FlattenSeq
<1> QED
  BY <1>3, <1>4

\* Nothing flattened is nothing.
LEMMA FlattenEmpty == FlattenSeq(<<>>) = <<>>
BY DEF FlattenSeq

\* One sequence more at the end is joined at the end.
LEMMA FlattenAppend ==
  ASSUME NEW S, NEW s \in Seq(Seq(S)), NEW x \in Seq(S)
  PROVE  FlattenSeq(Append(s, x)) = FlattenSeq(s) \o x
<1> DEFINE n == Len(s)
           t == Append(s, x)
<1>1. /\ t \in Seq(Seq(S)) /\ Len(t) = n + 1 /\ n \in Nat /\ t[n + 1] = x /\ t # <<>>
      /\ \A i \in 1 .. n : t[i] = s[i]
  OBVIOUS
<1> HIDE DEF t
<1>2. PICK g : FlatUpTo(g, t, n + 1) /\ FlattenSeq(t) = g[n + 1]
  BY <1>1, FlattenFlat
<1>3. g[n + 1] = IF n + 1 = 1 THEN t[n + 1] ELSE g[n] \o t[n + 1]
  <2>1. n + 1 \in 1 .. n + 1 /\ (n + 1) - 1 = n
    BY <1>1
  <2> QED
    BY <1>2, <2>1 DEF FlatUpTo
<1>4. CASE s = <<>>
  <2>1. n = 0 /\ FlattenSeq(s) = <<>> /\ <<>> \o x = x
    BY <1>4, FlattenEmpty
  <2> QED
    BY <1>1, <1>2, <1>3, <2>1 DEF t
<1>5. CASE s # <<>>
  <2>1. PICK h : FlatUpTo(h, s, n) /\ FlattenSeq(s) = h[n]
    BY <1>5, FlattenFlat
  <2>2. n \in 1 .. n /\ n <= n + 1
    BY <1>5
  <2>3. n <= n + 1 /\ n + 1 \in Nat /\ n # 0 /\ \A i \in 1 .. n : t[i] = s[i]
    BY <1>1, <2>2
  <2>4. g[n] = h[n]
    <3>1. FlatUpTo(g, t, n + 1) /\ FlatUpTo(h, s, n) /\ n \in Nat
      BY <1>1, <1>2, <2>1
    <3> HIDE DEF n
    <3> QED
      BY <2>3, <3>1, FlatUnique
  <2>5. n + 1 # 1
    BY <2>2
  <2>6. FlattenSeq(t) = g[n] \o x
    BY <1>1, <1>2, <1>3, <2>5, Zenon
  <2> QED
    BY <2>1, <2>4, <2>6, Zenon DEF t
<1> QED
  BY <1>4, <1>5

\* The elements stay the elements.
LEMMA FlattenType ==
  ASSUME NEW S, NEW s \in Seq(Seq(S))
  PROVE  FlattenSeq(s) \in Seq(S)
<1> DEFINE P == {t \in Seq(Seq(S)) : FlattenSeq(t) \in Seq(S)}
<1>1. <<>> \in P
  BY FlattenEmpty, EmptySeq
<1>2. ASSUME NEW t \in Seq(Seq(S)), NEW x \in Seq(S), t \in P PROVE Append(t, x) \in P
  <2>1. Append(t, x) \in Seq(Seq(S))
    OBVIOUS
  <2>2. FlattenSeq(t) \in Seq(S)
    BY <1>2
  <2>3. FlattenSeq(t) \o x \in Seq(S)
    BY <2>2, ConcatProperties
  <2>4. FlattenSeq(Append(t, x)) = FlattenSeq(t) \o x
    BY FlattenAppend
  <2> QED
    BY <2>1, <2>3, <2>4
<1>3. \A t \in Seq(Seq(S)) : t \in P
  <2> HIDE DEF P
  <2> QED
    BY <1>1, <1>2, SeqSetInduction
<1> QED
  BY <1>3

-----------------------------------------------------------------------------
(* Division and products. *)

LEMMA DivMod ==
  ASSUME NEW a \in Int, NEW b \in Nat \ {0}
  PROVE  /\ a \div b \in Int /\ a % b \in 0 .. b - 1
         /\ a = (a \div b) * b + (a % b)
OBVIOUS

LEMMA DivNat ==
  ASSUME NEW a \in Nat, NEW b \in Nat \ {0}
  PROVE  a \div b \in Nat
<1>1. a \div b \in Int /\ a % b \in 0 .. b - 1 /\ a = (a \div b) * b + (a % b)
  BY DivMod
<1>2. CASE a \div b < 0
  <2>1. (a \div b) * b <= -b
    BY <1>1, <1>2
  <2> QED
    BY <1>1, <2>1
<1> QED
  BY <1>1, <1>2

LEMMA DivUnique ==
  ASSUME NEW b \in Nat \ {0}, NEW q \in Int, NEW r \in 0 .. b - 1, NEW x \in Int, NEW y \in 0 .. b - 1,
         q * b + r = x * b + y
  PROVE  q = x /\ r = y
<1>1. CASE q < x
  <2>1. (x - q) * b >= b
    BY <1>1
  <2> QED
    BY <2>1, <1>1
<1>2. CASE q > x
  <2>1. (q - x) * b >= b
    BY <1>2
  <2> QED
    BY <2>1, <1>2
<1>3. CASE q = x
  BY <1>3
<1> QED
  BY <1>1, <1>2, <1>3

LEMMA TimesMonotone ==
  ASSUME NEW c \in Nat, NEW a \in Int, NEW b \in Int, a <= b
  PROVE  a * c <= b * c
<1>1. (b - a) * c >= 0
  OBVIOUS
<1>2. (b - a) * c = b * c - a * c
  OBVIOUS
<1>3. a * c \in Int /\ b * c \in Int
  OBVIOUS
<1> QED
  BY <1>1, <1>2, <1>3

\* The quotient and the remainder that a number is made of.
LEMMA DivIs ==
  ASSUME NEW d \in Int, NEW b \in Nat \ {0}, NEW q \in Int, NEW r \in 0 .. b - 1, d = q * b + r
  PROVE  d \div b = q /\ d % b = r
<1>1. d \div b \in Int /\ d % b \in 0 .. b - 1 /\ d = (d \div b) * b + (d % b)
  BY DivMod
<1> DEFINE x == d \div b
           y == d % b
<1>2. x \in Int /\ y \in 0 .. b - 1 /\ q * b + r = x * b + y
  BY <1>1
<1> HIDE DEF x, y
<1>3. q = x /\ r = y
  BY <1>2, DivUnique
<1> QED
  BY <1>3 DEF x, y
=============================================================================
