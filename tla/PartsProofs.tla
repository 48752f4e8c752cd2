---------------------------- MODULE PartsProofs ----------------------------
(***************************************************************************)
(* Proofs about components that MCParts runs, for every value of the       *)
(* constants: the streams merge and debounce, the emitter, cron's search   *)
(* and runner, and the life of a server.                                   *)
(***************************************************************************)
EXTENDS MCParts, QueueLemmas

-----------------------------------------------------------------------------
(* The queue of a stream, of items from S. *)

QueueOf(S) ==
  /\ items \in Seq(S) /\ delivered \in Seq(S) /\ hand \in S \cup {Nothing}
  /\ QueueTypeOK

\* What the consumer got or has in its hand.
Got(d, h) == IF h = Nothing THEN d ELSE Append(d, h)

LEMMA GotItems ==
  ASSUME NEW S, NEW d \in Seq(S), NEW h \in S \cup {Nothing}, NEW queue \in Seq(S)
  PROVE  d \o (IF h = Nothing THEN <<>> ELSE <<h>>) \o queue = Got(d, h) \o queue
<1>1. /\ h = Nothing => d \o (IF h = Nothing THEN <<>> ELSE <<h>>) = d
      /\ h # Nothing => d \o (IF h = Nothing THEN <<>> ELSE <<h>>) = Append(d, h)
  <2>1. d \o <<>> = d
    BY ConcatEmptySeq
  <2>2. h # Nothing => d \o <<h>> = Append(d, h)
    BY AppendIsConcat
  <2> QED
    BY <2>1, <2>2
<1>2. d \o (IF h = Nothing THEN <<>> ELSE <<h>>) = Got(d, h)
  BY <1>1 DEF Got
<1> QED
  BY <1>2

LEMMA GotTyped ==
  ASSUME NEW S, NEW d \in Seq(S), NEW h \in S \cup {Nothing}, NEW queue \in Seq(S)
  PROVE  Got(d, h) \in Seq(S) /\ Got(d, h) \o queue \in Seq(S)
<1>1. Got(d, h) \in Seq(S)
  BY DEF Got
<1> QED
  BY <1>1, ConcatProperties

LEMMA StreamGot ==
  ASSUME NEW S, QueueOf(S)
  PROVE  Stream = Got(delivered, hand) \o items /\ Got(delivered, hand) \in Seq(S) /\ Stream \in Seq(S)
<1>1. items \in Seq(S) /\ delivered \in Seq(S) /\ hand \in S \cup {Nothing}
  BY DEF QueueOf
<1>2. delivered \o (IF hand = Nothing THEN <<>> ELSE <<hand>>) \o items = Got(delivered, hand) \o items
  BY <1>1, GotItems
<1>3. Got(delivered, hand) \in Seq(S) /\ Got(delivered, hand) \o items \in Seq(S)
  BY <1>1, GotTyped
<1>4. Stream = delivered \o (IF hand = Nothing THEN <<>> ELSE <<hand>>) \o items
  BY DEF Stream
<1> QED
  BY <1>2, <1>3, <1>4, Zenon

LEMMA StreamGotNext ==
  ASSUME NEW S, QueueOf(S)'
  PROVE  Stream' = Got(delivered', hand') \o items'
<1>1. items' \in Seq(S) /\ delivered' \in Seq(S) /\ hand' \in S \cup {Nothing}
  BY DEF QueueOf
<1>2. delivered' \o (IF hand' = Nothing THEN <<>> ELSE <<hand'>>) \o items' = Got(delivered', hand') \o items'
  BY <1>1, GotItems
<1>3. Stream' = delivered' \o (IF hand' = Nothing THEN <<>> ELSE <<hand'>>) \o items'
  BY DEF Stream
<1> QED
  BY <1>2, <1>3, Zenon

LEMMA StreamKeeps ==
  ASSUME NEW S, QueueOf(S), QueueOf(S)', Got(delivered', hand') = Got(delivered, hand), items' = items
  PROVE  Stream' = Stream
<1>1. Stream = Got(delivered, hand) \o items
  BY StreamGot
<1>2. Stream' = Got(delivered', hand') \o items'
  BY StreamGotNext
<1> QED
  BY <1>1, <1>2, Zenon

\* push: the item comes last in the stream, whoever waits.
LEMMA PushExtends ==
  ASSUME NEW S, Nothing \notin S, QueueOf(S), NEW item \in S, NEW last, PushThen(item, last),
         delivered' = delivered
  PROVE  /\ QueueOf(S)' /\ Stream' = Append(Stream, item) /\ Stream \in Seq(S)
         /\ \/ items' = Append(items, item) /\ hand' = hand /\ reader' = reader
            \/ reader = "waiting" /\ reader' = "resumed" /\ items = <<>> /\ items' = <<>> /\ hand' = item
<1> DEFINE queue == Append(items, item)
<1>0. items \in Seq(S) /\ delivered \in Seq(S) /\ hand \in S \cup {Nothing} /\ QueueTypeOK
  BY DEF QueueOf
<1>1. queue \in Seq(S) /\ queue # <<>>
  BY <1>0
<1>2. \/ Waits /\ reader' = "resumed" /\ hand' = Head(queue) /\ items' = Tail(queue)
      \/ ~Waits /\ items' = queue /\ UNCHANGED <<reader, hand>>
  BY <1>1, Zenon DEF PushThen, Settle
<1>3. CASE Waits /\ reader' = "resumed" /\ hand' = Head(queue) /\ items' = Tail(queue)
  <2>1. reader = "waiting" /\ items = <<>> /\ hand = Nothing
    BY <1>0, <1>3 DEF Waits, QueueTypeOK
  <2>2. queue = <<item>>
    BY <2>1
  <2>3. hand' = item /\ items' = <<>>
    BY <1>3, <2>2
  <2>4. QueueOf(S)'
    <3>1. hand' \in S /\ hand' # Nothing /\ items' \in Seq(S) /\ delivered' \in Seq(S)
      BY <1>0, <2>3
    <3>2. reader' = "resumed"
      BY <1>3
    <3> QED
      BY <3>1, <3>2 DEF QueueOf, QueueTypeOK
  <2>5. Stream = delivered
    <3>1. Stream = Got(delivered, hand) \o items /\ Got(delivered, hand) = delivered
      BY <2>1, StreamGot DEF Got
    <3> QED
      BY <1>0, <2>1, <3>1, ConcatEmptySeq
  <2>6. Stream' = Append(delivered, item)
    <3>1. Got(delivered', hand') = Append(delivered, item)
      BY <2>3 DEF Got
    <3>2. Stream' = Got(delivered', hand') \o items'
      BY <2>4, StreamGotNext
    <3>3. Append(delivered, item) \in Seq(S)
      BY <1>0
    <3> QED
      BY <2>3, <3>1, <3>2, <3>3, ConcatEmptySeq
  <2> QED
    BY <1>0, <1>3, <2>1, <2>3, <2>4, <2>5, <2>6
<1>4. CASE ~Waits /\ items' = queue /\ UNCHANGED <<reader, hand>>
  <2>0. reader # "waiting"
    BY <1>4 DEF Waits
  <2>1. QueueOf(S)'
    BY <1>0, <1>1, <1>4, <2>0 DEF QueueOf, QueueTypeOK
  <2>2. Stream' = Append(Stream, item)
    <3>1. Stream = Got(delivered, hand) \o items /\ Got(delivered, hand) \in Seq(S)
      BY StreamGot
    <3>2. Stream' = Got(delivered', hand') \o items'
      BY <2>1, StreamGotNext
    <3>3. Stream' = Got(delivered, hand) \o Append(items, item)
      BY <1>4, <3>2
    <3> DEFINE got == Got(delivered, hand)
    <3> HIDE DEF got
    <3>4. got \o Append(items, item) = Append(got \o items, item)
      BY <1>0, <3>1, ConcatAppend DEF got
    <3> QED
      BY <3>1, <3>3, <3>4 DEF got
  <2> QED
    BY <1>4, <2>1, <2>2, StreamGot
<1> QED
  BY <1>2, <1>3, <1>4

\* next: an item, or a failure, or the end, or the wait for one of them.
LEMMA AskMoves ==
  ASSUME NEW S, Nothing \notin S, QueueOf(S), AskQueue
  PROVE  /\ QueueOf(S)' /\ Stream' = Stream /\ hand = Nothing /\ reader = "idle"
         /\ UNCHANGED <<finished, failed, delivered>>
         /\ \/ reader' = "resumed" /\ items # <<>> /\ hand' = Head(items) /\ items' = Tail(items)
            \/ reader' = "failed" /\ items = <<>> /\ items' = <<>> /\ hand' = hand /\ failed
            \/ reader' = "ended" /\ items = <<>> /\ items' = <<>> /\ hand' = hand /\ ~failed /\ finished
            \/ reader' = "waiting" /\ items = <<>> /\ items' = <<>> /\ hand' = hand /\ ~failed /\ ~finished
<1>0. items \in Seq(S) /\ delivered \in Seq(S) /\ hand \in S \cup {Nothing} /\ QueueTypeOK
  BY DEF QueueOf
<1>1. reader = "idle" /\ hand = Nothing /\ UNCHANGED <<finished, failed, delivered>>
  BY <1>0 DEF AskQueue, QueueTypeOK
<1>2. \/ items # <<>> /\ reader' = "resumed" /\ hand' = Head(items) /\ items' = Tail(items)
      \/ items = <<>> /\ failed /\ reader' = "failed" /\ items' = <<>> /\ hand' = hand
      \/ items = <<>> /\ ~failed /\ finished /\ reader' = "ended" /\ items' = <<>> /\ hand' = hand
      \/ items = <<>> /\ ~failed /\ ~finished /\ reader' = "waiting" /\ items' = <<>> /\ hand' = hand
  BY Zenon DEF AskQueue, Settle
<1>3. CASE items # <<>> /\ reader' = "resumed" /\ hand' = Head(items) /\ items' = Tail(items)
  <2>1. Head(items) \in S /\ Tail(items) \in Seq(S)
    BY <1>0, <1>3
  <2>2. QueueOf(S)'
    BY <1>0, <1>1, <1>3, <2>1 DEF QueueOf, QueueTypeOK
  <2>3. Stream' = Stream
    <3>1. Stream = delivered \o items
      BY <1>1, StreamGot DEF Got
    <3>2. Stream' = Got(delivered', hand') \o items'
      BY <2>2, StreamGotNext
    <3>3. Got(delivered', hand') = Append(delivered, Head(items))
      BY <1>1, <1>3, <2>1 DEF Got
    <3>4. Append(delivered, Head(items)) \o Tail(items) = delivered \o items
      BY <1>0, <1>3, ConcatMove
    <3> QED
      BY <1>3, <3>1, <3>2, <3>3, <3>4
  <2> QED
    BY <1>1, <1>3, <2>2, <2>3
<1>4. CASE items = <<>> /\ items' = <<>> /\ hand' = hand /\ reader' \in {"failed", "ended"}
  <2>1. QueueOf(S)'
    BY <1>0, <1>1, <1>4 DEF QueueOf, QueueTypeOK
  <2> QED
    BY <1>1, <1>2, <1>4, <2>1, StreamKeeps, Zenon
<1>5. CASE items = <<>> /\ items' = <<>> /\ hand' = hand /\ reader' = "waiting" /\ ~failed /\ ~finished
  <2>1. QueueOf(S)'
    BY <1>0, <1>1, <1>5 DEF QueueOf, QueueTypeOK
  <2> QED
    BY <1>1, <1>5, <2>1, StreamKeeps
<1> QED
  BY <1>2, <1>3, <1>4, <1>5

\* The consumer takes what it has in its hand, or leaves.
LEMMA TakeMoves ==
  ASSUME NEW S, Nothing \notin S, QueueOf(S), TakeHand \/ Leave
  PROVE  QueueOf(S)' /\ Stream' = Stream /\ items' = items /\ hand' = Nothing
<1>0. items \in Seq(S) /\ delivered \in Seq(S) /\ hand \in S \cup {Nothing} /\ QueueTypeOK
  BY DEF QueueOf
<1>1. /\ hand' = Nothing /\ items' = items /\ reader' \in {"idle", "returned"}
      /\ delivered' = Got(delivered, hand)
  BY <1>0 DEF TakeHand, Leave, QueueTypeOK, Got
<1>2. Got(delivered, hand) \in Seq(S)
  BY <1>0 DEF Got
<1>3. QueueOf(S)'
  BY <1>0, <1>1, <1>2 DEF QueueOf, QueueTypeOK
<1>4. Got(delivered', hand') = Got(delivered, hand)
  BY <1>1 DEF Got
<1> QED
  BY <1>1, <1>3, <1>4, StreamKeeps

\* done and fail: who waits has the end.
LEMMA DoneTells ==
  ASSUME NEW S, QueueOf(S), Done, delivered' = delivered
  PROVE  /\ QueueOf(S)' /\ Stream' = Stream /\ UNCHANGED <<items, hand, failed>> /\ finished'
         /\ reader' = IF reader = "waiting" THEN "ended" ELSE reader
         /\ reader = "waiting" => items = <<>> /\ ~failed
<1>0. items \in Seq(S) /\ delivered \in Seq(S) /\ hand \in S \cup {Nothing} /\ QueueTypeOK
  BY DEF QueueOf
<1>1. reader = "waiting" => items = <<>> /\ ~failed
  BY <1>0 DEF QueueTypeOK
<1>2. /\ items' = items /\ hand' = hand /\ failed' = failed /\ finished'
      /\ reader' = IF reader = "waiting" THEN "ended" ELSE reader
  BY <1>1, Zenon DEF Done, Settle, Waits
<1>3. QueueOf(S)'
  BY <1>0, <1>2 DEF QueueOf, QueueTypeOK
<1>4. Stream' = Stream
  BY <1>2, <1>3, StreamKeeps
<1> QED
  BY <1>1, <1>2, <1>3, <1>4

LEMMA FailTells ==
  ASSUME NEW S, QueueOf(S), Fail, delivered' = delivered
  PROVE  /\ QueueOf(S)' /\ Stream' = Stream /\ UNCHANGED <<items, hand, finished>> /\ failed'
         /\ reader' = IF reader = "waiting" THEN "failed" ELSE reader
         /\ reader = "waiting" => items = <<>>
<1>0. items \in Seq(S) /\ delivered \in Seq(S) /\ hand \in S \cup {Nothing} /\ QueueTypeOK
  BY DEF QueueOf
<1>1. reader = "waiting" => items = <<>> /\ ~failed
  BY <1>0 DEF QueueTypeOK
<1>2. /\ items' = items /\ hand' = hand /\ finished' = finished /\ failed'
      /\ reader' = IF reader = "waiting" THEN "failed" ELSE reader
  BY <1>1, Zenon DEF Fail, Settle, Waits
<1>3. QueueOf(S)'
  BY <1>0, <1>2 DEF QueueOf, QueueTypeOK
<1>4. Stream' = Stream
  BY <1>2, <1>3, StreamKeeps
<1> QED
  BY <1>1, <1>2, <1>3, <1>4

-----------------------------------------------------------------------------
(* Counting the items of a kind. *)

LEMMA AmongNat ==
  ASSUME NEW n \in Nat, NEW s, NEW P
  PROVE  /\ Among(n, s, P) \in Nat
         /\ IsFiniteSet({i \in 1..n : s[i] \in P})
         /\ Among(0, s, P) = 0
<1>1. IsFiniteSet(1..n)
  BY FS_Interval
<1>2. {i \in 1..n : s[i] \in P} \in SUBSET (1..n)
  OBVIOUS
<1>3. IsFiniteSet({i \in 1..n : s[i] \in P})
  BY <1>1, <1>2, FS_Subset
<1>4. {i \in 1..0 : s[i] \in P} = {}
  OBVIOUS
<1> QED
  BY <1>3, <1>4, FS_CardinalityType, FS_EmptySet DEF Among

LEMMA AmongNext ==
  ASSUME NEW n \in Nat, NEW s, NEW P
  PROVE  /\ s[n + 1] \in P => Among(n + 1, s, P) = Among(n, s, P) + 1
         /\ s[n + 1] \notin P => Among(n + 1, s, P) = Among(n, s, P)
<1> DEFINE A == {i \in 1..n : s[i] \in P}
           B == {i \in 1..(n + 1) : s[i] \in P}
<1>1. IsFiniteSet(A) /\ Cardinality(A) \in Nat
  <2>1. IsFiniteSet(A)
    BY AmongNat
  <2> HIDE DEF A
  <2> QED
    BY <2>1, FS_CardinalityType
<1>2. CASE s[n + 1] \in P
  <2>1. B = A \cup {n + 1} /\ n + 1 \notin A
    BY <1>2
  <2> HIDE DEF A, B
  <2>2. Cardinality(B) = Cardinality(A) + 1
    BY <1>1, <2>1, FS_AddElement
  <2> QED
    BY <1>2, <2>2 DEF Among, A, B
<1>3. CASE s[n + 1] \notin P
  <2>1. B = A
    BY <1>3
  <2> HIDE DEF A, B
  <2>2. Cardinality(B) = Cardinality(A)
    BY <1>1, <2>1
  <2> QED
    BY <1>3, <2>2 DEF Among, A, B
<1> QED
  BY <1>2, <1>3

LEMMA AmongSame ==
  ASSUME NEW n \in Nat, NEW s, NEW t, NEW P, \A i \in 1..n : s[i] = t[i]
  PROVE  Among(n, s, P) = Among(n, t, P)
<1>1. {i \in 1..n : s[i] \in P} = {i \in 1..n : t[i] \in P}
  OBVIOUS
<1> QED
  BY <1>1 DEF Among

LEMMA AmongAppend ==
  ASSUME NEW S, NEW s \in Seq(S), NEW x \in S, NEW P
  PROVE  LET t == Append(s, x)
         IN  /\ \A i \in 0..Len(s) : Among(i, t, P) = Among(i, s, P)
             /\ Len(t) = Len(s) + 1
             /\ Among(Len(s) + 1, t, P) = Among(Len(s), s, P) + (IF x \in P THEN 1 ELSE 0)
<1> DEFINE t == Append(s, x)
<1> DEFINE n == Len(s)
<1>1. /\ n \in Nat /\ Len(t) = n + 1 /\ t[n + 1] = x
      /\ \A i \in 1..n : t[i] = s[i]
  OBVIOUS
<1> HIDE DEF n, t
<1>2. ASSUME NEW i \in 0..n PROVE Among(i, t, P) = Among(i, s, P)
  <2>1. i \in Nat /\ \A j \in 1..i : t[j] = s[j]
    BY <1>1
  <2> QED
    BY <2>1, AmongSame
<1>3. /\ x \in P => Among(n + 1, t, P) = Among(n, t, P) + 1
      /\ x \notin P => Among(n + 1, t, P) = Among(n, t, P)
  BY <1>1, AmongNext
<1>4. Among(n, t, P) = Among(n, s, P)
  BY <1>1, <1>2
<1>5. Among(n, s, P) \in Nat
  BY <1>1, AmongNat
<1> QED
  BY <1>1, <1>2, <1>3, <1>4, <1>5 DEF n, t

LEMMA AmongTail ==
  ASSUME NEW S, NEW s \in Seq(S), s # <<>>, NEW P
  PROVE  Among(Len(s), s, P) = Among(Len(Tail(s)), Tail(s), P) + (IF Head(s) \in P THEN 1 ELSE 0)
<1> DEFINE n == Len(s)
           t == Tail(s)
           A == {i \in 1..n : s[i] \in P}
           B == {i \in 1..(n - 1) : t[i] \in P}
           f == [i \in B |-> i + 1]
<1>1. /\ n \in Nat /\ n # 0 /\ n - 1 \in Nat /\ Len(t) = n - 1 /\ Head(s) = s[1]
      /\ \A i \in 1..(n - 1) : t[i] = s[i + 1]
  OBVIOUS
<1> HIDE DEF n, t
<1>2. IsFiniteSet(A) /\ IsFiniteSet(B)
  <2>1. IsFiniteSet(A)
    BY <1>1, AmongNat
  <2>2. IsFiniteSet(B)
    BY <1>1, AmongNat
  <2> QED
    BY <2>1, <2>2
<1>3. Cardinality(A \ {1}) = Cardinality(B)
  <2>1. f \in [B -> A \ {1}]
    BY <1>1
  <2>2. \A i, j \in B : f[i] = f[j] => i = j
    BY <1>1
  <2>3. \A j \in A \ {1} : j - 1 \in B /\ f[j - 1] = j
    <3> SUFFICES ASSUME NEW j \in A \ {1} PROVE j - 1 \in B /\ f[j - 1] = j
      OBVIOUS
    <3>1. j - 1 \in 1..(n - 1) /\ (j - 1) + 1 = j
      BY <1>1
    <3>2. t[j - 1] = s[j]
      BY <1>1, <3>1
    <3> QED
      BY <3>1, <3>2
  <2> HIDE DEF f, A, B
  <2>4. f \in Bijection(B, A \ {1})
    BY <2>1, <2>2, <2>3 DEF Bijection, Injection, Surjection, IsInjective
  <2> QED
    BY <1>2, <2>4, FS_Bijection DEF ExistsBijection
<1>5. 1 \in A <=> Head(s) \in P
  BY <1>1
<1> HIDE DEF A, B
<1>4. Cardinality(A \ {1}) = IF 1 \in A THEN Cardinality(A) - 1 ELSE Cardinality(A)
  BY <1>2, FS_RemoveElement
<1>6. Cardinality(A) \in Nat /\ Cardinality(B) \in Nat
  BY <1>2, FS_CardinalityType
<1>7. Among(n, s, P) = Cardinality(A) /\ Among(Len(t), t, P) = Cardinality(B)
  BY <1>1 DEF Among, A, B
<1>8. Cardinality(A) = Cardinality(B) + (IF Head(s) \in P THEN 1 ELSE 0)
  BY <1>3, <1>4, <1>5, <1>6
<1> QED
  BY <1>7, <1>8 DEF n, t

-----------------------------------------------------------------------------
(* merge. *)

MergeItem == [source : Source, number : Nat]

LEMMA MergeItems ==
  /\ Source \subseteq Nat /\ Nothing \notin MergeItem
  /\ \A s \in Source : Nothing \notin Of(s)
  /\ \A s \in Source, x \in MergeItem : x \in Of(s) <=> x.source = s
<1> USE MergeAssumption DEF MergeItem, Of
<1>1. Source \subseteq Nat
  BY DEF Source
<1>2. MergeItem \subseteq [source : Nat, number : Nat]
  BY <1>1
<1>3. \A s \in Source : Of(s) \subseteq [source : Nat, number : Nat]
  BY <1>1
<1>4. Nothing \notin [source : Nat, number : Nat]
  BY NothingAssumption
<1> QED
  BY <1>1, <1>2, <1>3, <1>4

\* The values of source s that wait in the queue and in the consumer's hand.
Held(s, queue, h) == OfSource(s, queue) + (IF h \in Of(s) THEN 1 ELSE 0)
One(condition) == IF condition THEN 1 ELSE 0

MergeTyped ==
  /\ QueueOf(MergeItem)
  /\ opened \subseteq Source /\ asked \subseteq Source /\ over \subseteq Source /\ returned \subseteq Source
  /\ sent \in [Source -> Nat] /\ remaining \in Int
  /\ stopped \in BOOLEAN /\ finished \in BOOLEAN /\ failed \in BOOLEAN

\* A merge that has not started has asked nobody.
NotStarted ==
  reader \in {"new", "threw"} =>
    /\ asked = {} /\ over = {} /\ ~stopped /\ ~finished /\ ~failed /\ remaining = NumSources
    /\ items = <<>> /\ delivered = <<>> /\ \A s \in Source : sent[s] = 0

\* EachSourceOnce, and what is over is counted.
SourcesPlaced ==
  reader \notin {"new", "threw"} /\ ~stopped =>
    /\ opened = Source
    /\ \A s \in Source : One(s \in asked) + One(s \in over) + Held(s, items, hand) = 1
    /\ remaining = NumSources - Cardinality(over)
    /\ finished => over = Source

\* What stops a merge, and what that does.
StoppedState ==
  /\ failed \/ reader \in {"failed", "returned"} => stopped
  /\ stopped => Source \subseteq returned /\ (failed \/ reader = "returned")
  /\ reader \in {"ended", "failed"} => items = <<>>
  /\ reader = "ended" => finished /\ ~stopped
  /\ reader = "failed" => failed

\* The first and the third part of MergedInOrder.
StreamNumbered ==
  /\ \A i \in DOMAIN Stream : Stream[i].number = Among(i, Stream, Of(Stream[i].source))
  /\ ~stopped => \A s \in Source : OfSource(s, Stream) = sent[s]

MergeInv == MergeTyped /\ NotStarted /\ SourcesPlaced /\ StoppedState /\ StreamNumbered

LEMMA HeldNat ==
  ASSUME NEW s \in Source, NEW queue \in Seq(MergeItem), NEW h
  PROVE  Held(s, queue, h) \in Nat /\ OfSource(s, queue) \in Nat /\ OfSource(s, <<>>) = 0
<1>1. Len(queue) \in Nat /\ Len(<<>>) = 0
  OBVIOUS
<1>2. OfSource(s, queue) \in Nat
  BY <1>1, AmongNat DEF OfSource
<1>3. OfSource(s, <<>>) = 0
  BY <1>1, AmongNat DEF OfSource
<1> QED
  BY <1>2, <1>3 DEF Held

LEMMA HeldPushed ==
  ASSUME NEW item \in MergeItem, QueueOf(MergeItem), NEW s \in Source,
         \/ items' = Append(items, item) /\ hand' = hand
         \/ reader = "waiting" /\ items = <<>> /\ items' = <<>> /\ hand' = item
  PROVE  Held(s, items', hand') = Held(s, items, hand) + One(item \in Of(s))
<1>0. items \in Seq(MergeItem) /\ QueueTypeOK
  BY DEF QueueOf
<1>1. CASE items' = Append(items, item) /\ hand' = hand
  <2> DEFINE next == Append(items, item)
             P == Of(s)
  <2>0. Len(next) = Len(items) + 1
        /\ Among(Len(items) + 1, next, P) = Among(Len(items), items, P) + (IF item \in P THEN 1 ELSE 0)
    <3> HIDE DEF P
    <3> QED
      BY <1>0, AmongAppend
  <2>1. OfSource(s, items') = OfSource(s, items) + One(item \in Of(s))
    BY <1>0, <1>1, <2>0 DEF OfSource, One
  <2>2. OfSource(s, items) \in Nat
    BY <1>0, HeldNat
  <2> QED
    BY <1>1, <2>1, <2>2 DEF Held, One
<1>2. CASE reader = "waiting" /\ items = <<>> /\ items' = <<>> /\ hand' = item
  <2>1. hand = Nothing
    BY <1>0, <1>2 DEF QueueTypeOK
  <2>2. hand \notin Of(s)
    BY <2>1, MergeItems
  <2>3. OfSource(s, <<>>) = 0
    BY <1>0, HeldNat
  <2> QED
    BY <1>2, <2>2, <2>3 DEF Held, One
<1> QED
  BY <1>1, <1>2

LEMMA HeldAsked ==
  ASSUME QueueOf(MergeItem), NEW s \in Source, items # <<>>, hand = Nothing,
         hand' = Head(items), items' = Tail(items)
  PROVE  Held(s, items', hand') = Held(s, items, hand)
<1>0. items \in Seq(MergeItem)
  BY DEF QueueOf
<1>1. OfSource(s, items) = OfSource(s, Tail(items)) + (IF Head(items) \in Of(s) THEN 1 ELSE 0)
  BY <1>0, AmongTail DEF OfSource
<1>2. hand \notin Of(s)
  BY MergeItems
<1>3. OfSource(s, items) \in Nat
  BY <1>0, HeldNat
<1> QED
  BY <1>1, <1>2, <1>3 DEF Held

LEMMA HeldTaken ==
  ASSUME QueueOf(MergeItem), NEW s \in Source, hand' = Nothing, items' = items
  PROVE  Held(s, items, hand) = Held(s, items', hand') + One(hand \in Of(s))
<1>0. items \in Seq(MergeItem)
  BY DEF QueueOf
<1>1. hand' \notin Of(s)
  BY MergeItems
<1>2. OfSource(s, items) \in Nat
  BY <1>0, HeldNat
<1> QED
  BY <1>1, <1>2 DEF Held, One

\* A source's next value keeps the numbering.
LEMMA NumberedNext ==
  ASSUME NEW str \in Seq(MergeItem), NEW item \in MergeItem, NEW next, next = Append(str, item),
         \A i \in DOMAIN str : str[i].number = Among(i, str, Of(str[i].source)),
         item.number = OfSource(item.source, str) + 1
  PROVE  /\ \A i \in DOMAIN next : next[i].number = Among(i, next, Of(next[i].source))
         /\ \A s \in Source : OfSource(s, next) = OfSource(s, str) + One(item \in Of(s))
<1>1. /\ DOMAIN str = 1..Len(str) /\ Len(str) \in Nat /\ Len(next) = Len(str) + 1
      /\ DOMAIN next = 1..Len(next) /\ next[Len(str) + 1] = item
      /\ \A i \in 1..Len(str) : next[i] = str[i]
  OBVIOUS
<1>2. ASSUME NEW P
      PROVE  /\ \A i \in 0..Len(str) : Among(i, next, P) = Among(i, str, P)
             /\ Among(Len(str) + 1, next, P) = Among(Len(str), str, P) + (IF item \in P THEN 1 ELSE 0)
  BY AmongAppend
<1>3. ASSUME NEW i \in 1..Len(str) PROVE next[i].number = Among(i, next, Of(next[i].source))
  <2>1. next[i] = str[i] /\ i \in 0..Len(str) /\ i \in DOMAIN str
    BY <1>1
  <2>2. str[i].number = Among(i, str, Of(str[i].source))
    BY <2>1
  <2>3. Among(i, next, Of(str[i].source)) = Among(i, str, Of(str[i].source))
    BY <1>2, <2>1
  <2> QED
    BY <2>1, <2>2, <2>3
<1>4. next[Len(next)].number = Among(Len(next), next, Of(next[Len(next)].source))
  <2>1. item \in Of(item.source) /\ next[Len(next)] = item
    BY <1>1 DEF MergeItem, Of
  <2>2. Among(Len(next), next, Of(item.source)) = Among(Len(str), str, Of(item.source)) + 1
    BY <1>1, <1>2, <2>1
  <2> QED
    BY <2>1, <2>2 DEF OfSource
<1>5. \A i \in DOMAIN next : i \in 1..Len(str) \/ i = Len(next)
  BY <1>1
<1>6. \A s \in Source : OfSource(s, next) = OfSource(s, str) + One(item \in Of(s))
  BY <1>1, <1>2 DEF OfSource, One
<1> QED
  BY <1>3, <1>4, <1>5, <1>6

LEMMA EmptyStream == QueueOf(MergeItem) /\ items = <<>> /\ delivered = <<>> /\ hand = Nothing => Stream = <<>>
<1> SUFFICES ASSUME QueueOf(MergeItem), items = <<>>, delivered = <<>>, hand = Nothing PROVE Stream = <<>>
  OBVIOUS
<1>1. Stream = Got(delivered, hand) \o items /\ Got(delivered, hand) = <<>>
  BY StreamGot DEF Got
<1> QED
  BY <1>1

LEMMA MergeStart == MergeInit => MergeInv
<1> SUFFICES ASSUME MergeInit PROVE MergeInv
  OBVIOUS
<1> USE DEF MergeInit, QueueInit
<1>1. QueueOf(MergeItem)
  BY DEF QueueOf, QueueTypeOK
<1>2. MergeTyped
  <2>1. sent \in [Source -> Nat] /\ remaining \in Int
    BY MergeAssumption
  <2>2. stopped \in BOOLEAN /\ finished \in BOOLEAN /\ failed \in BOOLEAN
    OBVIOUS
  <2>3. opened \subseteq Source /\ asked \subseteq Source /\ over \subseteq Source /\ returned \subseteq Source
    OBVIOUS
  <2> HIDE DEF MergeInit, QueueInit
  <2> QED
    BY <1>1, <2>1, <2>2, <2>3, Zenon DEF MergeTyped
<1>3. Stream = <<>>
  BY <1>1, EmptyStream
<1>4. StreamNumbered
  <2>1. \A s \in Source : OfSource(s, <<>>) = 0
    <3> SUFFICES ASSUME NEW s \in Source PROVE OfSource(s, <<>>) = 0
      OBVIOUS
    <3>1. <<>> \in Seq(MergeItem)
      OBVIOUS
    <3> QED
      BY <3>1, HeldNat
  <2> QED
    BY <1>3, <2>1 DEF StreamNumbered
<1> QED
  BY <1>2, <1>4 DEF MergeInv, NotStarted, SourcesPlaced, StoppedState

\* What stays of the numbering when the stream and the sources do.
LEMMA NumberedSame ==
  ASSUME StreamNumbered, Stream' = Stream, sent' = sent, stopped => stopped'
  PROVE  StreamNumbered'
<1>1. ASSUME NEW str, str = Stream, NEW next, next = Stream', str = next
      PROVE  /\ \A i \in DOMAIN next : next[i].number = Among(i, next, Of(next[i].source))
             /\ ~stopped' => \A s \in Source : OfSource(s, next) = sent'[s]
  BY <1>1 DEF StreamNumbered
<1> QED
  BY <1>1 DEF StreamNumbered

LEMMA StartKeeps ==
  ASSUME MergeInv, Start
  PROVE  MergeInv'
<1> USE DEF Start
<1>0. MergeTyped /\ NotStarted /\ StreamNumbered /\ reader = "new"
  BY DEF MergeInv
<1>1. QueueOf(MergeItem) /\ QueueOf(MergeItem)'
  BY <1>0 DEF MergeTyped, QueueOf, QueueTypeOK
<1>2. Stream' = Stream
  BY <1>1, StreamKeeps DEF Got
<1>3. StreamNumbered'
  BY <1>0, <1>2, NumberedSame
<1>4. MergeTyped'
  BY <1>0, <1>1, MergeAssumption DEF MergeTyped
<1>5. hand = Nothing /\ items = <<>> /\ over = {} /\ ~stopped /\ ~failed
  BY <1>0, <1>1 DEF NotStarted, QueueOf, QueueTypeOK
<1>6. SourcesPlaced'
  <2>1. ASSUME NEW s \in Source PROVE One(s \in asked') + One(s \in over') + Held(s, items', hand') = 1
    <3>1. OfSource(s, items) = 0
      BY <1>1, <1>5, HeldNat DEF QueueOf
    <3>2. hand \notin Of(s)
      BY <1>5, MergeItems
    <3> QED
      BY <1>5, <3>1, <3>2 DEF Held, One
  <2>2. remaining' = NumSources - Cardinality(over')
    <3>1. Cardinality(over') = 0
      BY <1>5, FS_EmptySet
    <3>2. remaining = NumSources
      BY <1>0 DEF NotStarted
    <3> QED
      BY <3>1, <3>2, MergeAssumption
  <2>3. finished' => over' = Source
    <3> SUFFICES ASSUME finished' PROVE Source = {}
      BY <1>5
    <3>1. NumSources = 0
      OBVIOUS
    <3> QED
      BY <3>1 DEF Source
  <2> QED
    BY <2>1, <2>2, <2>3 DEF SourcesPlaced
<1> QED
  BY <1>0, <1>3, <1>4, <1>5, <1>6 DEF MergeInv, NotStarted, StoppedState

LEMMA StartThrowsKeeps ==
  ASSUME MergeInv, StartThrows
  PROVE  MergeInv'
<1> USE DEF StartThrows
<1>0. MergeTyped /\ NotStarted /\ StreamNumbered /\ reader = "new"
  BY DEF MergeInv
<1>1. QueueOf(MergeItem) /\ QueueOf(MergeItem)'
  BY <1>0 DEF MergeTyped, QueueOf, QueueTypeOK
<1>2. Stream' = Stream
  BY <1>1, StreamKeeps DEF Got
<1>3. StreamNumbered'
  BY <1>0, <1>2, NumberedSame
<1>4. PICK s \in Source : opened' = 1..(s - 1)
  OBVIOUS
<1>5. opened' \subseteq Source
  BY <1>4, MergeAssumption DEF Source
<1>6. MergeTyped'
  BY <1>0, <1>1, <1>5 DEF MergeTyped
<1> QED
  BY <1>0, <1>3, <1>6 DEF MergeInv, NotStarted, SourcesPlaced, StoppedState

LEMMA AskKeeps ==
  ASSUME MergeInv, Ask
  PROVE  MergeInv'
<1>0. MergeTyped /\ NotStarted /\ SourcesPlaced /\ StoppedState /\ StreamNumbered
  BY DEF MergeInv
<1>1. UNCHANGED <<opened, asked, sent, over, returned, remaining, stopped>> /\ AskQueue
  BY DEF Ask
<1>2. QueueOf(MergeItem) /\ Nothing \notin MergeItem
  BY <1>0, MergeItems DEF MergeTyped
<1>3. /\ QueueOf(MergeItem)' /\ Stream' = Stream /\ hand = Nothing /\ reader = "idle"
      /\ UNCHANGED <<finished, failed, delivered>>
      /\ \/ reader' = "resumed" /\ items # <<>> /\ hand' = Head(items) /\ items' = Tail(items)
         \/ reader' = "failed" /\ items = <<>> /\ items' = <<>> /\ hand' = hand /\ failed
         \/ reader' = "ended" /\ items = <<>> /\ items' = <<>> /\ hand' = hand /\ ~failed /\ finished
         \/ reader' = "waiting" /\ items = <<>> /\ items' = <<>> /\ hand' = hand /\ ~failed /\ ~finished
  BY <1>1, <1>2, AskMoves
<1>4. StreamNumbered'
  BY <1>0, <1>1, <1>3, NumberedSame
<1>5. MergeTyped'
  BY <1>0, <1>1, <1>3 DEF MergeTyped
<1>6. \A s \in Source : Held(s, items', hand') = Held(s, items, hand)
  <2> SUFFICES ASSUME NEW s \in Source PROVE Held(s, items', hand') = Held(s, items, hand)
    OBVIOUS
  <2>1. CASE items # <<>> /\ hand' = Head(items) /\ items' = Tail(items)
    BY <1>2, <1>3, <2>1, HeldAsked
  <2>2. CASE items = <<>> /\ items' = <<>> /\ hand' = hand
    BY <2>2
  <2> QED
    BY <1>3, <2>1, <2>2
<1>7. SourcesPlaced'
  BY <1>0, <1>1, <1>3, <1>6 DEF SourcesPlaced
<1>8. StoppedState'
  BY <1>0, <1>1, <1>3 DEF StoppedState
<1> QED
  BY <1>3, <1>4, <1>5, <1>7, <1>8 DEF MergeInv, NotStarted

LEMMA ResumeKeeps ==
  ASSUME MergeInv, Resume
  PROVE  MergeInv'
<1>0. MergeTyped /\ NotStarted /\ SourcesPlaced /\ StoppedState /\ StreamNumbered
  BY DEF MergeInv
<1>1. /\ UNCHANGED <<opened, sent, over, returned, remaining, stopped>> /\ TakeHand
      /\ asked' = IF stopped THEN asked ELSE asked \cup {hand.source}
      /\ reader = "resumed" /\ reader' = "idle" /\ UNCHANGED <<finished, failed>>
  BY DEF Resume, TakeHand
<1>2. QueueOf(MergeItem) /\ Nothing \notin MergeItem
  BY <1>0, MergeItems DEF MergeTyped
<1>3. QueueOf(MergeItem)' /\ Stream' = Stream /\ items' = items /\ hand' = Nothing
  BY <1>1, <1>2, TakeMoves
<1>4. hand \in MergeItem /\ hand.source \in Source
  BY <1>1, <1>2 DEF QueueOf, QueueTypeOK, MergeItem
<1>5. StreamNumbered'
  BY <1>0, <1>1, <1>3, NumberedSame
<1>6. MergeTyped'
  <2>1. asked' \subseteq Source
    BY <1>0, <1>1, <1>4 DEF MergeTyped
  <2> QED
    BY <1>0, <1>1, <1>3, <2>1 DEF MergeTyped
<1>7. SourcesPlaced'
  <2> SUFFICES ASSUME ~stopped, NEW s \in Source
               PROVE  One(s \in asked') + One(s \in over') + Held(s, items', hand') = 1
    BY <1>0, <1>1 DEF SourcesPlaced
  <2>1. One(s \in asked) + One(s \in over) + Held(s, items, hand) = 1
    BY <1>0, <1>1 DEF SourcesPlaced
  <2>2. Held(s, items, hand) = Held(s, items', hand') + One(hand \in Of(s))
    BY <1>2, <1>3, HeldTaken
  <2>3. hand \in Of(s) <=> hand.source = s
    BY <1>4, MergeItems
  <2>4. Held(s, items', hand') \in Nat
    BY <1>3, HeldNat DEF QueueOf
  <2>5. s \in asked' <=> s \in asked \/ hand.source = s
    BY <1>1
  <2> QED
    BY <1>1, <2>1, <2>2, <2>3, <2>4, <2>5 DEF One
<1>8. StoppedState'
  BY <1>0, <1>1, <1>3 DEF StoppedState
<1> QED
  BY <1>1, <1>5, <1>6, <1>7, <1>8 DEF MergeInv, NotStarted

LEMMA ReturnKeeps ==
  ASSUME MergeInv, Return
  PROVE  MergeInv'
<1>0. MergeTyped /\ NotStarted /\ SourcesPlaced /\ StoppedState /\ StreamNumbered
  BY DEF MergeInv
<1>1. /\ UNCHANGED <<opened, asked, sent, over, remaining, failed>> /\ Leave /\ finished' /\ stopped'
      /\ returned' = IF stopped THEN returned ELSE returned \cup opened
      /\ reader \in {"idle", "waiting", "resumed"} /\ reader' = "returned"
  BY DEF Return, Leave, Stop
<1>2. QueueOf(MergeItem) /\ Nothing \notin MergeItem
  BY <1>0, MergeItems DEF MergeTyped
<1>3. QueueOf(MergeItem)' /\ Stream' = Stream /\ items' = items /\ hand' = Nothing
  BY <1>1, <1>2, TakeMoves
<1>4. StreamNumbered'
  BY <1>0, <1>1, <1>3, NumberedSame
<1>5. MergeTyped'
  <2>1. returned' \subseteq Source
    BY <1>0, <1>1 DEF MergeTyped
  <2>2. finished' \in BOOLEAN /\ stopped' \in BOOLEAN
    BY DEF Return, Stop
  <2> QED
    BY <1>0, <1>1, <1>3, <2>1, <2>2 DEF MergeTyped
<1>6. Source \subseteq returned'
  BY <1>0, <1>1 DEF StoppedState, SourcesPlaced
<1>7. StoppedState'
  BY <1>1, <1>6 DEF StoppedState
<1> QED
  BY <1>1, <1>4, <1>5, <1>7 DEF MergeInv, NotStarted, SourcesPlaced

\* Of a source that is asked, nothing else is anywhere, and the merge is under way.
LEMMA AskedOnly ==
  ASSUME MergeInv, NEW s \in Source, s \in asked
  PROVE  /\ reader \notin {"new", "threw"}
         /\ ~stopped => s \notin over /\ ~finished /\ reader \notin {"ended", "failed", "returned"}
<1>0. MergeTyped /\ NotStarted /\ SourcesPlaced /\ StoppedState
  BY DEF MergeInv
<1>1. reader \notin {"new", "threw"}
  BY <1>0 DEF NotStarted
<1>2. ASSUME ~stopped PROVE s \notin over /\ ~finished
  <2>1. One(s \in asked) + One(s \in over) + Held(s, items, hand) = 1
    BY <1>0, <1>1, <1>2 DEF SourcesPlaced
  <2>2. Held(s, items, hand) \in Nat
    BY <1>0, HeldNat DEF MergeTyped, QueueOf
  <2>3. s \notin over
    BY <2>1, <2>2 DEF One
  <2> QED
    BY <1>0, <1>1, <1>2, <2>3 DEF SourcesPlaced
<1> QED
  BY <1>0, <1>1, <1>2 DEF StoppedState

\* A source that gives or ends after stop() changes nothing of the queue.
LEMMA AfterStop ==
  ASSUME MergeInv, stopped, NEW s \in Source, s \in asked, asked' = asked \ {s}, over' \subseteq Source,
         sent' \in [Source -> Nat],
         UNCHANGED <<items, finished, failed, reader, hand, opened, returned, remaining, stopped, delivered>>
  PROVE  MergeInv'
<1>0. MergeTyped /\ NotStarted /\ SourcesPlaced /\ StoppedState /\ StreamNumbered
  BY DEF MergeInv
<1>1. QueueOf(MergeItem) /\ QueueOf(MergeItem)'
  BY <1>0 DEF MergeTyped, QueueOf, QueueTypeOK
<1>2. Stream' = Stream
  BY <1>1, StreamKeeps
<1>3. StreamNumbered'
  <2>1. ASSUME NEW str, str = Stream, NEW next, next = Stream', str = next
        PROVE  \A i \in DOMAIN next : next[i].number = Among(i, next, Of(next[i].source))
    BY <1>0, <2>1 DEF StreamNumbered
  <2> QED
    BY <1>2, <2>1 DEF StreamNumbered
<1>4. MergeTyped'
  BY <1>0, <1>1 DEF MergeTyped
<1>5. reader \notin {"new", "threw"}
  BY AskedOnly
<1> QED
  BY <1>0, <1>3, <1>4, <1>5 DEF MergeInv, NotStarted, SourcesPlaced, StoppedState

LEMMA GivesKeeps ==
  ASSUME MergeInv, NEW s \in Source, Gives(s)
  PROVE  MergeInv'
<1> DEFINE item == [source |-> s, number |-> sent[s] + 1]
<1>0. MergeTyped /\ NotStarted /\ SourcesPlaced /\ StoppedState /\ StreamNumbered
  BY DEF MergeInv
<1>1. /\ s \in asked /\ asked' = asked \ {s} /\ sent' = [sent EXCEPT ![s] = @ + 1]
      /\ UNCHANGED <<opened, over, returned, remaining, stopped, delivered>>
  BY DEF Gives
<1>2. sent[s] \in Nat /\ sent' \in [Source -> Nat] /\ sent'[s] = sent[s] + 1
  BY <1>0, <1>1 DEF MergeTyped
<1>3. CASE stopped /\ UNCHANGED <<items, finished, failed, reader, hand>>
  <2>1. over' \subseteq Source
    BY <1>0, <1>1 DEF MergeTyped
  <2> QED
    BY <1>1, <1>2, <1>3, <2>1, AfterStop
<1>4. CASE ~stopped /\ Push(item)
  <2>0. item \in MergeItem /\ item.source = s /\ item.number = sent[s] + 1
    BY <1>2 DEF MergeItem
  <2> HIDE DEF item
  <2>1. QueueOf(MergeItem) /\ Nothing \notin MergeItem
    BY <1>0, MergeItems DEF MergeTyped
  <2>2. PushThen(item, FALSE) /\ finished' = finished /\ failed' = failed
    BY <1>0, <1>4 DEF Push, PushThen, MergeTyped
  <2>3. /\ QueueOf(MergeItem)' /\ Stream' = Append(Stream, item) /\ Stream \in Seq(MergeItem)
        /\ \/ items' = Append(items, item) /\ hand' = hand /\ reader' = reader
           \/ reader = "waiting" /\ reader' = "resumed" /\ items = <<>> /\ items' = <<>> /\ hand' = item
    BY <1>1, <2>0, <2>1, <2>2, PushExtends
  <2>4. reader \notin {"new", "threw", "ended", "failed", "returned"} /\ s \notin over /\ ~finished
    BY <1>1, <1>4, AskedOnly
  <2>5. reader' \notin {"new", "threw", "ended", "failed", "returned"}
    BY <2>3, <2>4
  <2>6. \A k \in Source : Held(k, items', hand') = Held(k, items, hand) + One(item \in Of(k))
    <3> SUFFICES ASSUME NEW k \in Source
                 PROVE  Held(k, items', hand') = Held(k, items, hand) + One(item \in Of(k))
      OBVIOUS
    <3> QED
      BY <2>0, <2>1, <2>3, HeldPushed
  <2>7. \A k \in Source : item \in Of(k) <=> k = s
    BY <2>0, MergeItems
  <2>8. SourcesPlaced'
    <3>1. ASSUME NEW k \in Source PROVE One(k \in asked') + One(k \in over') + Held(k, items', hand') = 1
      <4>1. One(k \in asked) + One(k \in over) + Held(k, items, hand) = 1
        BY <1>0, <1>4, <2>4 DEF SourcesPlaced
      <4>2. Held(k, items, hand) \in Nat
        BY <2>1, HeldNat DEF QueueOf
      <4>3. Held(k, items', hand') = Held(k, items, hand) + (IF k = s THEN 1 ELSE 0)
        BY <2>6, <2>7 DEF One
      <4>4. k \in asked' <=> k \in asked /\ k # s
        BY <1>1
      <4> QED
        BY <1>1, <4>1, <4>2, <4>3, <4>4 DEF One
    <3>2. opened' = Source /\ remaining' = NumSources - Cardinality(over') /\ ~finished'
      BY <1>0, <1>1, <1>4, <2>2, <2>4 DEF SourcesPlaced
    <3> QED
      BY <3>1, <3>2 DEF SourcesPlaced
  <2>9. StreamNumbered'
    <3> DEFINE str == Stream
               next == Stream'
    <3>1. /\ \A i \in DOMAIN str : str[i].number = Among(i, str, Of(str[i].source))
          /\ \A k \in Source : OfSource(k, str) = sent[k]
      BY <1>0, <1>4 DEF StreamNumbered
    <3>2. str \in Seq(MergeItem) /\ next = Append(str, item) /\ item.number = OfSource(item.source, str) + 1
      BY <2>0, <2>3, <3>1
    <3> HIDE DEF str, next
    <3>3. /\ \A i \in DOMAIN next : next[i].number = Among(i, next, Of(next[i].source))
          /\ \A k \in Source : OfSource(k, next) = OfSource(k, str) + One(item \in Of(k))
      BY <2>0, <3>1, <3>2, NumberedNext, ZenonT(60)
    <3>4. \A k \in Source : OfSource(k, next) = sent'[k]
      <4> SUFFICES ASSUME NEW k \in Source PROVE OfSource(k, next) = sent'[k]
        OBVIOUS
      <4>1. sent'[k] = IF k = s THEN sent[k] + 1 ELSE sent[k]
        BY <1>0, <1>1 DEF MergeTyped
      <4>2. sent[k] \in Nat /\ OfSource(k, next) = sent[k] + One(k = s)
        BY <1>0, <2>7, <3>1, <3>3 DEF MergeTyped
      <4> QED
        BY <4>1, <4>2 DEF One
    <3> QED
      BY <3>3, <3>4 DEF StreamNumbered, str, next
  <2>10. MergeTyped'
    BY <1>0, <1>1, <1>2, <2>2, <2>3 DEF MergeTyped
  <2>11. StoppedState'
    BY <1>0, <1>1, <1>4, <2>2, <2>5 DEF StoppedState
  <2> QED
    BY <2>5, <2>8, <2>9, <2>10, <2>11 DEF MergeInv, NotStarted
<1> QED
  BY <1>2, <1>3, <1>4 DEF Gives

LEMMA EndsKeeps ==
  ASSUME MergeInv, NEW s \in Source, Ends(s)
  PROVE  MergeInv'
<1>0. MergeTyped /\ NotStarted /\ SourcesPlaced /\ StoppedState /\ StreamNumbered
  BY DEF MergeInv
<1>1. /\ s \in asked /\ asked' = asked \ {s} /\ over' = over \cup {s}
      /\ remaining' = IF stopped THEN remaining ELSE remaining - 1
      /\ UNCHANGED <<opened, sent, returned, stopped, delivered>>
  BY DEF Ends
<1>2. over' \subseteq Source /\ sent' \in [Source -> Nat] /\ remaining' \in Int /\ asked' \subseteq Source
  BY <1>0, <1>1 DEF MergeTyped
<1>3. CASE stopped /\ UNCHANGED <<items, finished, failed, reader, hand>>
  BY <1>1, <1>2, <1>3, AfterStop
<1>4. CASE ~stopped
  <2>1. QueueOf(MergeItem)
    BY <1>0 DEF MergeTyped
  <2>2. reader \notin {"new", "threw", "ended", "failed", "returned"} /\ s \notin over /\ ~finished
    BY <1>1, <1>4, AskedOnly
  <2>3. ~failed
    BY <1>0, <1>4 DEF StoppedState
  <2>4. remaining = NumSources - Cardinality(over) /\ opened = Source
    BY <1>0, <1>4, <2>2 DEF SourcesPlaced
  <2>5. /\ IsFiniteSet(Source) /\ Cardinality(Source) = NumSources
        /\ IsFiniteSet(over) /\ Cardinality(over) \in Nat
        /\ IsFiniteSet(over') /\ Cardinality(over') = Cardinality(over) + 1
    <3>1. IsFiniteSet(1..NumSources) /\ Cardinality(1..NumSources) = NumSources
      BY MergeAssumption, FS_Interval
    <3>2. IsFiniteSet(Source) /\ Cardinality(Source) = NumSources
      BY <3>1 DEF Source
    <3>3. IsFiniteSet(over) /\ IsFiniteSet(over')
      BY <1>0, <1>2, <3>2, FS_Subset DEF MergeTyped
    <3>4. Cardinality(over \cup {s}) = Cardinality(over) + 1
      BY <2>2, <3>3, FS_AddElement
    <3> QED
      BY <1>1, <3>2, <3>3, <3>4, FS_CardinalityType
  <2>6. remaining' = NumSources - Cardinality(over')
    BY <1>1, <1>4, <2>4, <2>5, MergeAssumption
  <2>7. /\ QueueOf(MergeItem)' /\ Stream' = Stream /\ UNCHANGED <<items, hand, failed>>
        /\ finished' \in BOOLEAN /\ (finished' => over' = Source)
        /\ reader' \notin {"new", "threw", "failed", "returned"}
        /\ reader' = "ended" => items = <<>> /\ finished'
    <3>1. CASE UNCHANGED <<items, finished, failed, reader, hand>>
      <4>1. QueueOf(MergeItem)'
        BY <1>1, <2>1, <3>1 DEF QueueOf, QueueTypeOK
      <4>2. Stream' = Stream
        BY <1>1, <2>1, <3>1, <4>1, StreamKeeps
      <4> QED
        BY <1>0, <2>2, <3>1, <4>1, <4>2 DEF MergeTyped
    <3>2. CASE remaining = 1 /\ Done
      <4>1. /\ QueueOf(MergeItem)' /\ Stream' = Stream /\ UNCHANGED <<items, hand, failed>> /\ finished'
            /\ reader' = IF reader = "waiting" THEN "ended" ELSE reader
            /\ reader = "waiting" => items = <<>> /\ ~failed
        BY <1>1, <2>1, <3>2, DoneTells
      <4>2. finished' \in BOOLEAN
        BY <3>2 DEF Done
      <4>3. over' = Source
        <5>1. Cardinality(over') = Cardinality(Source)
          BY <2>4, <2>5, <3>2, MergeAssumption
        <5> QED
          BY <1>2, <2>5, <5>1, FS_Subset
      <4> QED
        BY <2>2, <4>1, <4>2, <4>3
    <3> QED
      BY <1>4, <3>1, <3>2 DEF Ends
  <2>8. SourcesPlaced'
    <3>1. ASSUME NEW k \in Source PROVE One(k \in asked') + One(k \in over') + Held(k, items', hand') = 1
      <4>1. One(k \in asked) + One(k \in over) + Held(k, items, hand) = 1
        BY <1>0, <1>4, <2>2 DEF SourcesPlaced
      <4>2. Held(k, items', hand') = Held(k, items, hand) /\ Held(k, items, hand) \in Nat
        BY <2>1, <2>7, HeldNat DEF QueueOf
      <4>3. One(k \in asked') + One(k \in over') = One(k \in asked) + One(k \in over)
        BY <1>1, <2>2 DEF One
      <4>4. One(k \in asked) \in Nat /\ One(k \in over) \in Nat /\ One(k \in asked') \in Nat /\ One(k \in over') \in Nat
        BY DEF One
      <4> QED
        BY <4>1, <4>2, <4>3, <4>4
    <3> QED
      BY <1>1, <2>4, <2>6, <2>7, <3>1 DEF SourcesPlaced
  <2>9. StreamNumbered'
    BY <1>0, <1>1, <2>7, NumberedSame
  <2>10. MergeTyped'
    BY <1>0, <1>1, <1>2, <2>7 DEF MergeTyped
  <2>11. StoppedState'
    BY <1>1, <1>4, <2>3, <2>7 DEF StoppedState
  <2> QED
    BY <2>7, <2>8, <2>9, <2>10, <2>11 DEF MergeInv, NotStarted
<1> QED
  BY <1>3, <1>4 DEF Ends

LEMMA FailsKeeps ==
  ASSUME MergeInv, NEW s \in Source, Fails(s)
  PROVE  MergeInv'
<1>0. MergeTyped /\ NotStarted /\ SourcesPlaced /\ StoppedState /\ StreamNumbered
  BY DEF MergeInv
<1>1. /\ s \in asked /\ asked' = asked \ {s} /\ over' = over \cup {s} /\ stopped' /\ Fail
      /\ returned' = IF stopped THEN returned ELSE returned \cup opened
      /\ UNCHANGED <<opened, sent, remaining, delivered>>
  BY DEF Fails, Stop
<1>2. over' \subseteq Source /\ asked' \subseteq Source /\ returned' \subseteq Source
  BY <1>0, <1>1 DEF MergeTyped
<1>3. stopped' \in BOOLEAN /\ failed' \in BOOLEAN
  BY DEF Fails, Stop, Fail
<1>4. QueueOf(MergeItem)
  BY <1>0 DEF MergeTyped
<1>5. /\ QueueOf(MergeItem)' /\ Stream' = Stream /\ UNCHANGED <<items, hand, finished>> /\ failed'
      /\ reader' = IF reader = "waiting" THEN "failed" ELSE reader
      /\ reader = "waiting" => items = <<>>
  BY <1>1, <1>4, FailTells
<1>6. reader \notin {"new", "threw"} /\ (~stopped => reader \notin {"ended", "failed", "returned"})
  BY <1>1, AskedOnly
<1>7. reader' \notin {"new", "threw", "ended"}
  BY <1>0, <1>5, <1>6 DEF StoppedState
<1>8. StoppedState'
  <2>1. Source \subseteq returned'
    BY <1>0, <1>1, <1>6 DEF StoppedState, SourcesPlaced
  <2>2. reader' = "failed" => items' = <<>>
    BY <1>0, <1>5 DEF StoppedState
  <2> QED
    BY <1>1, <1>5, <1>7, <2>1, <2>2 DEF StoppedState
<1>9. StreamNumbered'
  BY <1>0, <1>1, <1>5, NumberedSame
<1>10. MergeTyped'
  BY <1>0, <1>1, <1>2, <1>3, <1>5 DEF MergeTyped
<1> QED
  BY <1>1, <1>7, <1>8, <1>9, <1>10 DEF MergeInv, NotStarted, SourcesPlaced

LEMMA MergeSteps == MergeInv /\ [MergeNext]_mergeVars => MergeInv'
<1> SUFFICES ASSUME MergeInv, [MergeNext]_mergeVars PROVE MergeInv'
  OBVIOUS
<1>1. CASE UNCHANGED mergeVars
  <2>0. MergeTyped /\ NotStarted /\ SourcesPlaced /\ StoppedState /\ StreamNumbered
    BY DEF MergeInv
  <2>1. UNCHANGED <<opened, asked, sent, over, returned, remaining, stopped, items, finished, failed,
                    reader, hand, delivered>>
    BY <1>1 DEF mergeVars, queueVars
  <2>2. QueueOf(MergeItem) /\ QueueOf(MergeItem)'
    BY <2>0, <2>1 DEF MergeTyped, QueueOf, QueueTypeOK
  <2>3. Stream' = Stream
    BY <2>1, <2>2, StreamKeeps
  <2>4. StreamNumbered'
    BY <2>0, <2>1, <2>3, NumberedSame
  <2>5. MergeTyped'
    BY <2>0, <2>1, <2>2 DEF MergeTyped
  <2> QED
    BY <2>0, <2>1, <2>4, <2>5 DEF MergeInv, NotStarted, SourcesPlaced, StoppedState
<1> QED
  BY <1>1, StartKeeps, StartThrowsKeeps, AskKeeps, ResumeKeeps, ReturnKeeps, GivesKeeps, EndsKeeps, FailsKeeps
     DEF MergeNext

\* Each of the properties of merge is a part of the invariant.
LEMMA MergeFaithful == MergeInv => EachSourceOnce /\ MergedInOrder /\ SourcesReleased
<1> SUFFICES ASSUME MergeInv PROVE EachSourceOnce /\ MergedInOrder /\ SourcesReleased
  OBVIOUS
<1>0. MergeTyped /\ NotStarted /\ SourcesPlaced /\ StoppedState /\ StreamNumbered
  BY DEF MergeInv
<1>1. EachSourceOnce
  <2> SUFFICES ASSUME reader \notin {"new", "threw"}, ~stopped, NEW s \in Source
               PROVE  Cardinality({s} \cap asked) + Cardinality({s} \cap over) + OfSource(s, items)
                        + (IF hand # Nothing /\ hand.source = s THEN 1 ELSE 0) = 1
    BY DEF EachSourceOnce
  <2>1. One(s \in asked) + One(s \in over) + Held(s, items, hand) = 1
    BY <1>0 DEF SourcesPlaced
  <2>2. ASSUME NEW A PROVE Cardinality({s} \cap A) = One(s \in A)
    <3>1. CASE s \in A
      <4>1. {s} \cap A = {s}
        BY <3>1
      <4> QED
        BY <3>1, <4>1, FS_Singleton DEF One
    <3>2. CASE s \notin A
      <4>1. {s} \cap A = {}
        BY <3>2
      <4> QED
        BY <3>2, <4>1, FS_EmptySet DEF One
    <3> QED
      BY <3>1, <3>2
  <2>3. (hand # Nothing /\ hand.source = s) <=> hand \in Of(s)
    BY <1>0, MergeItems DEF MergeTyped, QueueOf
  <2>4. OfSource(s, items) \in Nat
    BY <1>0, HeldNat DEF MergeTyped, QueueOf
  <2>5. Cardinality({s} \cap asked) = One(s \in asked) /\ Cardinality({s} \cap over) = One(s \in over)
    BY <2>2
  <2> QED
    BY <2>1, <2>3, <2>4, <2>5 DEF Held, One
<1>2. SourcesReleased
  <2>1. CASE reader = "ended"
    BY <1>0, <2>1 DEF StoppedState, SourcesPlaced, SourcesReleased
  <2>2. CASE reader \in {"failed", "returned"}
    BY <1>0, <2>2 DEF StoppedState, SourcesReleased
  <2> QED
    BY <2>1, <2>2 DEF SourcesReleased
<1>3. MergedInOrder
  <2>1. \A i \in DOMAIN Stream : Stream[i].number = Among(i, Stream, Of(Stream[i].source))
    BY <1>0 DEF StreamNumbered
  <2>2. ASSUME NEW s \in Source
        PROVE  /\ ~stopped => OfSource(s, Stream) = sent[s]
               /\ reader = "ended" => OfSource(s, Stream) = sent[s] /\ s \in over
    BY <1>0 DEF StreamNumbered, StoppedState, SourcesPlaced
  <2>3. reader \in {"ended", "failed"} => items = <<>>
    BY <1>0 DEF StoppedState
  <2> QED
    BY <2>1, <2>2, <2>3 DEF MergedInOrder
<1> QED
  BY <1>1, <1>2, <1>3

-----------------------------------------------------------------------------
(* debounce. *)

PumpItem == [kind : {"ok", "err"}, number : Nat]

PumpTyped ==
  /\ QueueOf(PumpItem)
  /\ pulling \in BOOLEAN /\ sourceExhausted \in BOOLEAN /\ cancelled \in BOOLEAN /\ released \in BOOLEAN
  /\ finished \in BOOLEAN /\ failed \in BOOLEAN
  /\ okGiven \in Nat /\ errGiven \in Nat /\ timer \in Nat

\* The parts of the pump agree: the timer holds the latest Ok back, and once nothing more is
\* to come the source is closed or over.
PumpState ==
  /\ reader = "new" => ~pulling /\ timer = 0 /\ ~cancelled /\ ~finished /\ ~sourceExhausted
  /\ timer # 0 => timer = okGiven
  /\ cancelled => timer = 0 /\ released /\ (failed \/ reader = "returned")
  /\ failed \/ reader \in {"failed", "returned"} => cancelled
  /\ sourceExhausted => released /\ ~pulling
  /\ finished => timer = 0 /\ released /\ (~pulling \/ cancelled)
  /\ reader = "ended" => finished /\ ~cancelled /\ items = <<>>

\* The Oks of the stream are older than the one held back, and the Errs are numbered.
OksOrdered(str) ==
  /\ \A i \in DOMAIN str : str[i].kind = "ok" =>
       str[i].number <= okGiven /\ (timer # 0 => str[i].number < timer)
  /\ \A i, j \in DOMAIN str : i < j /\ str[i].kind = "ok" /\ str[j].kind = "ok" => str[i].number < str[j].number
ErrsNumbered(str) ==
  /\ \A i \in DOMAIN str : str[i].kind = "err" => str[i].number = Among(i, str, Errs)
  /\ ~cancelled => Among(Len(str), str, Errs) = errGiven
LatestComes(str) ==
  ~cancelled /\ okGiven > 0 => timer = okGiven \/ \E i \in DOMAIN str : str[i] = Value("ok", okGiven)

PumpStream == OksOrdered(Stream) /\ ErrsNumbered(Stream) /\ LatestComes(Stream)

PumpInv == PumpTyped /\ PumpState /\ PumpStream

LEMMA PumpItems == Nothing \notin PumpItem /\ Errs \subseteq PumpItem
BY NothingAssumption DEF PumpItem, Errs

LEMMA PumpStart == DebounceInit => PumpInv
<1> SUFFICES ASSUME DebounceInit PROVE PumpInv
  OBVIOUS
<1> USE DEF DebounceInit, QueueInit
<1>1. QueueOf(PumpItem)
  BY DEF QueueOf, QueueTypeOK
<1>2. PumpTyped
  <2>1. pulling \in BOOLEAN /\ sourceExhausted \in BOOLEAN /\ cancelled \in BOOLEAN /\ released \in BOOLEAN
        /\ finished \in BOOLEAN /\ failed \in BOOLEAN
    OBVIOUS
  <2>2. okGiven \in Nat /\ errGiven \in Nat /\ timer \in Nat
    OBVIOUS
  <2> HIDE DEF DebounceInit, QueueInit
  <2> QED
    BY <1>1, <2>1, <2>2, Zenon DEF PumpTyped
<1>3. Stream = <<>>
  <2>1. Stream = Got(delivered, hand) \o items /\ Got(delivered, hand) = <<>>
    BY <1>1, StreamGot DEF Got
  <2> QED
    BY <2>1
<1>4. PumpStream
  <2>1. DOMAIN <<>> = {} /\ Len(<<>>) = 0
    OBVIOUS
  <2>2. Among(0, <<>>, Errs) = 0
    BY AmongNat
  <2>3. OksOrdered(<<>>) /\ LatestComes(<<>>)
    BY <2>1 DEF OksOrdered, LatestComes
  <2>4. ErrsNumbered(<<>>)
    BY <2>1, <2>2 DEF ErrsNumbered
  <2> QED
    BY <1>3, <2>3, <2>4, Zenon DEF PumpStream
<1>5. PumpState
  BY DEF PumpState
<1> QED
  BY <1>2, <1>4, <1>5 DEF PumpInv

\* What stays of the stream's parts when it does; timer and source may move on.
LEMMA PumpStreamSame ==
  ASSUME PumpStream, QueueOf(PumpItem), Stream' = Stream, cancelled \in BOOLEAN, cancelled' \in BOOLEAN, cancelled => cancelled',
         okGiven \in Nat,
         ~cancelled' => errGiven' = errGiven,
         \/ okGiven' = okGiven /\ timer' = timer
         \/ okGiven' = okGiven /\ timer' = 0 /\ (cancelled' \/ timer = 0)
         \/ okGiven' = okGiven + 1 /\ (timer' = okGiven' \/ (cancelled' /\ timer' = 0))
  PROVE  PumpStream'
<1> DEFINE str == Stream
           next == Stream'
<1>1. OksOrdered(str) /\ ErrsNumbered(str) /\ LatestComes(str) /\ next = str
  BY DEF PumpStream
<1>5. str \in Seq(PumpItem)
  BY StreamGot
<1> HIDE DEF str, next
<1>2. /\ \A i \in DOMAIN next : next[i].kind = "ok" =>
           next[i].number <= okGiven' /\ (timer' # 0 => next[i].number < timer')
      /\ \A i, j \in DOMAIN next :
           i < j /\ next[i].kind = "ok" /\ next[j].kind = "ok" => next[i].number < next[j].number
  <2>1. \A i, j \in DOMAIN next :
           i < j /\ next[i].kind = "ok" /\ next[j].kind = "ok" => next[i].number < next[j].number
    BY <1>1 DEF OksOrdered
  <2>2. ASSUME NEW i \in DOMAIN next, next[i].kind = "ok"
        PROVE  next[i].number <= okGiven' /\ (timer' # 0 => next[i].number < timer')
    <3>1. next[i].number \in Nat
      <4>1. next[i] \in PumpItem
        BY <1>1, <1>5
      <4> QED
        BY <4>1 DEF PumpItem
    <3>2. next[i].number <= okGiven /\ (timer # 0 => next[i].number < timer)
      BY <1>1, <2>2 DEF OksOrdered
    <3> QED
      BY <3>1, <3>2
  <2> QED
    BY <2>1, <2>2
<1>3. /\ \A i \in DOMAIN next : next[i].kind = "err" => next[i].number = Among(i, next, Errs)
      /\ ~cancelled' => Among(Len(next), next, Errs) = errGiven'
  BY <1>1 DEF ErrsNumbered
<1>4. ~cancelled' /\ okGiven' > 0 =>
        timer' = okGiven' \/ \E i \in DOMAIN next : next[i] = Value("ok", okGiven')
  BY <1>1 DEF LatestComes
<1> QED
  BY <1>2, <1>3, <1>4 DEF PumpStream, OksOrdered, ErrsNumbered, LatestComes, next

\* A push of the next Err, or of the Ok that was held back.
LEMMA PumpStreamPushed ==
  ASSUME PumpStream, QueueOf(PumpItem), NEW item \in PumpItem, Stream' = Append(Stream, item),
         okGiven' = okGiven, cancelled' = cancelled, okGiven \in Nat, timer \in Nat, errGiven \in Nat,
         \/ item = Value("err", errGiven + 1) /\ ~cancelled /\ timer' = timer /\ errGiven' = errGiven + 1
         \/ item = Value("ok", timer) /\ timer = okGiven /\ timer # 0 /\ timer' = 0 /\ errGiven' = errGiven
  PROVE  PumpStream'
<1> DEFINE str == Stream
           next == Stream'
<1>1. /\ OksOrdered(str) /\ ErrsNumbered(str) /\ LatestComes(str) /\ next = Append(str, item)
      /\ str \in Seq(PumpItem)
  BY StreamGot DEF PumpStream
<1> HIDE DEF str, next
<1>2. /\ Len(str) \in Nat /\ Len(next) = Len(str) + 1 /\ next[Len(str) + 1] = item
      /\ DOMAIN str = 1..Len(str) /\ DOMAIN next = 1..(Len(str) + 1)
      /\ \A i \in DOMAIN str : next[i] = str[i] /\ i < Len(str) + 1 /\ str[i].number \in Nat
  <2>1. \A i \in DOMAIN str : str[i] \in PumpItem
    BY <1>1
  <2>2. \A i \in DOMAIN str : str[i].number \in Nat
    BY <2>1 DEF PumpItem
  <2> QED
    BY <1>1, <2>2
<1>3. /\ \A i \in 0..Len(str) : Among(i, next, Errs) = Among(i, str, Errs)
      /\ Among(Len(str) + 1, next, Errs) = Among(Len(str), str, Errs) + (IF item \in Errs THEN 1 ELSE 0)
  BY <1>1, AmongAppend
<1>4. item.kind \in {"ok", "err"} /\ item.number \in Nat /\ (item \in Errs <=> item.kind = "err")
  BY DEF PumpItem, Errs
<1>5. \A i \in DOMAIN next : i \in DOMAIN str \/ i = Len(str) + 1
  BY <1>2
<1>6. Among(Len(str), str, Errs) \in Nat
  BY <1>2, AmongNat
<1>7. /\ \A i \in DOMAIN next : next[i].kind = "err" => next[i].number = Among(i, next, Errs)
      /\ ~cancelled' => Among(Len(next), next, Errs) = errGiven'
  <2>1. ASSUME NEW i \in DOMAIN str, next[i].kind = "err" PROVE next[i].number = Among(i, next, Errs)
    <3>1. i \in 0..Len(str) /\ next[i] = str[i]
      BY <1>2
    <3> QED
      BY <1>1, <1>3, <2>1, <3>1 DEF ErrsNumbered
  <2>2. item.kind = "err" => item.number = errGiven + 1 /\ ~cancelled /\ errGiven' = errGiven + 1
    BY DEF Value
  <2>3. item.kind = "ok" => errGiven' = errGiven
    BY DEF Value
  <2>4. ~cancelled => Among(Len(str), str, Errs) = errGiven
    BY <1>1 DEF ErrsNumbered
  <2>5. next[Len(str) + 1].kind = "err" => next[Len(str) + 1].number = Among(Len(str) + 1, next, Errs)
    BY <1>2, <1>3, <1>4, <2>2, <2>4
  <2>6. ~cancelled' => Among(Len(str) + 1, next, Errs) = errGiven'
    BY <1>3, <1>4, <1>6, <2>2, <2>3, <2>4
  <2> QED
    BY <1>2, <1>5, <2>1, <2>5, <2>6
<1>8. /\ \A i \in DOMAIN next : next[i].kind = "ok" =>
           next[i].number <= okGiven' /\ (timer' # 0 => next[i].number < timer')
      /\ \A i, j \in DOMAIN next :
           i < j /\ next[i].kind = "ok" /\ next[j].kind = "ok" => next[i].number < next[j].number
  <2>1. item.kind = "ok" => item.number = timer /\ timer = okGiven /\ timer # 0 /\ timer' = 0
    BY DEF Value
  <2>2. item.kind = "err" => timer' = timer
    BY DEF Value
  <2>3. /\ \A i \in DOMAIN str : str[i].kind = "ok" =>
             str[i].number <= okGiven /\ (timer # 0 => str[i].number < timer)
        /\ \A i, j \in DOMAIN str :
             i < j /\ str[i].kind = "ok" /\ str[j].kind = "ok" => str[i].number < str[j].number
    BY <1>1 DEF OksOrdered
  <2>4. ASSUME NEW i \in DOMAIN next, next[i].kind = "ok"
        PROVE  next[i].number <= okGiven' /\ (timer' # 0 => next[i].number < timer')
    <3>1. CASE i \in DOMAIN str
      BY <1>2, <1>4, <2>1, <2>2, <2>3, <2>4, <3>1
    <3>2. CASE i = Len(str) + 1
      BY <1>2, <2>1, <2>4, <3>2
    <3> QED
      BY <1>5, <3>1, <3>2
  <2>5. ASSUME NEW i \in DOMAIN next, NEW j \in DOMAIN next, i < j, next[i].kind = "ok", next[j].kind = "ok"
        PROVE  next[i].number < next[j].number
    <3>1. i \in DOMAIN str
      BY <1>2, <2>5
    <3>2. CASE j \in DOMAIN str
      BY <1>2, <2>3, <2>5, <3>1, <3>2
    <3>3. CASE j = Len(str) + 1
      BY <1>2, <2>1, <2>3, <2>5, <3>1, <3>3
    <3> QED
      BY <1>5, <3>2, <3>3
  <2> QED
    BY <2>4, <2>5
<1>9. ~cancelled' /\ okGiven' > 0 =>
        timer' = okGiven' \/ \E i \in DOMAIN next : next[i] = Value("ok", okGiven')
  <2> SUFFICES ASSUME ~cancelled, okGiven > 0, timer' # okGiven
               PROVE  \E i \in DOMAIN next : next[i] = Value("ok", okGiven)
    OBVIOUS
  <2>1. CASE timer = okGiven
    <3>1. next[Len(str) + 1] = Value("ok", okGiven) /\ Len(str) + 1 \in DOMAIN next
      BY <1>2, <2>1
    <3> QED
      BY <3>1
  <2>2. CASE timer # okGiven
    <3>1. PICK i \in DOMAIN str : str[i] = Value("ok", okGiven)
      BY <1>1, <2>2 DEF LatestComes
    <3> QED
      BY <1>2, <3>1
  <2> QED
    BY <2>1, <2>2
<1> QED
  BY <1>7, <1>8, <1>9 DEF PumpStream, OksOrdered, ErrsNumbered, LatestComes, next

\* A step that leaves the queue alone.
LEMMA QueueSameKeeps ==
  ASSUME PumpInv, UNCHANGED <<items, finished, failed, reader, hand, delivered>>
  PROVE  QueueOf(PumpItem)' /\ Stream' = Stream
<1>1. QueueOf(PumpItem) /\ QueueOf(PumpItem)'
  BY DEF PumpInv, PumpTyped, QueueOf, QueueTypeOK
<1> QED
  BY <1>1, StreamKeeps

LEMMA StartPumpKeeps ==
  ASSUME PumpInv, StartPump
  PROVE  PumpInv'
<1> USE DEF StartPump
<1>0. PumpTyped /\ PumpState /\ PumpStream /\ reader = "new"
  BY DEF PumpInv
<1>1. QueueOf(PumpItem) /\ QueueOf(PumpItem)'
  BY <1>0 DEF PumpTyped, QueueOf, QueueTypeOK
<1>2. Stream' = Stream
  BY <1>1, StreamKeeps DEF Got
<1>3. PumpTyped'
  BY <1>0, <1>1 DEF PumpTyped
<1>4. PumpStream'
  BY <1>0, <1>1, <1>2, <1>3, PumpStreamSame DEF PumpTyped
<1>5. PumpState'
  BY <1>0 DEF PumpState
<1> QED
  BY <1>3, <1>4, <1>5 DEF PumpInv

LEMMA AskPumpKeeps ==
  ASSUME PumpInv, AskPump
  PROVE  PumpInv'
<1>0. PumpTyped /\ PumpState /\ PumpStream /\ QueueOf(PumpItem)
  BY DEF PumpInv, PumpTyped
<1>1. UNCHANGED <<pulling, okGiven, errGiven, timer, sourceExhausted, cancelled, released>> /\ AskQueue
  BY DEF AskPump
<1>2. Nothing \notin PumpItem
  BY PumpItems
<1>3. /\ QueueOf(PumpItem)' /\ Stream' = Stream /\ hand = Nothing /\ reader = "idle"
      /\ UNCHANGED <<finished, failed, delivered>>
      /\ \/ reader' = "resumed" /\ items # <<>> /\ hand' = Head(items) /\ items' = Tail(items)
         \/ reader' = "failed" /\ items = <<>> /\ items' = <<>> /\ hand' = hand /\ failed
         \/ reader' = "ended" /\ items = <<>> /\ items' = <<>> /\ hand' = hand /\ ~failed /\ finished
         \/ reader' = "waiting" /\ items = <<>> /\ items' = <<>> /\ hand' = hand /\ ~failed /\ ~finished
  BY <1>0, <1>1, <1>2, AskMoves
<1>4. PumpTyped'
  BY <1>0, <1>1, <1>3 DEF PumpTyped
<1>5. PumpStream'
  BY <1>0, <1>1, <1>3, PumpStreamSame DEF PumpTyped
<1>6. PumpState'
  BY <1>0, <1>1, <1>3 DEF PumpState
<1> QED
  BY <1>4, <1>5, <1>6 DEF PumpInv

LEMMA TakePumpedKeeps ==
  ASSUME PumpInv, TakePumped
  PROVE  PumpInv'
<1>0. PumpTyped /\ PumpState /\ PumpStream /\ QueueOf(PumpItem)
  BY DEF PumpInv, PumpTyped
<1>1. /\ UNCHANGED <<pulling, okGiven, errGiven, timer, sourceExhausted, cancelled, released, finished, failed>>
      /\ TakeHand /\ reader = "resumed" /\ reader' = "idle"
  BY DEF TakePumped, TakeHand
<1>2. QueueOf(PumpItem)' /\ Stream' = Stream /\ items' = items /\ hand' = Nothing
  BY <1>0, <1>1, PumpItems, TakeMoves
<1>4. PumpTyped'
  BY <1>0, <1>1, <1>2 DEF PumpTyped
<1>5. PumpStream'
  BY <1>0, <1>1, <1>2, PumpStreamSame DEF PumpTyped
<1>6. PumpState'
  BY <1>0, <1>1, <1>2 DEF PumpState
<1> QED
  BY <1>4, <1>5, <1>6 DEF PumpInv

LEMMA CancelKeeps ==
  ASSUME PumpInv, Cancel
  PROVE  PumpInv'
<1>0. PumpTyped /\ PumpState /\ PumpStream /\ QueueOf(PumpItem)
  BY DEF PumpInv, PumpTyped
<1>1. /\ UNCHANGED <<pulling, okGiven, errGiven, sourceExhausted, failed>>
      /\ Leave /\ reader' = "returned" /\ cancelled' /\ released' /\ timer' = 0
  BY DEF Cancel, Leave
<1>2. QueueOf(PumpItem)' /\ Stream' = Stream /\ items' = items /\ hand' = Nothing
  BY <1>0, <1>1, PumpItems, TakeMoves
<1>3. cancelled' \in BOOLEAN /\ released' \in BOOLEAN /\ finished' \in BOOLEAN
  BY <1>0 DEF Cancel, PumpTyped
<1>4. PumpTyped'
  BY <1>0, <1>1, <1>2, <1>3 DEF PumpTyped
<1>5. PumpStream'
  BY <1>0, <1>1, <1>2, <1>3, PumpStreamSame DEF PumpTyped
<1>6. PumpState'
  BY <1>0, <1>1, <1>2 DEF PumpState
<1> QED
  BY <1>4, <1>5, <1>6 DEF PumpInv

LEMMA OkArrivesKeeps ==
  ASSUME PumpInv, OkArrives
  PROVE  PumpInv'
<1>0. PumpTyped /\ PumpState /\ PumpStream /\ QueueOf(PumpItem)
  BY DEF PumpInv, PumpTyped
<1>1. /\ pulling /\ okGiven' = okGiven + 1 /\ pulling' = ~cancelled
      /\ timer' = IF cancelled THEN timer ELSE okGiven'
      /\ UNCHANGED <<items, finished, failed, reader, hand, delivered, errGiven, sourceExhausted, cancelled, released>>
  BY DEF OkArrives, QueueSame
<1>2. QueueOf(PumpItem)' /\ Stream' = Stream
  BY <1>1, QueueSameKeeps
<1>3. pulling' \in BOOLEAN /\ okGiven' \in Nat /\ timer' \in Nat /\ okGiven \in Nat
  BY <1>0, <1>1 DEF PumpTyped
<1>4. PumpTyped'
  BY <1>0, <1>1, <1>2, <1>3 DEF PumpTyped
<1>5. cancelled => timer' = 0
  BY <1>0, <1>1 DEF PumpState
<1>6. cancelled \in BOOLEAN /\ cancelled' = cancelled
  BY <1>0, <1>1 DEF PumpTyped
<1>7. PumpStream'
  <2>1. timer' = okGiven' \/ (cancelled' /\ timer' = 0)
    <3>1. CASE cancelled
      BY <1>5, <1>6, <3>1
    <3>2. CASE ~cancelled
      BY <3>2, Zenon DEF OkArrives
    <3> QED
      BY <3>1, <3>2
  <2>2. cancelled' \in BOOLEAN /\ errGiven' = errGiven /\ okGiven' = okGiven + 1
    BY <1>1, <1>6
  <2> QED
    BY <1>0, <1>2, <1>3, <1>6, <2>1, <2>2, PumpStreamSame
<1>8. PumpState'
  BY <1>0, <1>1, <1>3, <1>5 DEF PumpState
<1> QED
  BY <1>4, <1>7, <1>8 DEF PumpInv

LEMMA ErrArrivesKeeps ==
  ASSUME PumpInv, ErrArrives
  PROVE  PumpInv'
<1> DEFINE item == Value("err", errGiven + 1)
<1>0. PumpTyped /\ PumpState /\ PumpStream /\ QueueOf(PumpItem)
  BY DEF PumpInv, PumpTyped
<1>1. /\ pulling /\ errGiven' = errGiven + 1 /\ pulling' = ~cancelled
      /\ UNCHANGED <<okGiven, timer, sourceExhausted, cancelled, released, delivered>>
  BY DEF ErrArrives
<1>2. errGiven \in Nat /\ errGiven' \in Nat /\ okGiven \in Nat /\ timer \in Nat
  BY <1>0, <1>1 DEF PumpTyped
<1>3. pulling' \in BOOLEAN /\ cancelled \in BOOLEAN /\ finished \in BOOLEAN
  BY <1>0, <1>1 DEF PumpTyped
<1>4. CASE cancelled /\ QueueSame
  <2>1. UNCHANGED <<items, finished, failed, reader, hand, delivered>>
    BY <1>1, <1>4 DEF QueueSame
  <2>2. QueueOf(PumpItem)' /\ Stream' = Stream
    BY <2>1, QueueSameKeeps
  <2>3. PumpTyped'
    BY <1>0, <1>1, <1>2, <1>3, <2>1, <2>2 DEF PumpTyped
  <2>4. PumpStream'
    BY <1>0, <1>1, <1>2, <1>3, <1>4, <2>2, PumpStreamSame
  <2>5. PumpState'
    BY <1>0, <1>1, <1>4, <2>1 DEF PumpState
  <2> QED
    BY <2>3, <2>4, <2>5 DEF PumpInv
<1>5. CASE ~cancelled /\ Push(item)
  <2>1. item \in PumpItem
    BY <1>2 DEF Value, PumpItem
  <2>2. item = Value("err", errGiven + 1)
    OBVIOUS
  <2> HIDE DEF item
  <2>3. PushThen(item, FALSE) /\ finished' = finished /\ failed' = failed
    BY <1>3, <1>5 DEF Push, PushThen
  <2>4. /\ QueueOf(PumpItem)' /\ Stream' = Append(Stream, item)
        /\ \/ items' = Append(items, item) /\ hand' = hand /\ reader' = reader
           \/ reader = "waiting" /\ reader' = "resumed" /\ items = <<>> /\ items' = <<>> /\ hand' = item
    BY <1>0, <1>1, <2>1, <2>3, PumpItems, PushExtends
  <2>5. PumpTyped'
    BY <1>0, <1>1, <1>2, <1>3, <2>3, <2>4 DEF PumpTyped
  <2>6. PumpStream'
    BY <1>0, <1>1, <1>2, <1>5, <2>1, <2>2, <2>4, PumpStreamPushed
  <2>7. PumpState'
    BY <1>0, <1>1, <1>5, <2>3, <2>4 DEF PumpState
  <2> QED
    BY <2>5, <2>6, <2>7 DEF PumpInv
<1> QED
  BY <1>1, <1>4, <1>5 DEF ErrArrives

LEMMA SourceEndsKeeps ==
  ASSUME PumpInv, SourceEnds
  PROVE  PumpInv'
<1>0. PumpTyped /\ PumpState /\ PumpStream /\ QueueOf(PumpItem)
  BY DEF PumpInv, PumpTyped
<1>1. /\ pulling /\ ~pulling' /\ released' /\ sourceExhausted' = ~cancelled
      /\ UNCHANGED <<okGiven, errGiven, timer, cancelled, delivered>>
  BY DEF SourceEnds
<1>2. /\ pulling' \in BOOLEAN /\ released' \in BOOLEAN /\ sourceExhausted' \in BOOLEAN /\ cancelled \in BOOLEAN
      /\ okGiven \in Nat /\ timer \in Nat
  BY <1>0 DEF SourceEnds, PumpTyped
<1>3. CASE QueueSame
  <2>1. UNCHANGED <<items, finished, failed, reader, hand, delivered>>
    BY <1>1, <1>3 DEF QueueSame
  <2>2. QueueOf(PumpItem)' /\ Stream' = Stream
    BY <2>1, QueueSameKeeps
  <2>3. PumpTyped'
    BY <1>0, <1>1, <1>2, <2>1, <2>2 DEF PumpTyped
  <2>4. PumpStream'
    BY <1>0, <1>1, <1>2, <2>2, PumpStreamSame
  <2>5. PumpState'
    BY <1>0, <1>1, <2>1 DEF PumpState
  <2> QED
    BY <2>3, <2>4, <2>5 DEF PumpInv
<1>4. CASE ~cancelled /\ timer = 0 /\ Done
  <2>1. /\ QueueOf(PumpItem)' /\ Stream' = Stream /\ UNCHANGED <<items, hand, failed>> /\ finished'
        /\ reader' = IF reader = "waiting" THEN "ended" ELSE reader
        /\ reader = "waiting" => items = <<>> /\ ~failed
    BY <1>0, <1>1, <1>4, DoneTells
  <2>2. finished' \in BOOLEAN
    BY <1>4 DEF Done
  <2>3. PumpTyped'
    BY <1>0, <1>1, <1>2, <2>1, <2>2 DEF PumpTyped
  <2>4. PumpStream'
    BY <1>0, <1>1, <1>2, <2>1, PumpStreamSame
  <2>5. PumpState'
    BY <1>0, <1>1, <1>4, <2>1 DEF PumpState
  <2> QED
    BY <2>3, <2>4, <2>5 DEF PumpInv
<1> QED
  BY <1>3, <1>4 DEF SourceEnds

LEMMA SourceFailsKeeps ==
  ASSUME PumpInv, SourceFails
  PROVE  PumpInv'
<1>0. PumpTyped /\ PumpState /\ PumpStream /\ QueueOf(PumpItem)
  BY DEF PumpInv, PumpTyped
<1>1. /\ pulling /\ ~pulling' /\ released' /\ cancelled' /\ timer' = 0
      /\ UNCHANGED <<okGiven, errGiven, sourceExhausted, delivered>>
  BY DEF SourceFails
<1>2. /\ pulling' \in BOOLEAN /\ released' \in BOOLEAN /\ cancelled' \in BOOLEAN /\ cancelled \in BOOLEAN
      /\ okGiven \in Nat
  BY <1>0 DEF SourceFails, PumpTyped
<1>3. CASE cancelled /\ QueueSame
  <2>1. UNCHANGED <<items, finished, failed, reader, hand, delivered>>
    BY <1>1, <1>3 DEF QueueSame
  <2>2. QueueOf(PumpItem)' /\ Stream' = Stream
    BY <2>1, QueueSameKeeps
  <2>3. PumpTyped'
    BY <1>0, <1>1, <1>2, <2>1, <2>2 DEF PumpTyped
  <2>4. PumpStream'
    BY <1>0, <1>1, <1>2, <2>2, PumpStreamSame
  <2>5. PumpState'
    BY <1>0, <1>1, <1>3, <2>1 DEF PumpState
  <2> QED
    BY <2>3, <2>4, <2>5 DEF PumpInv
<1>4. CASE ~cancelled /\ Fail
  <2>1. /\ QueueOf(PumpItem)' /\ Stream' = Stream /\ UNCHANGED <<items, hand, finished>> /\ failed'
        /\ reader' = IF reader = "waiting" THEN "failed" ELSE reader
        /\ reader = "waiting" => items = <<>>
    BY <1>0, <1>1, <1>4, FailTells
  <2>2. failed' \in BOOLEAN
    BY <1>4 DEF Fail
  <2>3. PumpTyped'
    BY <1>0, <1>1, <1>2, <2>1, <2>2 DEF PumpTyped
  <2>4. PumpStream'
    BY <1>0, <1>1, <1>2, <2>1, PumpStreamSame
  <2>5. ~finished /\ reader # "ended" /\ reader # "new"
    BY <1>0, <1>1, <1>4 DEF PumpState
  <2>6. PumpState'
    BY <1>0, <1>1, <1>4, <2>1, <2>5 DEF PumpState
  <2> QED
    BY <2>3, <2>4, <2>6 DEF PumpInv
<1> QED
  BY <1>3, <1>4 DEF SourceFails

LEMMA TimerFlushesKeeps ==
  ASSUME PumpInv, TimerFlushes
  PROVE  PumpInv'
<1> DEFINE item == Value("ok", timer)
<1>0. PumpTyped /\ PumpState /\ PumpStream /\ QueueOf(PumpItem)
  BY DEF PumpInv, PumpTyped
<1>1. /\ timer # 0 /\ timer' = 0 /\ PushThen(item, sourceExhausted)
      /\ UNCHANGED <<pulling, okGiven, errGiven, sourceExhausted, cancelled, released, delivered>>
  BY DEF TimerFlushes
<1>2. okGiven \in Nat /\ timer \in Nat /\ errGiven \in Nat /\ finished \in BOOLEAN /\ sourceExhausted \in BOOLEAN
  BY <1>0 DEF PumpTyped
<1>3. finished' = (finished \/ sourceExhausted) /\ failed' = failed
  BY <1>1 DEF PushThen
<1>4. item \in PumpItem
  BY <1>2 DEF Value, PumpItem
<1>5. item = Value("ok", timer)
  OBVIOUS
<1> HIDE DEF item
<1>6. timer = okGiven /\ ~cancelled /\ ~finished /\ reader \notin {"new", "ended", "failed", "returned"}
  BY <1>0, <1>1 DEF PumpState
<1>7. /\ QueueOf(PumpItem)' /\ Stream' = Append(Stream, item)
      /\ \/ items' = Append(items, item) /\ hand' = hand /\ reader' = reader
         \/ reader = "waiting" /\ reader' = "resumed" /\ items = <<>> /\ items' = <<>> /\ hand' = item
  BY <1>0, <1>1, <1>4, PumpItems, PushExtends
<1>8. finished' \in BOOLEAN
  BY <1>2, <1>3
<1>9. PumpTyped'
  BY <1>0, <1>1, <1>3, <1>7, <1>8 DEF PumpTyped
<1>10. PumpStream'
  BY <1>0, <1>1, <1>2, <1>4, <1>5, <1>6, <1>7, PumpStreamPushed
<1>11. PumpState'
  BY <1>0, <1>1, <1>3, <1>6, <1>7 DEF PumpState
<1> QED
  BY <1>9, <1>10, <1>11 DEF PumpInv

LEMMA PumpSteps == PumpInv /\ [DebounceNext]_debounceVars => PumpInv'
<1> SUFFICES ASSUME PumpInv, [DebounceNext]_debounceVars PROVE PumpInv'
  OBVIOUS
<1>1. CASE UNCHANGED debounceVars
  <2>0. PumpTyped /\ PumpState /\ PumpStream /\ QueueOf(PumpItem)
    BY DEF PumpInv, PumpTyped
  <2>1. /\ UNCHANGED <<items, finished, failed, reader, hand, delivered>>
        /\ UNCHANGED <<pulling, okGiven, errGiven, timer, sourceExhausted, cancelled, released>>
    BY <1>1 DEF debounceVars, queueVars
  <2>2. QueueOf(PumpItem)' /\ Stream' = Stream
    BY <2>1, QueueSameKeeps
  <2>3. PumpTyped'
    BY <2>0, <2>1, <2>2 DEF PumpTyped
  <2>4. PumpStream'
    BY <2>0, <2>1, <2>2, PumpStreamSame DEF PumpTyped
  <2>5. PumpState'
    BY <2>0, <2>1 DEF PumpState
  <2> QED
    BY <2>3, <2>4, <2>5 DEF PumpInv
<1> QED
  BY <1>1, StartPumpKeeps, AskPumpKeeps, TakePumpedKeeps, CancelKeeps, OkArrivesKeeps, ErrArrivesKeeps,
     SourceEndsKeeps, SourceFailsKeeps, TimerFlushesKeeps DEF DebounceNext

\* Each of the properties of debounce is a part of the invariant.
LEMMA PumpFaithful == PumpInv => NothingLeftRunning /\ LatestIsFlushed
<1> SUFFICES ASSUME PumpInv PROVE NothingLeftRunning /\ LatestIsFlushed
  OBVIOUS
<1>0. PumpTyped /\ PumpState /\ OksOrdered(Stream) /\ ErrsNumbered(Stream) /\ LatestComes(Stream)
  BY DEF PumpInv, PumpStream
<1>1. NothingLeftRunning
  BY <1>0 DEF PumpState, NothingLeftRunning
<1>2. reader = "ended" => items = <<>> /\ timer = 0 /\ released
  BY <1>0 DEF PumpState
<1> DEFINE str == Stream
<1>3. OksOrdered(str) /\ ErrsNumbered(str) /\ LatestComes(str)
  BY <1>0
<1> HIDE DEF str
<1>4. /\ \A i, j \in DOMAIN str :
           i < j /\ str[i].kind = "ok" /\ str[j].kind = "ok" => str[i].number < str[j].number
      /\ \A i \in DOMAIN str : str[i].kind = "err" => str[i].number = Among(i, str, Errs)
      /\ ~cancelled => Among(Len(str), str, Errs) = errGiven
      /\ ~cancelled /\ okGiven > 0 =>
           timer = okGiven \/ \E i \in DOMAIN str : str[i] = Value("ok", okGiven)
  BY <1>3 DEF OksOrdered, ErrsNumbered, LatestComes
<1> QED
  BY <1>1, <1>2, <1>4 DEF LatestIsFlushed, str

-----------------------------------------------------------------------------
(* The emitter. *)

\* What a place of a Set holds.
Item == Listener \cup OnceCall \cup {Hole}

EmitterTyped ==
  /\ sets \in Seq(Seq(Item))
  /\ current \in 0..Len(sets)
  /\ emits \in Seq([set : Nat, at : Nat])
  /\ \A i \in 1..Len(emits) : emits[i].set \in 1..Len(sets)
  /\ called \in [OnceCall -> Nat] /\ orphans \subseteq OnceCall

\* The first part of OnceUnlessOrphaned.
NoDoubles ==
  \A s \in DOMAIN sets : \A i, j \in DOMAIN sets[s] : sets[s][i] = sets[s][j] /\ i # j => sets[s][i] = Hole

\* A once-handler is in one Set at most.
InOneSet ==
  \A w \in OnceCall : \A s, t \in DOMAIN sets : w \in ToSet(sets[s]) /\ w \in ToSet(sets[t]) => s = t

\* Its second part.
CalledOnce ==
  \A w \in OnceCall \ orphans :
    called[w] <= 1 /\ (called[w] = 1 => \A s \in DOMAIN sets : w \notin ToSet(sets[s]))

\* What an emit iterates is the event's Set, or was taken away by removeAll while it did.
DetachedOrphans ==
  \A i \in 1..Len(emits) :
    emits[i].set # current => \A w \in OnceCall : w \in ToSet(sets[emits[i].set]) => w \in orphans

EmitterInv == EmitterTyped /\ NoDoubles /\ InOneSet /\ CalledOnce /\ DetachedOrphans

LEMMA EmitterStart == EmitterInit => EmitterInv
<1> SUFFICES ASSUME EmitterInit PROVE EmitterInv
  OBVIOUS
<1>1. sets = <<>> /\ Len(sets) = 0 /\ DOMAIN sets = {} /\ emits = <<>> /\ Len(emits) = 0
  BY DEF EmitterInit
<1>2. EmitterTyped
  BY <1>1 DEF EmitterInit, EmitterTyped
<1> QED
  BY <1>1, <1>2 DEF EmitterInit, EmitterInv, NoDoubles, InOneSet, CalledOnce, DetachedOrphans

\* Set.delete leaves the places of the others, and takes out what it is to.
LEMMA RemovedFacts ==
  ASSUME NEW set \in Seq(Item), NEW h \in Listener \cup OnceCall
  PROVE  /\ Removed(set, h) \in Seq(Item)
         /\ DOMAIN Removed(set, h) = DOMAIN set
         /\ \A i \in DOMAIN set : Removed(set, h)[i] = IF set[i] = h THEN Hole ELSE set[i]
         /\ \A w \in OnceCall : w \in ToSet(Removed(set, h)) <=> w \in ToSet(set) /\ w # h
<1>1. /\ DOMAIN Removed(set, h) = DOMAIN set /\ DOMAIN set = 1..Len(set)
      /\ \A i \in DOMAIN set : Removed(set, h)[i] = IF set[i] = h THEN Hole ELSE set[i]
  BY DEF Removed
<1>2. Removed(set, h) \in Seq(Item)
  <2>1. \A i \in 1..Len(set) : (IF set[i] = h THEN Hole ELSE set[i]) \in Item
    BY DEF Item
  <2>2. Removed(set, h) \in [1..Len(set) -> Item]
    BY <1>1, <2>1 DEF Removed
  <2> QED
    BY <2>2
<1>3. \A w \in OnceCall : w # Hole
  BY EmitterAssumption
<1> QED
  BY <1>1, <1>2, <1>3 DEF ToSet

\* What the deletion of a handler from the event's Set does to all Sets.
LEMMA DeleteFacts ==
  ASSUME EmitterTyped, NoDoubles, current # 0, NEW h \in Listener \cup OnceCall,
         sets' = [sets EXCEPT ![current] = Removed(@, h)]
  PROVE  /\ sets' \in Seq(Seq(Item)) /\ Len(sets') = Len(sets) /\ DOMAIN sets' = DOMAIN sets
         /\ NoDoubles'
         /\ \A s \in DOMAIN sets : \A w \in OnceCall :
              w \in ToSet(sets'[s]) <=> w \in ToSet(sets[s]) /\ ~(s = current /\ w = h)
<1> DEFINE new == Removed(sets[current], h)
<1>1. /\ current \in DOMAIN sets /\ sets[current] \in Seq(Item)
      /\ sets' = [sets EXCEPT ![current] = new]
  BY DEF EmitterTyped
<1>2. /\ new \in Seq(Item)
      /\ DOMAIN new = DOMAIN sets[current]
      /\ \A i \in DOMAIN sets[current] : new[i] = IF sets[current][i] = h THEN Hole ELSE sets[current][i]
      /\ \A w \in OnceCall : w \in ToSet(new) <=> w \in ToSet(sets[current]) /\ w # h
  BY <1>1, RemovedFacts
<1> HIDE DEF new
<1>3. /\ sets' \in Seq(Seq(Item)) /\ Len(sets') = Len(sets) /\ DOMAIN sets' = DOMAIN sets
      /\ \A s \in DOMAIN sets : sets'[s] = IF s = current THEN new ELSE sets[s]
  BY <1>1, <1>2 DEF EmitterTyped
<1>4. NoDoubles'
  <2> SUFFICES ASSUME NEW s \in DOMAIN sets, NEW i \in DOMAIN sets'[s], NEW j \in DOMAIN sets'[s],
                      sets'[s][i] = sets'[s][j], i # j
               PROVE  sets'[s][i] = Hole
    BY <1>3 DEF NoDoubles
  <2>1. CASE s = current
    BY <1>2, <1>3, <2>1 DEF NoDoubles
  <2>2. CASE s # current
    BY <1>3, <2>2 DEF NoDoubles
  <2> QED
    BY <2>1, <2>2
<1> QED
  BY <1>2, <1>3, <1>4

LEMMA OffKeeps ==
  ASSUME EmitterInv, NEW h \in Listener, Off(h)
  PROVE  EmitterInv'
<1>1. /\ sets' \in Seq(Seq(Item)) /\ Len(sets') = Len(sets) /\ DOMAIN sets' = DOMAIN sets
      /\ NoDoubles'
      /\ \A s \in DOMAIN sets : \A w \in OnceCall : w \in ToSet(sets'[s]) => w \in ToSet(sets[s])
  BY DeleteFacts DEF EmitterInv, Off
<1>2. UNCHANGED <<current, emits, called, orphans>>
  BY DEF Off
<1>3. EmitterTyped'
  BY <1>1, <1>2 DEF EmitterInv, EmitterTyped
<1>4. InOneSet' /\ CalledOnce'
  BY <1>1, <1>2 DEF EmitterInv, InOneSet, CalledOnce
<1>5. DetachedOrphans'
  BY <1>1, <1>2 DEF EmitterInv, DetachedOrphans, EmitterTyped
<1> QED
  BY <1>1, <1>3, <1>4, <1>5 DEF EmitterInv

LEMMA RemoveAllKeeps ==
  ASSUME EmitterInv, RemoveAll
  PROVE  EmitterInv'
<1>1. /\ current # 0 /\ current' = 0 /\ UNCHANGED <<sets, emits, called>>
      /\ orphans' = orphans \cup
           {w \in Handlers(current) \cap OnceCall : \E i \in DOMAIN emits : emits[i].set = current}
  BY DEF RemoveAll
<1>2. EmitterTyped'
  BY <1>1 DEF EmitterInv, EmitterTyped
<1>3. NoDoubles' /\ InOneSet' /\ CalledOnce'
  BY <1>1 DEF EmitterInv, NoDoubles, InOneSet, CalledOnce
<1>4. DetachedOrphans'
  <2> SUFFICES ASSUME NEW i \in 1..Len(emits), NEW w \in OnceCall, w \in ToSet(sets[emits[i].set])
               PROVE  w \in orphans'
    BY <1>1 DEF DetachedOrphans
  <2>1. CASE emits[i].set = current
    <3>1. w \in Handlers(current) /\ i \in DOMAIN emits
      BY <2>1, EmitterAssumption DEF Handlers, EmitterInv, EmitterTyped
    <3> QED
      BY <1>1, <2>1, <3>1
  <2>2. CASE emits[i].set # current
    BY <1>1, <2>2 DEF EmitterInv, DetachedOrphans
  <2> QED
    BY <2>1, <2>2
<1> QED
  BY <1>2, <1>3, <1>4 DEF EmitterInv

\* getOrCreate and Set.add: a handler of once is new, in no Set and never called.
LEMMA AddKeeps ==
  ASSUME EmitterInv, NEW h \in Listener \cup OnceCall, Add(h), UNCHANGED <<emits, called, orphans>>,
         h \in OnceCall => called[h] = 0 /\ \A s \in DOMAIN sets : h \notin ToSet(sets[s])
  PROVE  EmitterInv'
<1>1. h # Hole /\ h \in Item
  BY EmitterAssumption DEF Item
<1>2. sets \in Seq(Seq(Item)) /\ DOMAIN sets = 1..Len(sets) /\ Len(sets) \in Nat
  BY DEF EmitterInv, EmitterTyped
<1>3. CASE current = 0
  <2>1. sets' = Append(sets, <<h>>) /\ current' = Len(sets')
    BY <1>3 DEF Add
  <2>2. /\ <<h>> \in Seq(Item) /\ DOMAIN <<h>> = {1} /\ <<h>>[1] = h /\ ToSet(<<h>>) = {h}
    BY <1>1 DEF ToSet
  <2> DEFINE one == <<h>>
  <2> HIDE DEF one
  <2>3. /\ sets' \in Seq(Seq(Item)) /\ Len(sets') = Len(sets) + 1 /\ DOMAIN sets' = 1..(Len(sets) + 1)
        /\ \A s \in 1..Len(sets) : sets'[s] = sets[s]
        /\ sets'[Len(sets) + 1] = one
    BY <1>2, <2>1, <2>2 DEF one
  <2>4. EmitterTyped'
    BY <1>2, <2>1, <2>3 DEF EmitterInv, EmitterTyped
  <2>5. NoDoubles'
    <3> SUFFICES ASSUME NEW s \in 1..(Len(sets) + 1), NEW i \in DOMAIN sets'[s], NEW j \in DOMAIN sets'[s],
                        sets'[s][i] = sets'[s][j], i # j
                 PROVE  sets'[s][i] = Hole
      BY <2>3 DEF NoDoubles
    <3>1. CASE s \in 1..Len(sets)
      BY <1>2, <2>3, <3>1 DEF EmitterInv, NoDoubles
    <3>2. CASE s = Len(sets) + 1
      BY <2>2, <2>3, <3>2 DEF one
    <3> QED
      BY <1>2, <3>1, <3>2
  <2>6. \A w \in OnceCall : \A s \in DOMAIN sets' :
          w \in ToSet(sets'[s]) <=> \/ s \in DOMAIN sets /\ w \in ToSet(sets[s])
                                    \/ s = Len(sets) + 1 /\ w = h
    <3> TAKE w \in OnceCall
    <3> TAKE s \in DOMAIN sets'
    <3>1. s \in 1..(Len(sets) + 1)
      BY <2>3
    <3>2. CASE s \in 1..Len(sets)
      <4>1. s \in DOMAIN sets /\ s # Len(sets) + 1 /\ sets'[s] = sets[s]
        BY <1>2, <2>3, <3>2
      <4> QED
        BY <4>1
    <3>3. CASE s = Len(sets) + 1
      <4>1. s \notin DOMAIN sets /\ sets'[s] = one
        BY <1>2, <2>3, <3>3
      <4> QED
        BY <2>2, <3>3, <4>1 DEF one
    <3> QED
      BY <1>2, <3>1, <3>2, <3>3
  <2>7. InOneSet'
    BY <1>2, <2>3, <2>6 DEF EmitterInv, InOneSet
  <2>8. CalledOnce'
    BY <1>2, <2>3, <2>6 DEF EmitterInv, CalledOnce
  <2>9. DetachedOrphans'
    <3> SUFFICES ASSUME NEW i \in 1..Len(emits), NEW w \in OnceCall, w \in ToSet(sets'[emits[i].set])
                 PROVE  w \in orphans
      BY DEF DetachedOrphans
    <3>1. emits[i].set \in 1..Len(sets) /\ emits[i].set # current
      BY <1>2, <1>3 DEF EmitterInv, EmitterTyped
    <3>2. sets'[emits[i].set] = sets[emits[i].set]
      BY <2>3, <3>1
    <3> QED
      BY <3>1, <3>2 DEF EmitterInv, DetachedOrphans
  <2> QED
    BY <2>4, <2>5, <2>7, <2>8, <2>9 DEF EmitterInv
<1>4. CASE current # 0 /\ h \in Handlers(current)
  BY <1>4 DEF Add, EmitterInv, EmitterTyped, NoDoubles, InOneSet, CalledOnce, DetachedOrphans
<1>5. CASE current # 0 /\ h \notin Handlers(current)
  <2> DEFINE old == sets[current]
             new == Append(old, h)
  <2>1. sets' = [sets EXCEPT ![current] = new] /\ UNCHANGED current
    BY <1>5 DEF Add
  <2>2. current \in DOMAIN sets /\ old \in Seq(Item) /\ h \notin ToSet(old)
    BY <1>1, <1>2, <1>5 DEF EmitterInv, EmitterTyped, Handlers
  <2> HIDE DEF old
  <2>3. /\ new \in Seq(Item) /\ DOMAIN old = 1..Len(old) /\ Len(old) \in Nat
        /\ DOMAIN new = 1..(Len(old) + 1)
        /\ \A i \in 1..Len(old) : new[i] = old[i]
        /\ new[Len(old) + 1] = h
    BY <1>1, <2>2
  <2> HIDE DEF new
  <2>4. /\ sets' \in Seq(Seq(Item)) /\ Len(sets') = Len(sets) /\ DOMAIN sets' = DOMAIN sets
        /\ \A s \in DOMAIN sets : sets'[s] = IF s = current THEN new ELSE sets[s]
    BY <1>2, <2>1, <2>2, <2>3
  <2>5. \A w : w \in ToSet(new) <=> w \in ToSet(old) \/ w = h
    BY <2>3 DEF ToSet
  <2>6. EmitterTyped'
    BY <2>1, <2>4 DEF EmitterInv, EmitterTyped
  <2>7. NoDoubles'
    <3> SUFFICES ASSUME NEW s \in DOMAIN sets, NEW i \in DOMAIN sets'[s], NEW j \in DOMAIN sets'[s],
                        sets'[s][i] = sets'[s][j], i # j
                 PROVE  sets'[s][i] = Hole
      BY <2>4 DEF NoDoubles
    <3>1. CASE s # current
      BY <2>4, <3>1 DEF EmitterInv, NoDoubles
    <3>2. CASE s = current
      <4>1. sets'[s] = new /\ i \in 1..(Len(old) + 1) /\ j \in 1..(Len(old) + 1)
        BY <2>3, <2>4, <3>2
      <4>2. \A k \in 1..Len(old) : old[k] # h
        BY <2>2, <2>3 DEF ToSet
      <4>3. i \in 1..Len(old) /\ j \in 1..Len(old)
        BY <2>3, <4>1, <4>2
      <4> QED
        BY <2>2, <2>3, <3>2, <4>1, <4>3 DEF EmitterInv, NoDoubles, old
    <3> QED
      BY <3>1, <3>2
  <2>8. \A w \in OnceCall : \A s \in DOMAIN sets :
          w \in ToSet(sets'[s]) <=> w \in ToSet(sets[s]) \/ (s = current /\ w = h)
    BY <2>4, <2>5 DEF old
  <2>9. InOneSet'
    BY <2>4, <2>8 DEF EmitterInv, InOneSet
  <2>10. CalledOnce'
    BY <2>4, <2>8 DEF EmitterInv, CalledOnce
  <2>11. DetachedOrphans'
    BY <1>2, <2>1, <2>4 DEF EmitterInv, DetachedOrphans, EmitterTyped
  <2> QED
    BY <2>6, <2>7, <2>9, <2>10, <2>11 DEF EmitterInv
<1> QED
  BY <1>3, <1>4, <1>5

\* The least of a set of numbers is one of them.
LEMMA LeastOne ==
  ASSUME NEW S \in SUBSET Nat, S # {}
  PROVE  Min(S) \in S
BY LeastExists DEF Min

\* A handler of the Set s, one that is iterated, is called.
LEMMA CallKeeps ==
  ASSUME EmitterInv, NEW s \in DOMAIN sets, NEW h, h \in ToSet(sets[s]) \ {Hole}, CallHandler(h),
         UNCHANGED <<current, orphans>>,
         s # current => \A w \in OnceCall : w \in ToSet(sets[s]) => w \in orphans
  PROVE  /\ sets' \in Seq(Seq(Item)) /\ Len(sets') = Len(sets) /\ called' \in [OnceCall -> Nat]
         /\ NoDoubles' /\ InOneSet' /\ CalledOnce'
         /\ \A t \in DOMAIN sets : \A w \in OnceCall : w \in ToSet(sets'[t]) => w \in ToSet(sets[t])
<1>0. EmitterTyped /\ NoDoubles /\ InOneSet /\ CalledOnce /\ sets \in Seq(Seq(Item)) /\ called \in [OnceCall -> Nat]
  BY DEF EmitterInv, EmitterTyped
<1>1. CASE h \notin OnceCall
  BY <1>0, <1>1 DEF CallHandler, NoDoubles, InOneSet, CalledOnce
<1>2. CASE h \in OnceCall
  <2>1. /\ called' = [called EXCEPT ![h] = @ + 1]
        /\ sets' = IF current = 0 THEN sets ELSE [sets EXCEPT ![current] = Removed(@, h)]
    BY <1>2 DEF CallHandler
  <2>2. called' \in [OnceCall -> Nat] /\ \A w \in OnceCall : called'[w] = IF w = h THEN called[w] + 1 ELSE called[w]
    BY <1>0, <1>2, <2>1
  <2>3. /\ sets' \in Seq(Seq(Item)) /\ Len(sets') = Len(sets) /\ DOMAIN sets' = DOMAIN sets
        /\ NoDoubles'
        /\ \A t \in DOMAIN sets : \A w \in OnceCall :
             w \in ToSet(sets'[t]) <=> w \in ToSet(sets[t]) /\ ~(t = current /\ w = h)
    <3>1. CASE current = 0
      <4>1. sets' = sets /\ \A t \in DOMAIN sets : t # 0
        BY <1>0, <2>1, <3>1
      <4> QED
        BY <1>0, <3>1, <4>1 DEF NoDoubles
    <3>2. CASE current # 0
      BY <1>0, <1>2, <2>1, <3>2, DeleteFacts
    <3> QED
      BY <3>1, <3>2
  <2>4. InOneSet'
    BY <1>0, <2>3 DEF InOneSet
  <2>5. CalledOnce'
    <3> SUFFICES ASSUME NEW w \in OnceCall, w \notin orphans
                 PROVE  called'[w] <= 1 /\ (called'[w] = 1 => \A t \in DOMAIN sets : w \notin ToSet(sets'[t]))
      BY <2>3 DEF CalledOnce
    <3>1. called[w] \in Nat /\ called[w] <= 1 /\ (called[w] = 1 => \A t \in DOMAIN sets : w \notin ToSet(sets[t]))
      BY <1>0 DEF CalledOnce
    <3>2. CASE w # h
      BY <2>2, <2>3, <3>1, <3>2
    <3>3. CASE w = h
      <4>1. s = current /\ w \in ToSet(sets[s])
        BY <3>3
      <4>2. called[w] = 0 /\ called'[w] = 1
        BY <2>2, <3>1, <3>3, <4>1
      <4>3. \A t \in DOMAIN sets : w \notin ToSet(sets'[t])
        BY <1>0, <2>3, <3>3, <4>1 DEF InOneSet
      <4> QED
        BY <4>2, <4>3
    <3> QED
      BY <3>2, <3>3
  <2> QED
    BY <2>2, <2>3, <2>4, <2>5
<1> QED
  BY <1>1, <1>2

\* An emit, beginning or going on, in Set s; the emits of outer are around it.
LEMMA IterateKeeps ==
  ASSUME EmitterInv, NEW s \in DOMAIN sets, NEW at \in Nat, NEW outer \in Seq([set : Nat, at : Nat]),
         \A i \in 1..Len(outer) : i \in 1..Len(emits) /\ outer[i] = emits[i],
         s # current => \A w \in OnceCall : w \in ToSet(sets[s]) => w \in orphans,
         Iterate(s, at, outer), UNCHANGED <<current, orphans>>
  PROVE  EmitterInv'
<1> DEFINE left == {i \in DOMAIN sets[s] : i > at /\ sets[s][i] # Hole}
<1>0. /\ EmitterTyped /\ NoDoubles /\ InOneSet /\ CalledOnce /\ DetachedOrphans
      /\ sets \in Seq(Seq(Item)) /\ sets[s] \in Seq(Item) /\ DOMAIN sets = 1..Len(sets)
  BY DEF EmitterInv, EmitterTyped
<1>1. CASE left = {}
  <2>1. emits' = outer /\ UNCHANGED <<sets, called>>
    BY <1>1 DEF Iterate
  <2>2. EmitterTyped'
    BY <1>0, <2>1 DEF EmitterTyped
  <2>3. NoDoubles' /\ InOneSet' /\ CalledOnce'
    BY <1>0, <2>1 DEF NoDoubles, InOneSet, CalledOnce
  <2>4. DetachedOrphans'
    BY <1>0, <2>1 DEF DetachedOrphans
  <2> QED
    BY <2>2, <2>3, <2>4 DEF EmitterInv
<1>2. CASE left # {}
  <2> DEFINE k == Min(left)
             frame == [set |-> s, at |-> k]
  <2>1. k \in left
    <3>1. left \in SUBSET Nat
      BY <1>0
    <3> HIDE DEF left
    <3> QED
      BY <1>2, <3>1, LeastOne
  <2>2. k \in Nat /\ k \in DOMAIN sets[s] /\ sets[s][k] \in ToSet(sets[s]) \ {Hole}
    <3>1. k \in DOMAIN sets[s] /\ sets[s][k] # Hole
      BY <2>1
    <3> HIDE DEF k
    <3>2. k \in Nat
      BY <1>0, <3>1
    <3> QED
      BY <3>1, <3>2 DEF ToSet
  <2>3. emits' = Append(outer, frame) /\ CallHandler(sets[s][k])
    BY <1>2 DEF Iterate
  <2> HIDE DEF k
  <2>4. /\ sets' \in Seq(Seq(Item)) /\ Len(sets') = Len(sets) /\ called' \in [OnceCall -> Nat]
        /\ NoDoubles' /\ InOneSet' /\ CalledOnce'
        /\ \A t \in DOMAIN sets : \A w \in OnceCall : w \in ToSet(sets'[t]) => w \in ToSet(sets[t])
    BY <2>2, <2>3, CallKeeps
  <2>5. frame \in [set : Nat, at : Nat] /\ frame.set = s
    BY <1>0, <2>2
  <2> HIDE DEF frame
  <2>6. /\ emits' \in Seq([set : Nat, at : Nat]) /\ Len(emits') = Len(outer) + 1 /\ Len(outer) \in Nat
        /\ \A i \in 1..Len(outer) : emits'[i] = outer[i]
        /\ emits'[Len(outer) + 1] = frame
    BY <2>3, <2>5
  <2>7. \A i \in 1..Len(emits') : emits'[i].set \in 1..Len(sets)
    <3> TAKE i \in 1..Len(emits')
    <3>1. CASE i \in 1..Len(outer)
      BY <1>0, <2>6, <3>1 DEF EmitterTyped
    <3>2. CASE i = Len(outer) + 1
      BY <1>0, <2>5, <2>6, <3>2
    <3> QED
      BY <2>6, <3>1, <3>2
  <2>8. EmitterTyped'
    BY <1>0, <2>4, <2>6, <2>7 DEF EmitterTyped
  <2>9. DetachedOrphans'
    <3> SUFFICES ASSUME NEW i \in 1..Len(emits'), emits'[i].set # current, NEW w \in OnceCall,
                        w \in ToSet(sets'[emits'[i].set])
                 PROVE  w \in orphans
      BY DEF DetachedOrphans
    <3>1. w \in ToSet(sets[emits'[i].set])
      BY <1>0, <2>4, <2>7
    <3>2. CASE i \in 1..Len(outer)
      BY <1>0, <2>6, <3>1, <3>2 DEF DetachedOrphans
    <3>3. CASE i = Len(outer) + 1
      BY <2>5, <2>6, <3>1, <3>3
    <3> QED
      BY <2>6, <3>2, <3>3
  <2> QED
    BY <2>4, <2>8, <2>9 DEF EmitterInv
<1> QED
  BY <1>1, <1>2

\* The emits around the innermost one.
LEMMA OuterEmits ==
  ASSUME EmitterTyped, emits # <<>>
  PROVE  /\ Len(emits) \in 1..Len(emits) /\ Last(emits) = emits[Len(emits)]
         /\ Last(emits).at \in Nat
         /\ Front(emits) \in Seq([set : Nat, at : Nat])
         /\ \A i \in 1..Len(Front(emits)) : i \in 1..Len(emits) /\ Front(emits)[i] = emits[i]
<1>1. emits \in Seq([set : Nat, at : Nat]) /\ Len(emits) \in Nat \ {0}
  BY EmptySeq DEF EmitterTyped
<1> DEFINE n == Len(emits) - 1
<1>0. \A i \in 1..Len(emits) : emits[i] \in [set : Nat, at : Nat]
  <2> DEFINE Frame == [set : Nat, at : Nat]
  <2>1. emits \in Seq(Frame)
    BY <1>1
  <2> HIDE DEF Frame
  <2>2. \A i \in 1..Len(emits) : emits[i] \in Frame
    BY <2>1
  <2> QED
    BY <2>2 DEF Frame
<1>2. n \in Nat /\ 1 \in Int /\ \A i \in 1..n : emits[i] \in [set : Nat, at : Nat] /\ 1 + i - 1 = i
  BY <1>0, <1>1
<1>3. /\ SubSeq(emits, 1, n) \in Seq([set : Nat, at : Nat])
      /\ Len(SubSeq(emits, 1, n)) = IF 1 <= n THEN n - 1 + 1 ELSE 0
      /\ \A i \in 1..(n - 1 + 1) : SubSeq(emits, 1, n)[i] = emits[1 + i - 1]
  <2> HIDE DEF n
  <2>1. n \in Int
    BY <1>2
  <2> QED
    BY <1>2, <2>1, SubSeqProperties
<1> DEFINE front == Front(emits)
<1>4. front = SubSeq(emits, 1, n)
  BY DEF Front
<1> HIDE DEF front
<1>5. /\ front \in Seq([set : Nat, at : Nat]) /\ Len(front) = n
      /\ \A i \in 1..n : front[i] = emits[i]
  <2> HIDE DEF n
  <2> QED
    BY <1>2, <1>3, <1>4
<1>6. Len(emits) \in 1..Len(emits) /\ \A i \in 1..n : i \in 1..Len(emits)
  BY <1>1
<1>7. Last(emits) = emits[Len(emits)]
  BY DEF Last
<1>8. emits[Len(emits)] \in [set : Nat, at : Nat]
  BY <1>0, <1>6
<1>9. Last(emits).at \in Nat
  BY <1>7, <1>8
<1> HIDE DEF n
<1> QED
  BY <1>5, <1>6, <1>7, <1>9 DEF front

LEMMA EmitterSteps == EmitterInv /\ [EmitterNext]_emitterVars => EmitterInv'
<1> SUFFICES ASSUME EmitterInv, [EmitterNext]_emitterVars PROVE EmitterInv'
  OBVIOUS
<1>0. EmitterTyped /\ DetachedOrphans
  BY DEF EmitterInv
<1>1. ASSUME NEW h \in Listener, On(h) PROVE EmitterInv'
  BY <1>1, AddKeeps, EmitterAssumption DEF On
<1>2. ASSUME NEW h \in Listener, Off(h) PROVE EmitterInv'
  BY <1>2, OffKeeps
<1>3. ASSUME NEW w \in OnceCall, Once(w) PROVE EmitterInv'
  BY <1>3, AddKeeps DEF Once
<1>4. CASE RemoveAll
  BY <1>4, RemoveAllKeeps
<1>5. CASE Emit
  <2>1. /\ current \in DOMAIN sets /\ 0 \in Nat /\ emits \in Seq([set : Nat, at : Nat])
        /\ Iterate(current, 0, emits) /\ UNCHANGED <<current, orphans>>
    BY <1>0, <1>5 DEF Emit, EmitterTyped
  <2> QED
    BY <2>1, IterateKeeps
<1>6. CASE HandlerReturned
  <2> DEFINE s == Last(emits).set
             at == Last(emits).at
             outer == Front(emits)
  <2>1. emits # <<>> /\ Iterate(s, at, outer) /\ UNCHANGED <<current, orphans>>
    BY <1>6 DEF HandlerReturned
  <2>2. /\ at \in Nat /\ outer \in Seq([set : Nat, at : Nat])
        /\ \A i \in 1..Len(outer) : i \in 1..Len(emits) /\ outer[i] = emits[i]
    BY <1>0, <2>1, OuterEmits
  <2>3. Len(emits) \in 1..Len(emits) /\ s = emits[Len(emits)].set
    BY <1>0, <2>1, OuterEmits
  <2>4. /\ s \in DOMAIN sets
        /\ s # current => \A w \in OnceCall : w \in ToSet(sets[s]) => w \in orphans
    BY <1>0, <2>3 DEF EmitterTyped, DetachedOrphans
  <2> HIDE DEF s, at, outer
  <2> QED
    BY <2>1, <2>2, <2>4, IterateKeeps
<1>7. CASE HandlerThrew
  <2>1. emits # <<>> /\ emits' = Front(emits) /\ UNCHANGED <<sets, current, called, orphans>>
    BY <1>7 DEF HandlerThrew
  <2>2. /\ emits' \in Seq([set : Nat, at : Nat])
        /\ \A i \in 1..Len(emits') : i \in 1..Len(emits) /\ emits'[i] = emits[i]
    BY <1>0, <2>1, OuterEmits
  <2>3. EmitterTyped' /\ DetachedOrphans'
    BY <1>0, <2>1, <2>2 DEF EmitterTyped, DetachedOrphans
  <2> QED
    BY <2>1, <2>3 DEF EmitterInv, NoDoubles, InOneSet, CalledOnce
<1>8. CASE UNCHANGED emitterVars
  BY <1>8 DEF emitterVars, EmitterInv, EmitterTyped, NoDoubles, InOneSet, CalledOnce, DetachedOrphans
<1> QED
  BY <1>1, <1>2, <1>3, <1>4, <1>5, <1>6, <1>7, <1>8 DEF EmitterNext

\* For any listeners and once-handlers and however handlers subscribe, unsubscribe, remove
\* all or emit again during an emit, a handler is in a Set once, and a once-handler is
\* called once unless removeAll took its Set away during an emit (on, once, emit).
THEOREM EmitterOnceUnlessOrphaned == EmitterSpec => []OnceUnlessOrphaned
<1>1. EmitterInv => OnceUnlessOrphaned
  BY DEF EmitterInv, NoDoubles, CalledOnce, OnceUnlessOrphaned
<1> QED
  BY <1>1, EmitterStart, EmitterSteps, PTL DEF EmitterSpec

-----------------------------------------------------------------------------
(* The runner of a cron schedule. *)

\* l is the last moment before m that a history of firings fires in.
Latest(history, l, m) ==
  /\ l \in 1..m - 1 /\ history[l] > 0
  /\ \A k \in l + 1..m - 1 : history[k] = 0

RunnerTyped ==
  /\ now \in 1..Len(Moments) /\ lastFiredMinute \in Int
  /\ fired \in [DOMAIN Moments -> Nat] /\ starts \in [DOMAIN Moments -> Nat]
  /\ through \subseteq 1..now - 1

\* What lastFiredMinute is: the number of the last minute fired in, or start()'s -1.
LastFiredKnown ==
  lastFiredMinute # -1 =>
    \E l \in 1..now : Latest(fired, l, now + 1) /\ lastFiredMinute = MinuteNumber(Moments[l])

\* In the present minute: it was fired in and is remembered, or as often as it was started;
\* a tick that did not fire in it found its number remembered.
PresentMinute ==
  /\ fired[now] > 0 => fired[now] <= starts[now] \/ lastFiredMinute = MinuteNumber(Moments[now])
  /\ ticked /\ Due(now) /\ fired[now] = 0 => lastFiredMinute = MinuteNumber(Moments[now])

\* In the minutes up to it.
FiredWhenDue ==
  \A m \in DOMAIN Moments : fired[m] > 0 => Due(m) /\ m <= now
FiredSeldom ==
  \A m \in DOMAIN Moments : fired[m] <= 1 + starts[m]
PassedOver ==
  \A m \in through : Due(m) /\ fired[m] = 0 =>
    \E l \in 1..m - 1 : Latest(fired, l, m) /\ MinuteNumber(Moments[l]) = MinuteNumber(Moments[m])

RunnerInv ==
  RunnerTyped /\ LastFiredKnown /\ PresentMinute /\ FiredWhenDue /\ FiredSeldom /\ PassedOver

LEMMA SumNat ==
  ASSUME NEW a \in Nat, NEW b \in Nat, NEW c \in Nat, NEW d \in Nat, NEW e \in Nat
  PROVE  a * 525960 + b * 43800 + c * 1440 + d * 60 + e \in Nat
BY SMT

LEMMA MomentNumbers ==
  /\ Len(Moments) \in Nat \ {0} /\ DOMAIN Moments = 1..Len(Moments)
  /\ \A m \in 1..Len(Moments) : MinuteNumber(Moments[m]) \in Nat
<1> DEFINE Dates == [year : Nat, month : Nat, date : Nat, hours : Nat, minutes : Nat]
<1>0. Moments \in Seq(Dates) /\ Moments # <<>>
  BY MomentsAssumption
<1> HIDE DEF Dates
<1>1. Len(Moments) \in Nat \ {0} /\ DOMAIN Moments = 1..Len(Moments)
  BY <1>0
<1>2. ASSUME NEW m \in 1..Len(Moments) PROVE MinuteNumber(Moments[m]) \in Nat
  <2> DEFINE date == Moments[m]
  <2>1. date \in Dates
    BY <1>0, <1>1
  <2> HIDE DEF date
  <2>2. /\ date.year \in Nat /\ date.month \in Nat /\ date.date \in Nat
        /\ date.hours \in Nat /\ date.minutes \in Nat
    BY <2>1 DEF Dates
  <2>3. MinuteNumber(date) = date.year * 525960 + date.month * 43800 + date.date * 1440
                               + date.hours * 60 + date.minutes
    BY SMT DEF MinuteNumber
  <2>4. date.year * 525960 + date.month * 43800 + date.date * 1440
          + date.hours * 60 + date.minutes \in Nat
    <3> DEFINE a == date.year
               b == date.month
               c == date.date
               d == date.hours
               e == date.minutes
    <3>1. a \in Nat /\ b \in Nat /\ c \in Nat /\ d \in Nat /\ e \in Nat
      BY <2>2
    <3> HIDE DEF a, b, c, d, e
    <3>2. a * 525960 + b * 43800 + c * 1440 + d * 60 + e \in Nat
      BY <3>1, SumNat, SMT
    <3> QED
      BY <3>2, SMT DEF a, b, c, d, e
  <2> QED
    BY <2>3, <2>4, SMT DEF date
<1> QED
  BY <1>1, <1>2

LEMMA RunnerStart == RunnerInit => RunnerInv
<1> SUFFICES ASSUME RunnerInit PROVE RunnerInv
  OBVIOUS
<1>1. now = 1 /\ lastFiredMinute = -1 /\ ticked = FALSE /\ through = {}
  BY DEF RunnerInit
<1>2. /\ fired = [m \in DOMAIN Moments |-> 0] /\ starts = [m \in DOMAIN Moments |-> 0]
  BY DEF RunnerInit
<1>3. RunnerTyped
  BY <1>1, <1>2, MomentNumbers DEF RunnerTyped
<1>4. LastFiredKnown /\ PassedOver
  BY <1>1 DEF LastFiredKnown, PassedOver
<1>5. PresentMinute
  BY <1>1, <1>2, MomentNumbers DEF PresentMinute
<1>6. FiredWhenDue /\ FiredSeldom
  BY <1>2 DEF FiredWhenDue, FiredSeldom
<1> QED
  BY <1>3, <1>4, <1>5, <1>6 DEF RunnerInv

LEMMA StartRunnerKeeps ==
  ASSUME RunnerInv, StartRunner
  PROVE  RunnerInv'
<1> USE MomentNumbers
<1>0. RunnerTyped /\ PresentMinute /\ FiredWhenDue /\ FiredSeldom /\ PassedOver
  BY DEF RunnerInv
<1>1. /\ lastFiredMinute' = -1 /\ ticked' = FALSE
      /\ starts' = [starts EXCEPT ![now] = @ + 1]
      /\ schedule' = schedule /\ now' = now /\ fired' = fired /\ through' = through
  BY DEF StartRunner
<1>2. RunnerTyped' /\ FiredSeldom'
  BY <1>0, <1>1 DEF RunnerTyped, FiredSeldom
<1>3. LastFiredKnown'
  BY <1>1 DEF LastFiredKnown
<1>4. FiredWhenDue' /\ PassedOver'
  BY <1>0, <1>1 DEF FiredWhenDue, PassedOver, Due
<1>5. PresentMinute'
  <2>1. starts'[now] = starts[now] + 1 /\ fired[now] <= 1 + starts[now]
    BY <1>0, <1>1 DEF RunnerTyped, FiredSeldom
  <2> QED
    BY <1>0, <1>1, <2>1 DEF PresentMinute, RunnerTyped
<1> QED
  BY <1>2, <1>3, <1>4, <1>5 DEF RunnerInv

\* A handler is called in a minute: it is the last one fired in from now on.
LEMMA FireKeeps ==
  ASSUME RunnerInv, Due(now), MinuteNumber(Moments[now]) # lastFiredMinute, Fire,
         UNCHANGED <<schedule, now, starts, through>>
  PROVE  RunnerInv'
<1> USE MomentNumbers
<1>0. RunnerTyped /\ PresentMinute /\ FiredWhenDue /\ FiredSeldom /\ PassedOver
  BY DEF RunnerInv
<1>1. /\ now \in 1..Len(Moments) /\ fired \in [DOMAIN Moments -> Nat]
      /\ starts \in [DOMAIN Moments -> Nat] /\ through \subseteq 1..now - 1
  BY <1>0 DEF RunnerTyped
<1>2. /\ fired' \in [DOMAIN Moments -> Nat] /\ fired'[now] = fired[now] + 1
      /\ \A m \in DOMAIN Moments : m # now => fired'[m] = fired[m]
      /\ lastFiredMinute' = MinuteNumber(Moments[now])
  BY <1>1 DEF Fire
<1>3. RunnerTyped'
  BY <1>1, <1>2 DEF RunnerTyped
<1>4. LastFiredKnown'
  <2>1. Latest(fired', now, now + 1)
    BY <1>1, <1>2 DEF Latest
  <2> QED
    BY <1>1, <1>2, <2>1 DEF LastFiredKnown
<1>5. PresentMinute'
  BY <1>1, <1>2 DEF PresentMinute
<1>6. FiredWhenDue'
  BY <1>0, <1>1, <1>2 DEF FiredWhenDue, Due
<1>7. FiredSeldom'
  <2>1. fired'[now] <= 1 + starts[now]
    <3>1. fired[now] \in Nat /\ starts[now] \in Nat
      BY <1>1
    <3>2. fired[now] > 0 => fired[now] <= starts[now]
      BY <1>0 DEF PresentMinute
    <3> QED
      BY <1>2, <3>1, <3>2
  <2>2. \A m \in DOMAIN Moments : m # now => fired'[m] <= 1 + starts[m]
    BY <1>0, <1>2 DEF FiredSeldom
  <2>3. starts' = starts
    OBVIOUS
  <2> QED
    BY <2>1, <2>2, <2>3 DEF FiredSeldom
<1>8. PassedOver'
  <2>0. \A m \in through : m \in DOMAIN Moments /\ m # now /\ fired'[m] = fired[m] /\ m - 1 < now
    BY <1>1, <1>2
  <2> SUFFICES ASSUME NEW m \in through, Due(m), fired[m] = 0
               PROVE  \E l \in 1..m - 1 :
                        Latest(fired', l, m) /\ MinuteNumber(Moments[l]) = MinuteNumber(Moments[m])
    BY <2>0 DEF PassedOver, Due
  <2>1. PICK l \in 1..m - 1 :
          Latest(fired, l, m) /\ MinuteNumber(Moments[l]) = MinuteNumber(Moments[m])
    BY <1>0 DEF PassedOver
  <2>3. m \in Nat /\ l \in Nat \ {0} /\ l <= m - 1 /\ m - 1 < now
    BY <1>1, <2>0, <2>1
  <2>2. ASSUME NEW k \in l..m - 1 PROVE fired'[k] = fired[k]
    <3>1. k \in 1..Len(Moments) /\ k # now
      BY <1>1, <2>3
    <3> QED
      BY <1>2, <3>1
  <2>4. Latest(fired', l, m)
    BY <2>1, <2>2, <2>3 DEF Latest
  <2> QED
    BY <2>1, <2>4
<1> QED
  BY <1>3, <1>4, <1>5, <1>6, <1>7, <1>8 DEF RunnerInv

LEMMA TickKeeps ==
  ASSUME RunnerInv, RunnerTick
  PROVE  RunnerInv'
<1>1. UNCHANGED <<schedule, now, starts, through>>
  BY DEF RunnerTick
<1>2. CASE Due(now) /\ MinuteNumber(Moments[now]) # lastFiredMinute /\ Fire
  BY <1>1, <1>2, FireKeeps
<1>3. CASE /\ ~Due(now) \/ MinuteNumber(Moments[now]) = lastFiredMinute
           /\ UNCHANGED <<fired, lastFiredMinute>>
  BY <1>1, <1>3 DEF RunnerInv, RunnerTyped, LastFiredKnown, PresentMinute, FiredWhenDue,
                    FiredSeldom, PassedOver, Due
<1> QED
  BY <1>2, <1>3 DEF RunnerTick

\* A minute ends: if the runner ran through it, it saw a tick.
LEMMA MinuteKeeps ==
  ASSUME RunnerInv, MinutePasses
  PROVE  RunnerInv'
<1> USE MomentNumbers
<1>0. RunnerTyped /\ LastFiredKnown /\ PresentMinute /\ FiredWhenDue /\ FiredSeldom /\ PassedOver
  BY DEF RunnerInv
<1>1. /\ now \in 1..Len(Moments) /\ fired \in [DOMAIN Moments -> Nat]
      /\ starts \in [DOMAIN Moments -> Nat] /\ through \subseteq 1..now - 1
  BY <1>0 DEF RunnerTyped
<1>2. /\ now < Len(Moments) /\ now' = now + 1 /\ ticked' = FALSE
      /\ schedule' = schedule /\ lastFiredMinute' = lastFiredMinute
      /\ fired' = fired /\ starts' = starts
      /\ through' = through \/ (through' = through \cup {now} /\ ticked)
  BY DEF MinutePasses
<1>3. now + 1 \in 1..Len(Moments) /\ fired[now + 1] = 0
  <2>1. now + 1 \in DOMAIN Moments /\ ~(now + 1 <= now)
    BY <1>1, <1>2
  <2>2. fired[now + 1] \in Nat /\ ~(fired[now + 1] > 0)
    BY <1>0, <1>1, <2>1 DEF FiredWhenDue
  <2> QED
    BY <2>1, <2>2
<1>4. RunnerTyped'
  <2>1. now' - 1 = now /\ now \in 1..now /\ 1..now - 1 \subseteq 1..now
    BY <1>1, <1>2
  <2>2. now' \in 1..Len(Moments)
    BY <1>2, <1>3
  <2>3. through' \subseteq 1..now' - 1
    BY <1>1, <1>2, <2>1
  <2> QED
    BY <1>0, <1>2, <2>2, <2>3 DEF RunnerTyped
<1>5. LastFiredKnown'
  <2> SUFFICES ASSUME lastFiredMinute # -1
               PROVE  \E l \in 1..now + 1 : Latest(fired, l, now + 2)
                                              /\ lastFiredMinute = MinuteNumber(Moments[l])
    BY <1>1, <1>2 DEF LastFiredKnown
  <2>1. PICK l \in 1..now : Latest(fired, l, now + 1) /\ lastFiredMinute = MinuteNumber(Moments[l])
    BY <1>0 DEF LastFiredKnown
  <2>2. Latest(fired, l, now + 2)
    BY <1>1, <1>3, <2>1 DEF Latest
  <2> QED
    BY <1>1, <2>1, <2>2
<1>6. PresentMinute'
  BY <1>2, <1>3 DEF PresentMinute
<1>7. FiredWhenDue' /\ FiredSeldom'
  BY <1>0, <1>1, <1>2 DEF FiredWhenDue, FiredSeldom, Due
<1>8. PassedOver'
  <2>1. ASSUME ticked, Due(now), fired[now] = 0
        PROVE  \E l \in 1..now - 1 : Latest(fired, l, now)
                                       /\ MinuteNumber(Moments[l]) = MinuteNumber(Moments[now])
    <3>1. lastFiredMinute = MinuteNumber(Moments[now])
      BY <1>0, <2>1 DEF PresentMinute
    <3>2. lastFiredMinute # -1
      BY <1>1, <3>1
    <3>3. PICK l \in 1..now : Latest(fired, l, now + 1) /\ lastFiredMinute = MinuteNumber(Moments[l])
      BY <1>0, <3>2 DEF LastFiredKnown
    <3>4. l # now
      BY <1>1, <2>1, <3>3 DEF Latest
    <3>5. l \in 1..now - 1 /\ Latest(fired, l, now)
      BY <1>1, <3>3, <3>4 DEF Latest
    <3> QED
      BY <3>1, <3>3, <3>5
  <2> QED
    BY <1>0, <1>2, <2>1 DEF PassedOver, Due
<1> QED
  BY <1>4, <1>5, <1>6, <1>7, <1>8 DEF RunnerInv

LEMMA RunnerSteps == RunnerInv /\ [RunnerNext]_runnerVars => RunnerInv'
<1> SUFFICES ASSUME RunnerInv, [RunnerNext]_runnerVars PROVE RunnerInv'
  OBVIOUS
<1>1. CASE StopRunner \/ UNCHANGED runnerVars
  <2>1. UNCHANGED <<schedule, now, lastFiredMinute, ticked, fired, starts, through>>
    BY <1>1 DEF StopRunner, runnerVars
  <2> QED
    BY <2>1 DEF RunnerInv, RunnerTyped, LastFiredKnown, PresentMinute, FiredWhenDue, FiredSeldom,
                PassedOver, Due
<1> QED
  BY <1>1, StartRunnerKeeps, TickKeeps, MinuteKeeps DEF RunnerNext

\* The last moment fired in is the greatest of those.
LEMMA LatestIs ==
  ASSUME RunnerInv, NEW m \in 1..Len(Moments), NEW l, Latest(fired, l, m)
  PROVE  LastFiredBefore(m) = l
<1> DEFINE before == {k \in 1..m - 1 : fired[k] > 0}
<1>1. /\ l \in before /\ l \in 1..m - 1 /\ l # 0
      /\ \A k \in before : k <= l
  BY MomentNumbers DEF RunnerInv, RunnerTyped, Latest
<1>2. before \subseteq Nat
  OBVIOUS
<1>3. LastFiredBefore(m) = Max(before)
  BY <1>1 DEF LastFiredBefore
<1> HIDE DEF before
<1>4. l \in before /\ \A y \in before : l >= y
  BY <1>1, <1>2
<1>5. Max(before) \in before /\ \A y \in before : Max(before) >= y
  BY <1>4, Zenon DEF Max
<1> DEFINE x == Max(before)
<1>7. x \in Nat /\ l \in Nat /\ x >= l /\ l >= x
  BY <1>2, <1>4, <1>5
<1> HIDE DEF x
<1>6. x = l
  BY <1>7
<1> QED
  BY <1>3, <1>6 DEF x

LEMMA RunnerFires == RunnerInv => FiresOncePerMinute
<1> SUFFICES ASSUME RunnerInv, NEW m \in DOMAIN Moments
             PROVE  /\ fired[m] > 0 => Due(m)
                    /\ fired[m] <= 1 + starts[m]
                    /\ m \in through /\ Due(m) /\ fired[m] = 0 =>
                         /\ LastFiredBefore(m) # 0
                         /\ MinuteNumber(Moments[LastFiredBefore(m)]) = MinuteNumber(Moments[m])
  BY DEF FiresOncePerMinute
<1>1. (fired[m] > 0 => Due(m)) /\ fired[m] <= 1 + starts[m]
  BY DEF RunnerInv, FiredWhenDue, FiredSeldom
<1>2. ASSUME m \in through, Due(m), fired[m] = 0
      PROVE  /\ LastFiredBefore(m) # 0
             /\ MinuteNumber(Moments[LastFiredBefore(m)]) = MinuteNumber(Moments[m])
  <2>1. PICK l \in 1..m - 1 :
          Latest(fired, l, m) /\ MinuteNumber(Moments[l]) = MinuteNumber(Moments[m])
    BY <1>2 DEF RunnerInv, PassedOver
  <2>2. LastFiredBefore(m) = l
    BY <2>1, LatestIs, MomentNumbers
  <2> QED
    BY <2>1, <2>2, MomentNumbers
<1> QED
  BY <1>1, <1>2

-----------------------------------------------------------------------------
(* The search for the next occurrence. *)

\* h is the recursion of DaysBefore, up to n.
BeforeUpTo(h, n) ==
  /\ h = [m \in Nat |-> h[m]]
  /\ \A m \in 0..n : h[m] = IF m <= 1 THEN 0 ELSE h[m - 1] + DaysIn[m - 1]

\* The days before each month are what the recursion says.
LEMMA BeforeExists == \A n \in Nat : \E h : BeforeUpTo(h, n)
<1> DEFINE P == {n \in Nat : \E h : BeforeUpTo(h, n)}
<1>1. 0 \in P
  <2> DEFINE h == [m \in Nat |-> 0]
  <2>1. h = [m \in Nat |-> h[m]] /\ \A m \in 0..0 : m <= 1 /\ h[m] = 0
    OBVIOUS
  <2> HIDE DEF h
  <2>2. BeforeUpTo(h, 0)
    BY <2>1 DEF BeforeUpTo
  <2> QED
    BY <2>2
<1>2. ASSUME NEW n \in Nat, n \in P PROVE n + 1 \in P
  <2>1. PICK h : BeforeUpTo(h, n)
    BY <1>2
  <2> DEFINE g == [m \in Nat |-> IF m <= n THEN h[m]
                                 ELSE IF m <= 1 THEN 0 ELSE h[m - 1] + DaysIn[m - 1]]
  <2>2. /\ g = [m \in Nat |-> g[m]]
        /\ \A m \in Nat : m <= n => g[m] = h[m]
        /\ g[n + 1] = IF n + 1 <= 1 THEN 0 ELSE h[n] + DaysIn[n]
    OBVIOUS
  <2> HIDE DEF g
  <2>3. ASSUME NEW m \in 0..n + 1
        PROVE  g[m] = IF m <= 1 THEN 0 ELSE g[m - 1] + DaysIn[m - 1]
    <3>1. CASE m <= n
      <4>1. m \in 0..n /\ g[m] = h[m] /\ (~(m <= 1) => g[m - 1] = h[m - 1])
        BY <2>2, <3>1
      <4> QED
        BY <2>1, <4>1 DEF BeforeUpTo
    <3>2. CASE m = n + 1
      <4>1. g[n] = h[n] /\ m - 1 = n
        BY <2>2, <3>2
      <4> QED
        BY <2>2, <3>2, <4>1
    <3> QED
      BY <3>1, <3>2
  <2>4. BeforeUpTo(g, n + 1)
    BY <2>2, <2>3 DEF BeforeUpTo
  <2> QED
    BY <2>4
<1> HIDE DEF P
<1>3. \A n \in Nat : n \in P
  BY <1>1, <1>2, NatSetInduction
<1> QED
  BY <1>3 DEF P

\* Two of them agree as far as both go.
LEMMA BeforeUnique ==
  ASSUME NEW n \in Nat, NEW k \in Nat, n <= k, NEW h, NEW g, BeforeUpTo(h, n), BeforeUpTo(g, k)
  PROVE  h[n] = g[n]
<1> DEFINE P == {m \in Nat : m <= n => h[m] = g[m]}
<1>1. 0 \in P
  <2>1. 0 \in 0..n /\ 0 \in 0..k
    OBVIOUS
  <2>2. /\ h[0] = IF 0 <= 1 THEN 0 ELSE h[0 - 1] + DaysIn[0 - 1]
        /\ g[0] = IF 0 <= 1 THEN 0 ELSE g[0 - 1] + DaysIn[0 - 1]
    BY <2>1, Zenon DEF BeforeUpTo
  <2> QED
    BY <2>2
<1>2. ASSUME NEW m \in Nat, m \in P PROVE m + 1 \in P
  <2> SUFFICES ASSUME m + 1 <= n PROVE h[m + 1] = g[m + 1]
    OBVIOUS
  <2>1. m + 1 \in 0..n /\ m + 1 \in 0..k /\ h[m] = g[m] /\ (m + 1) - 1 = m
    BY <1>2
  <2> QED
    BY <2>1 DEF BeforeUpTo
<1> HIDE DEF P
<1>3. n \in P
  BY <1>1, <1>2, NatSetInduction
<1> QED
  BY <1>3 DEF P

LEMMA DaysBeforeIs ==
  \A m \in Nat : DaysBefore[m] = IF m <= 1 THEN 0 ELSE DaysBefore[m - 1] + DaysIn[m - 1]
<1> DEFINE F(g) == [m \in Nat |-> IF m <= 1 THEN 0 ELSE g[m - 1] + DaysIn[m - 1]]
           some(n) == CHOOSE h : BeforeUpTo(h, n)
           all == [m \in Nat |-> some(m)[m]]
<1>1. \A n \in Nat : BeforeUpTo(some(n), n)
  BY BeforeExists
<1> HIDE DEF some
<1>2. \A m \in Nat : all[m] = IF m <= 1 THEN 0 ELSE all[m - 1] + DaysIn[m - 1]
  <2> SUFFICES ASSUME NEW m \in Nat
               PROVE  all[m] = IF m <= 1 THEN 0 ELSE all[m - 1] + DaysIn[m - 1]
    OBVIOUS
  <2>1. some(m)[m] = IF m <= 1 THEN 0 ELSE some(m)[m - 1] + DaysIn[m - 1]
    <3>1. m \in 0..m
      OBVIOUS
    <3> QED
      BY <1>1, <3>1 DEF BeforeUpTo
  <2>2. ~(m <= 1) => some(m)[m - 1] = some(m - 1)[m - 1]
    BY <1>1, BeforeUnique
  <2> QED
    BY <2>1, <2>2
<1>3. all = F(all)
  BY <1>2
<1>4. DaysBefore = CHOOSE g : g = F(g)
  BY DEF DaysBefore
<1> HIDE DEF all
<1>5. DaysBefore = F(DaysBefore)
  BY <1>3, <1>4
<1> QED
  BY <1>5

\* The year: months of a day or more.
LEMMA YearFacts ==
  /\ Len(DaysIn) \in Nat \ {0} /\ DOMAIN DaysIn = 1..Len(DaysIn)
  /\ \A m \in 1..Len(DaysIn) : /\ DaysIn[m] \in Nat \ {0}
                               /\ DaysBefore[m] \in Nat
                               /\ DaysBefore[m + 1] = DaysBefore[m] + DaysIn[m]
  /\ DaysBefore[1] = 0
  /\ DaysInYear \in Nat \ {0}
<1>1. /\ Len(DaysIn) \in Nat \ {0} /\ DOMAIN DaysIn = 1..Len(DaysIn)
      /\ \A m \in 1..Len(DaysIn) : DaysIn[m] \in Nat \ {0}
  BY CalendarAssumption
<1>2. \A m \in Nat \ {0} : DaysBefore[m + 1] = DaysBefore[m] + DaysIn[m]
  <2> SUFFICES ASSUME NEW m \in Nat \ {0} PROVE DaysBefore[m + 1] = DaysBefore[m] + DaysIn[m]
    OBVIOUS
  <2>1. m + 1 \in Nat /\ ~(m + 1 <= 1) /\ (m + 1) - 1 = m
    OBVIOUS
  <2> QED
    BY <2>1, DaysBeforeIs
<1>3. DaysBefore[1] = 0
  BY DaysBeforeIs
<1> DEFINE P == {n \in Nat : n <= Len(DaysIn) => DaysBefore[n + 1] \in Nat}
<1>4. \A n \in Nat : n \in P
  <2>1. 0 \in P
    BY <1>3
  <2>2. ASSUME NEW n \in Nat, n \in P PROVE n + 1 \in P
    <3> SUFFICES ASSUME n + 1 <= Len(DaysIn) PROVE DaysBefore[(n + 1) + 1] \in Nat
      OBVIOUS
    <3>1. n + 1 \in 1..Len(DaysIn) /\ n + 1 \in Nat \ {0} /\ DaysBefore[n + 1] \in Nat
      BY <1>1, <2>2
    <3>2. DaysBefore[(n + 1) + 1] = DaysBefore[n + 1] + DaysIn[n + 1] /\ DaysIn[n + 1] \in Nat
      BY <1>1, <1>2, <3>1
    <3> QED
      BY <3>1, <3>2
  <2> HIDE DEF P
  <2> QED
    BY <2>1, <2>2, NatSetInduction
<1>5. \A m \in 1..Len(DaysIn) : DaysBefore[m] \in Nat
  <2> TAKE m \in 1..Len(DaysIn)
  <2>1. m - 1 \in Nat /\ m - 1 <= Len(DaysIn) /\ (m - 1) + 1 = m
    BY <1>1
  <2>2. m - 1 \in P
    BY <1>4, <2>1
  <2> QED
    BY <2>1, <2>2
<1>6. DaysInYear \in Nat \ {0}
  <2>1. Len(DaysIn) \in 1..Len(DaysIn) /\ Len(DaysIn) \in Nat \ {0}
    BY <1>1
  <2>2. /\ DaysIn[Len(DaysIn)] \in Nat \ {0} /\ DaysBefore[Len(DaysIn)] \in Nat
        /\ DaysInYear = DaysBefore[Len(DaysIn)] + DaysIn[Len(DaysIn)]
    BY <1>1, <1>2, <1>5, <2>1 DEF DaysInYear
  <2> QED
    BY <2>2
<1>7. \A m \in 1..Len(DaysIn) : m \in Nat \ {0}
  BY <1>1
<1>8. \A m \in 1..Len(DaysIn) : DaysBefore[m + 1] = DaysBefore[m] + DaysIn[m]
  BY <1>2, <1>7
<1> QED
  BY <1>1, <1>3, <1>5, <1>6, <1>8

\* A later month begins later.
LEMMA LaterMonth ==
  ASSUME NEW m \in 1..Len(DaysIn), NEW k \in 1..Len(DaysIn), m < k
  PROVE  DaysBefore[m + 1] <= DaysBefore[k]
<1> DEFINE P == {i \in Nat : m + 1 + i <= Len(DaysIn) => DaysBefore[m + 1] <= DaysBefore[m + 1 + i]}
<1>0. Len(DaysIn) \in Nat
  BY YearFacts
<1>1. 0 \in P
  <2> SUFFICES ASSUME m + 1 <= Len(DaysIn) PROVE DaysBefore[m + 1] <= DaysBefore[m + 1 + 0]
    OBVIOUS
  <2>1. m + 1 \in 1..Len(DaysIn) /\ m + 1 + 0 = m + 1
    BY <1>0
  <2>2. DaysBefore[m + 1] \in Nat
    BY <2>1, YearFacts
  <2> QED
    BY <2>1, <2>2
<1>2. ASSUME NEW i \in Nat, i \in P PROVE i + 1 \in P
  <2> SUFFICES ASSUME m + 1 + (i + 1) <= Len(DaysIn)
               PROVE  DaysBefore[m + 1] <= DaysBefore[m + 1 + (i + 1)]
    OBVIOUS
  <2> DEFINE j == m + 1 + i
  <2>1. j \in 1..Len(DaysIn) /\ m + 1 \in 1..Len(DaysIn) /\ m + 1 + (i + 1) = j + 1
    BY <1>0
  <2>2. DaysBefore[m + 1] <= DaysBefore[j]
    BY <1>2, <2>1
  <2>3. DaysBefore[m + 1] \in Nat /\ DaysBefore[j] \in Nat /\ DaysIn[j] \in Nat
        /\ DaysBefore[j + 1] = DaysBefore[j] + DaysIn[j]
    BY <2>1, YearFacts
  <2> QED
    BY <2>1, <2>2, <2>3
<1> HIDE DEF P
<1>3. k - (m + 1) \in Nat /\ m + 1 + (k - (m + 1)) = k
  BY <1>0
<1>4. k - (m + 1) \in P
  BY <1>1, <1>2, <1>3, NatSetInduction
<1> QED
  BY <1>0, <1>3, <1>4 DEF P

-----------------------------------------------------------------------------
\* The day is d, in the year of day y that month m begins the m-th of.
LEMMA MonthIs ==
  ASSUME NEW d \in Nat
  PROVE  /\ MonthOf(d) \in 1..Len(DaysIn)
         /\ DaysBefore[MonthOf(d)] <= d % DaysInYear
         /\ d % DaysInYear < DaysBefore[MonthOf(d) + 1]
         /\ DaysBefore[MonthOf(d) + 1] <= DaysInYear
<1> DEFINE y == d % DaysInYear
           reached == {m \in DOMAIN DaysIn : DaysBefore[m] <= y}
           L == Len(DaysIn)
<1>1. L \in Nat \ {0} /\ DOMAIN DaysIn = 1..L /\ DaysInYear \in Nat \ {0}
  BY YearFacts
<1>2. y \in 0..DaysInYear - 1 /\ y \in Nat
  <2>1. d \in Int /\ DaysInYear \in Nat \ {0}
    BY <1>1
  <2>2. d % DaysInYear \in 0..DaysInYear - 1
    BY ONLY <2>1, DivMod, Zenon
  <2> QED
    BY <1>1, <2>2
<1> HIDE DEF y
<1>3. 1 \in reached /\ reached \subseteq 1..L
  BY <1>1, <1>2, YearFacts
<1>4. MonthOf(d) = Max(reached)
  BY DEF MonthOf, y
<1>5. \E x \in reached : \A z \in reached : x >= z
  <2> DEFINE above == {i \in Nat : \A z \in reached : z <= i}
  <2>1. L \in above
    BY <1>1, <1>3
  <2>2. PICK x \in above : \A i \in above : x <= i
    BY <2>1, LeastExists
  <2>3. x \in reached
    <3> SUFFICES ASSUME x \notin reached PROVE FALSE
      OBVIOUS
    <3>1. x \in Nat /\ \A z \in reached : z <= x /\ z # x /\ z \in Nat
      BY <1>1, <1>3, <2>2
    <3>2. x >= 1
      BY <1>3, <3>1
    <3>3. x - 1 \in above
      BY <3>1, <3>2
    <3> QED
      BY <2>2, <3>1, <3>3
  <2>4. \A z \in reached : x >= z
    BY <1>1, <1>3, <2>2
  <2> QED
    BY <2>3, <2>4
<1>6. Max(reached) \in reached /\ \A z \in reached : Max(reached) >= z
  BY <1>5, Zenon DEF Max
<1> DEFINE m == MonthOf(d)
<1>7. m \in reached /\ \A z \in reached : m >= z
  BY <1>4, <1>6
<1> HIDE DEF m
<1>8. m \in 1..L /\ DaysBefore[m] <= y
  BY <1>3, <1>7
<1>9. CASE m = L
  BY <1>1, <1>2, <1>8, <1>9 DEF DaysInYear, m, y
<1>10. CASE m < L
  <2>1. m + 1 \in 1..L /\ m + 1 \notin reached
    BY <1>1, <1>7, <1>8, <1>10
  <2>2. DaysBefore[m + 1] \in Nat /\ y < DaysBefore[m + 1]
    BY <1>1, <1>2, <2>1, YearFacts
  <2>3. DaysBefore[m + 1] <= DaysBefore[L]
    BY <1>1, <1>8, <1>10, LaterMonth
  <2>4. L \in 1..L /\ DaysBefore[L] \in Nat /\ DaysIn[L] \in Nat /\ DaysInYear = DaysBefore[L] + DaysIn[L]
    BY <1>1, YearFacts DEF DaysInYear
  <2>5. DaysBefore[m + 1] <= DaysInYear
    BY <2>2, <2>3, <2>4
  <2> QED
    BY <1>8, <2>2, <2>5 DEF m, y
<1>11. m = L \/ m < L
  <2>1. m \in 1..L /\ L \in Nat
    BY <1>1, <1>8
  <2> HIDE DEF L
  <2> QED
    BY <2>1
<1> QED
  BY <1>9, <1>10, <1>11, Zenon

\* A day from the first of a month up to the next one is in that month.
LEMMA MonthUnique ==
  ASSUME NEW d \in Nat, NEW m \in 1..Len(DaysIn),
         DaysBefore[m] <= d % DaysInYear, d % DaysInYear < DaysBefore[m + 1]
  PROVE  MonthOf(d) = m
<1> DEFINE k == MonthOf(d)
           y == d % DaysInYear
<1>1. /\ k \in 1..Len(DaysIn) /\ DaysBefore[k] <= y /\ y < DaysBefore[k + 1]
  BY MonthIs
<1>2. y \in Nat
  <2>1. d \in Int /\ DaysInYear \in Nat \ {0}
    BY YearFacts
  <2>2. d % DaysInYear \in 0..DaysInYear - 1
    BY ONLY <2>1, DivMod, Zenon
  <2> QED
    BY <2>1, <2>2
<1>3. DaysBefore[m] <= y /\ y < DaysBefore[m + 1]
  OBVIOUS
<1> HIDE DEF k, y
<1>4. /\ Len(DaysIn) \in Nat
      /\ \A i \in 1..Len(DaysIn) : DaysBefore[i] \in Nat /\ DaysBefore[i + 1] \in Nat
  <2>1. \A i \in 1..Len(DaysIn) : DaysBefore[i] \in Nat /\ DaysIn[i] \in Nat
                                    /\ DaysBefore[i + 1] = DaysBefore[i] + DaysIn[i]
    BY YearFacts
  <2>2. \A i \in 1..Len(DaysIn) : DaysBefore[i + 1] \in Nat
    <3> TAKE i \in 1..Len(DaysIn)
    <3>1. DaysBefore[i] \in Nat /\ DaysIn[i] \in Nat /\ DaysBefore[i + 1] = DaysBefore[i] + DaysIn[i]
      BY <2>1
    <3> QED
      BY <3>1
  <2> QED
    BY <2>1, <2>2, YearFacts
<1>5. ~(k < m)
  <2> SUFFICES ASSUME k < m PROVE FALSE
    OBVIOUS
  <2>1. DaysBefore[k + 1] <= DaysBefore[m]
    BY <1>1, LaterMonth
  <2>2. DaysBefore[k + 1] \in Nat /\ DaysBefore[m] \in Nat
    BY <1>1, <1>4
  <2> QED
    BY <1>1, <1>2, <1>3, <2>1, <2>2
<1>6. ~(m < k)
  <2> SUFFICES ASSUME m < k PROVE FALSE
    OBVIOUS
  <2>1. DaysBefore[m + 1] <= DaysBefore[k]
    BY <1>1, LaterMonth
  <2>2. DaysBefore[m + 1] \in Nat /\ DaysBefore[k] \in Nat
    BY <1>1, <1>4
  <2> QED
    BY <1>1, <1>2, <1>3, <2>1, <2>2
<1>7. k = m
  BY <1>1, <1>4, <1>5, <1>6
<1> QED
  BY <1>7 DEF k

-----------------------------------------------------------------------------
\* The hour a minute is in, numbered from 0.
HourNumber(t) == t \div MinutesInHour

LEMMA ClockFacts ==
  ASSUME NEW t \in Nat
  PROVE  /\ HourNumber(t) \in Nat /\ DayOf(t) \in Nat /\ MinutesInDay \in Nat \ {0}
         /\ Date(t).hour = HourNumber(t) % HoursInDay
         /\ DayOf(t) = HourNumber(t) \div HoursInDay
         /\ HourNumber(t) * MinutesInHour <= t /\ t < StartOfNextHour(t)
         /\ DayOf(t) * MinutesInDay <= t /\ t < StartOfNextDay(t)
         /\ StartOfNextHour(t) \in Nat /\ StartOfNextDay(t) \in Nat
<1> DEFINE H == HoursInDay
           M == MinutesInHour
           q == t \div M
           r == t % M
           a == q \div H
           b == q % H
<1>0. H \in Nat \ {0} /\ M \in Nat \ {0} /\ MinutesInDay = H * M
  BY CalendarAssumption DEF MinutesInDay
<1>1. q \in Nat /\ r \in 0..M - 1 /\ t = q * M + r
  <2>1. t \in Int /\ M \in Nat \ {0}
    BY <1>0
  <2>2. r \in 0..M - 1 /\ t = q * M + r
    BY ONLY <2>1, DivMod, Zenon
  <2>3. q \in Nat
    BY <2>1, DivNat
  <2> QED
    BY <2>2, <2>3
<1>2. HourNumber(t) = q /\ StartOfNextHour(t) = (q + 1) * M
      /\ DayOf(t) = t \div MinutesInDay /\ StartOfNextDay(t) = (DayOf(t) + 1) * MinutesInDay
      /\ Date(t).hour = (t % MinutesInDay) \div M
  BY DEF HourNumber, StartOfNextHour, StartOfNextDay, Date, DayOf
<1>3. a \in Nat /\ b \in 0..H - 1 /\ q = a * H + b
  <2> HIDE DEF q
  <2>1. q \in Int /\ H \in Nat \ {0}
    BY <1>0, <1>1
  <2>2. b \in 0..H - 1 /\ q = a * H + b
    BY ONLY <2>1, DivMod, Zenon
  <2>3. a \in Nat
    BY <1>1, <2>1, DivNat
  <2> QED
    BY <2>2, <2>3
<1> HIDE DEF q, r, a, b, H, M
<1>4. MinutesInDay \in Nat \ {0} /\ H * M \in Nat \ {0}
  <2>1. H * M >= 1
    BY <1>0
  <2> QED
    BY <1>0, <2>1
<1>5. t = a * (H * M) + (b * M + r)
  <2>1. (a * H + b) * M = a * (H * M) + b * M
    BY <1>0, <1>1, <1>3
  <2>2. b * M \in Nat /\ a * (H * M) \in Nat /\ q * M \in Nat
    BY <1>0, <1>1, <1>3, <1>4
  <2> QED
    BY <1>1, <1>3, <2>1, <2>2
<1>6. b * M + r \in 0..H * M - 1
  <2>1. b + 1 <= H
    BY <1>0, <1>3
  <2>2. (b + 1) * M <= H * M
    BY <1>0, <1>3, <2>1, TimesMonotone
  <2>3. (b + 1) * M = b * M + M /\ b * M \in Nat
    BY <1>0, <1>3
  <2> QED
    BY <1>0, <1>1, <1>4, <2>2, <2>3
<1>7. t \div (H * M) = a /\ t % (H * M) = b * M + r
  <2> DEFINE D == H * M
             c == b * M + r
  <2>1. D \in Nat \ {0} /\ a \in Int /\ c \in 0..D - 1 /\ t \in Int /\ t = a * D + c
    BY <1>3, <1>4, <1>5, <1>6
  <2> HIDE DEF D, c
  <2>2. t \div D = a /\ t % D = c
    BY <2>1, DivIs
  <2> QED
    BY <2>2 DEF D, c
<1>8. (b * M + r) \div M = b
  <2> DEFINE c == b * M + r
  <2>1. c \in Int /\ b \in Int /\ M \in Nat \ {0} /\ c = b * M + r
    BY <1>0, <1>1, <1>3
  <2> HIDE DEF c
  <2>2. c \div M = b
    BY <1>1, <2>1, DivIs
  <2> QED
    BY <2>2 DEF c
<1>9. DayOf(t) = a /\ Date(t).hour = b
  BY <1>0, <1>2, <1>7, <1>8 DEF M
<1>10. q * M <= t /\ t < (q + 1) * M /\ (q + 1) * M \in Nat
  <2>1. q * M \in Nat /\ (q + 1) * M = q * M + M
    BY <1>0, <1>1
  <2> QED
    BY <1>0, <1>1, <2>1
<1>11. a * (H * M) <= t /\ t < (a + 1) * (H * M) /\ (a + 1) * (H * M) \in Nat
  <2>1. a * (H * M) \in Nat /\ (a + 1) * (H * M) = a * (H * M) + H * M
    BY <1>3, <1>4
  <2> QED
    BY <1>4, <1>5, <1>6, <2>1
<1>12. HourNumber(t) % HoursInDay = b /\ HourNumber(t) \div HoursInDay = a
  BY <1>2 DEF a, b, H
<1>13. HourNumber(t) * MinutesInHour = q * M /\ StartOfNextHour(t) = (q + 1) * M
  BY <1>2 DEF M
<1> QED
  BY <1>0, <1>1, <1>2, <1>3, <1>4, <1>9, <1>10, <1>11, <1>12, <1>13

LEMMA DivBetween ==
  ASSUME NEW b \in Nat \ {0}, NEW q \in Nat, NEW t \in Nat, q * b <= t, t < (q + 1) * b
  PROVE  t \div b = q
<1> DEFINE r == t - q * b
<1>1. q * b \in Nat /\ (q + 1) * b = q * b + b
  OBVIOUS
<1>2. r \in 0..b - 1 /\ t = q * b + r
  BY <1>1
<1>3. t \in Int /\ q \in Int
  OBVIOUS
<1> HIDE DEF r
<1> QED
  BY <1>2, <1>3, DivIs

LEMMA TimesBelow ==
  ASSUME NEW b \in Nat \ {0}, NEW a \in Int, NEW c \in Int, a * b < c * b
  PROVE  a < c
<1> SUFFICES ASSUME c <= a PROVE FALSE
  OBVIOUS
<1>1. c * b <= a * b
  BY TimesMonotone
<1>2. c * b \in Int /\ a * b \in Int
  OBVIOUS
<1> QED
  BY <1>1, <1>2

\* Up to the start of the next hour it is the same hour, of the same day.
LEMMA SameHour ==
  ASSUME NEW t \in Nat, NEW u \in Nat, t <= u, u < StartOfNextHour(t)
  PROVE  Date(u).hour = Date(t).hour /\ DayOf(u) = DayOf(t)
<1> DEFINE q == HourNumber(t)
           M == MinutesInHour
<1>1. q \in Nat /\ q * M <= t /\ StartOfNextHour(t) = (q + 1) * M /\ M \in Nat \ {0}
  BY ClockFacts, CalendarAssumption DEF HourNumber, StartOfNextHour
<1> HIDE DEF q, M
<1>2. q * M <= u /\ u < (q + 1) * M
  <2>1. q * M \in Nat
    BY <1>1
  <2> QED
    BY <1>1, <2>1
<1>3. u \div M = q
  BY <1>1, <1>2, DivBetween
<1>4. HourNumber(u) = HourNumber(t)
  BY <1>3 DEF HourNumber, q, M
<1> QED
  BY <1>4, ClockFacts

\* Up to the start of the next day it is the same day.
LEMMA SameDay ==
  ASSUME NEW t \in Nat, NEW u \in Nat, t <= u, u < StartOfNextDay(t)
  PROVE  DayOf(u) = DayOf(t)
<1> DEFINE d == DayOf(t)
           D == MinutesInDay
<1>1. d \in Nat /\ d * D <= t /\ StartOfNextDay(t) = (d + 1) * D /\ D \in Nat \ {0}
  BY ClockFacts DEF StartOfNextDay
<1> HIDE DEF d, D
<1>2. d * D <= u /\ u < (d + 1) * D
  <2>1. d * D \in Nat
    BY <1>1
  <2> QED
    BY <1>1, <2>1
<1>3. u \div D = d
  BY <1>1, <1>2, DivBetween
<1> QED
  BY <1>3 DEF DayOf, d, D

LEMMA DateOfDay ==
  ASSUME NEW t, NEW u, DayOf(u) = DayOf(t)
  PROVE  Date(u).day = Date(t).day /\ Date(u).month = Date(t).month /\ Date(u).weekday = Date(t).weekday
BY DEF Date

\* Up to the start of the next month, which comes, it is the same month.
LEMMA SameMonth ==
  ASSUME NEW t \in Nat
  PROVE  /\ StartOfNextMonth(t) \in Nat /\ t < StartOfNextMonth(t)
         /\ \A u \in Nat : t <= u /\ u < StartOfNextMonth(t) => Date(u).month = Date(t).month
<1> DEFINE d == DayOf(t)
           D == MinutesInDay
           Y == DaysInYear
           x == d \div Y
           y == d % Y
           m == MonthOf(d)
           n == DaysBefore[m + 1] - y
<1>1. d \in Nat /\ D \in Nat \ {0} /\ d * D <= t /\ t < (d + 1) * D
  BY ClockFacts DEF StartOfNextDay
<1> HIDE DEF d
<1>2. /\ m \in 1..Len(DaysIn) /\ DaysBefore[m] <= y /\ y < DaysBefore[m + 1]
      /\ DaysBefore[m + 1] <= Y
  BY <1>1, MonthIs
<1>3. x \in Nat /\ y \in 0..Y - 1 /\ d = x * Y + y /\ Y \in Nat \ {0}
  <2>1. d \in Int /\ Y \in Nat \ {0}
    BY <1>1, YearFacts
  <2>2. y \in 0..Y - 1 /\ d = x * Y + y
    BY ONLY <2>1, DivMod, Zenon
  <2>3. x \in Nat
    BY <1>1, <2>1, DivNat
  <2> QED
    BY <2>1, <2>2, <2>3
<1>4. DaysIn[m] \in Nat \ {0} /\ DaysBefore[m] \in Nat /\ DaysBefore[m + 1] = DaysBefore[m] + DaysIn[m]
  BY <1>2, YearFacts
<1>5. Date(t).month = m /\ Date(t).day = y - DaysBefore[m] + 1
  BY DEF Date, d
<1> HIDE DEF m, x, y, Y, D
<1>6. n \in Nat \ {0} /\ n <= Y - y /\ d + n \in Nat
  BY <1>1, <1>2, <1>3, <1>4
<1>7. StartOfNextMonth(t) = (d + n) * D
  <2>1. StartOfNextMonth(t) = (d + DaysIn[m] - (y - DaysBefore[m] + 1) + 1) * D
    BY <1>5 DEF StartOfNextMonth, d, D
  <2>2. d + DaysIn[m] - (y - DaysBefore[m] + 1) + 1 = d + n
    BY <1>1, <1>3, <1>4
  <2> QED
    BY <2>1, <2>2
<1> HIDE DEF n
<1>8. (d + n) * D \in Nat /\ t < (d + n) * D
  <2>1. (d + 1) * D <= (d + n) * D
    BY <1>1, <1>6, TimesMonotone
  <2>2. (d + 1) * D \in Nat /\ (d + n) * D \in Nat
    BY <1>1, <1>6
  <2> QED
    BY <1>1, <2>1, <2>2
<1>9. ASSUME NEW u \in Nat, t <= u, u < (d + n) * D
      PROVE  Date(u).month = m
  <2> DEFINE e == DayOf(u)
  <2>1. e \in Nat /\ e * D <= u /\ u < (e + 1) * D
    BY ClockFacts DEF StartOfNextDay, D
  <2> HIDE DEF e
  <2>2. d < e + 1
    <3>1. d * D \in Nat /\ (e + 1) * D \in Nat
      BY <1>1, <2>1
    <3>2. d * D < (e + 1) * D
      BY <1>1, <1>9, <2>1, <3>1
    <3> QED
      BY <1>1, <2>1, <3>2, TimesBelow
  <2>3. e < d + n
    <3>1. e * D \in Nat
      BY <1>1, <2>1
    <3>2. e * D < (d + n) * D
      BY <1>8, <1>9, <2>1, <3>1
    <3> QED
      BY <1>1, <1>6, <2>1, <3>2, TimesBelow
  <2> DEFINE z == y + (e - d)
  <2>4. z \in 0..Y - 1 /\ y <= z /\ z < y + n
    BY <1>1, <1>3, <1>6, <2>1, <2>2, <2>3
  <2>5. e = x * Y + z
    <3>1. x * Y \in Nat
      BY <1>3
    <3> QED
      BY <1>1, <1>3, <2>1, <3>1
  <2> HIDE DEF z
  <2>6. e % Y = z
    <3>1. e \in Int /\ x \in Int /\ z \in 0..Y - 1 /\ Y \in Nat \ {0}
      BY <1>3, <2>1, <2>4
    <3> QED
      BY <2>5, <3>1, DivIs
  <2>7. DaysBefore[m] <= z /\ z < DaysBefore[m + 1]
    BY <1>2, <1>3, <1>4, <2>4 DEF n
  <2>8. DaysBefore[m] <= e % DaysInYear /\ e % DaysInYear < DaysBefore[m + 1]
    BY <2>6, <2>7 DEF Y
  <2>9. MonthOf(e) = m
    BY <1>2, <2>1, <2>8, MonthUnique
  <2> QED
    BY <2>9 DEF Date, e
<1> QED
  BY <1>5, <1>7, <1>8, <1>9

\* A turn of the search goes forward, and over no minute that matches.
LEMMA AdvanceSkips ==
  ASSUME NEW fields, NEW t \in Nat, ~Matches(fields, Date(t))
  PROVE  LET next == Advance(fields, Date(t), t)
         IN  /\ next \in Nat /\ t < next
             /\ \A u \in t..next - 1 : ~Matches(fields, Date(u))
<1> DEFINE date == Date(t)
           next == Advance(fields, date, t)
<1>1. \A u \in Nat : Matches(fields, Date(u)) =>
        /\ Date(u).month \in fields.month /\ Date(u).day \in fields.day
        /\ Date(u).weekday \in fields.weekday /\ Date(u).hour \in fields.hour
  BY DEF Matches, FieldRange
<1>2. CASE date.month \notin fields.month
  <2>1. next = StartOfNextMonth(t)
    BY <1>2 DEF Advance
  <2>2. next \in Nat /\ t < next
    BY <2>1, SameMonth
  <2>3. ASSUME NEW u \in t..next - 1 PROVE ~Matches(fields, Date(u))
    <3>1. u \in Nat /\ t <= u /\ u < next
      BY <2>2
    <3>2. Date(u).month = date.month
      BY <2>1, <3>1, SameMonth
    <3> QED
      BY <1>1, <1>2, <3>1, <3>2
  <2> QED
    BY <2>2, <2>3
<1>3. CASE date.month \in fields.month /\ (date.day \notin fields.day \/ date.weekday \notin fields.weekday)
  <2>1. next = StartOfNextDay(t)
    BY <1>3 DEF Advance
  <2>2. next \in Nat /\ t < next
    BY <2>1, ClockFacts
  <2>3. ASSUME NEW u \in t..next - 1 PROVE ~Matches(fields, Date(u))
    <3>1. u \in Nat /\ t <= u /\ u < next
      BY <2>2
    <3>2. Date(u).day = date.day /\ Date(u).weekday = date.weekday
      BY <2>1, <3>1, SameDay, DateOfDay
    <3> QED
      BY <1>1, <1>3, <3>1, <3>2
  <2> QED
    BY <2>2, <2>3
<1>4. CASE /\ date.month \in fields.month /\ date.day \in fields.day /\ date.weekday \in fields.weekday
           /\ date.hour \notin fields.hour
  <2>1. next = StartOfNextHour(t)
    BY <1>4 DEF Advance
  <2>2. next \in Nat /\ t < next
    BY <2>1, ClockFacts
  <2>3. ASSUME NEW u \in t..next - 1 PROVE ~Matches(fields, Date(u))
    <3>1. u \in Nat /\ t <= u /\ u < next
      BY <2>2
    <3>2. Date(u).hour = date.hour
      BY <2>1, <3>1, SameHour
    <3> QED
      BY <1>1, <1>4, <3>1, <3>2
  <2> QED
    BY <2>2, <2>3
<1>5. CASE /\ date.month \in fields.month /\ date.day \in fields.day /\ date.weekday \in fields.weekday
           /\ date.hour \in fields.hour
  <2>1. next = t + 1
    BY <1>5 DEF Advance
  <2>2. next \in Nat /\ t < next /\ \A u \in t..next - 1 : u = t
    BY <2>1
  <2> QED
    BY <2>2
<1> QED
  BY <1>2, <1>3, <1>4, <1>5

\* The search, as a function of the turns after this one; and what it looks for: the first
\* match from a minute on.
SearchTurn(g, fields, limit, t) ==
  IF t >= limit THEN Never
  ELSE IF Matches(fields, Date(t)) THEN t ELSE g[Advance(fields, Date(t), t)]

MatchesFrom(fields, t, limit) == {u \in t..limit - 1 : Matches(fields, Date(u))}
FirstFrom(fields, t, limit) ==
  IF MatchesFrom(fields, t, limit) = {} THEN Never ELSE Min(MatchesFrom(fields, t, limit))

\* The least of a set of numbers.
LEMMA MinIs ==
  ASSUME NEW S \in SUBSET Nat, NEW x \in S, \A y \in S : x <= y
  PROVE  Min(S) = x
<1>1. Min(S) \in S /\ \A y \in S : Min(S) <= y
  BY Zenon DEF Min
<1> DEFINE m == Min(S)
<1>2. m \in Nat /\ x \in Nat /\ m <= x /\ x <= m
  BY <1>1
<1> HIDE DEF m
<1>3. m = x
  BY <1>2
<1> QED
  BY <1>3 DEF m

\* Looking for the first match keeps the recursion of the search ...
LEMMA FirstTurns ==
  ASSUME NEW fields, NEW limit \in Nat, NEW t \in Nat
  PROVE  FirstFrom(fields, t, limit) =
           IF t >= limit THEN Never
           ELSE IF Matches(fields, Date(t)) THEN t
           ELSE FirstFrom(fields, Advance(fields, Date(t), t), limit)
<1>1. CASE t >= limit
  <2>1. t..limit - 1 = {}
    BY <1>1
  <2> QED
    BY <1>1, <2>1 DEF FirstFrom, MatchesFrom
<1>2. CASE t < limit /\ Matches(fields, Date(t))
  <2> DEFINE S == MatchesFrom(fields, t, limit)
  <2>1. S \in SUBSET Nat /\ t \in S /\ \A y \in S : t <= y
    BY <1>2 DEF MatchesFrom
  <2> HIDE DEF S
  <2>2. S # {} /\ Min(S) = t
    BY <2>1, MinIs
  <2> QED
    BY <1>2, <2>2 DEF FirstFrom, S
<1>3. CASE t < limit /\ ~Matches(fields, Date(t))
  <2> DEFINE next == Advance(fields, Date(t), t)
  <2>1. next \in Nat /\ t < next /\ \A u \in t..next - 1 : ~Matches(fields, Date(u))
    BY <1>3, AdvanceSkips
  <2> HIDE DEF next
  <2>2. MatchesFrom(fields, t, limit) = MatchesFrom(fields, next, limit)
    <3>1. ASSUME NEW u \in t..limit - 1, Matches(fields, Date(u)) PROVE u \in next..limit - 1
      <4>1. u \in Nat /\ ~(u \in t..next - 1)
        BY <2>1, <3>1
      <4> QED
        BY <2>1, <4>1
    <3>2. next..limit - 1 \subseteq t..limit - 1
      BY <2>1
    <3> QED
      BY <3>1, <3>2 DEF MatchesFrom
  <2>3. FirstFrom(fields, t, limit) = FirstFrom(fields, next, limit)
    BY <2>2 DEF FirstFrom
  <2> QED
    BY <1>3, <2>3 DEF next
<1>4. ~(t >= limit) => t < limit
  OBVIOUS
<1> QED
  BY <1>1, <1>2, <1>3, <1>4

\* ... and is the only function that does: each turn goes forward, up to the limit.
LEMMA SearchFinds ==
  ASSUME NEW fields, NEW limit \in Nat, NEW g, \A t \in Nat : g[t] = SearchTurn(g, fields, limit, t)
  PROVE  \A t \in Nat : g[t] = FirstFrom(fields, t, limit)
<1> DEFINE Found(t) == g[t] = FirstFrom(fields, t, limit)
           P == {n \in Nat : \A t \in Nat : limit <= t + n => Found(t)}
<1>1. 0 \in P
  <2> SUFFICES ASSUME NEW t \in Nat, limit <= t + 0 PROVE Found(t)
    OBVIOUS
  <2>1. t >= limit
    OBVIOUS
  <2>2. g[t] = Never
    BY <2>1 DEF SearchTurn
  <2>3. FirstFrom(fields, t, limit) = Never
    BY <2>1, FirstTurns
  <2> QED
    BY <2>2, <2>3
<1>2. ASSUME NEW n \in Nat, n \in P PROVE n + 1 \in P
  <2> SUFFICES ASSUME NEW t \in Nat, limit <= t + (n + 1) PROVE Found(t)
    OBVIOUS
  <2>1. CASE t >= limit \/ Matches(fields, Date(t))
    <3>1. g[t] = IF t >= limit THEN Never ELSE t
      BY <2>1 DEF SearchTurn
    <3>2. FirstFrom(fields, t, limit) = IF t >= limit THEN Never ELSE t
      BY <2>1, FirstTurns
    <3> QED
      BY <3>1, <3>2
  <2>2. CASE ~(t >= limit) /\ ~Matches(fields, Date(t))
    <3> DEFINE next == Advance(fields, Date(t), t)
    <3>1. next \in Nat /\ t < next
      BY <2>2, AdvanceSkips
    <3>2. g[t] = g[next] /\ FirstFrom(fields, t, limit) = FirstFrom(fields, next, limit)
      BY <2>2, FirstTurns DEF SearchTurn
    <3> HIDE DEF next
    <3>3. limit <= next + n
      BY <3>1
    <3>4. Found(next)
      BY <1>2, <3>1, <3>3
    <3> QED
      BY <3>2, <3>4
  <2> QED
    BY <2>1, <2>2
<1>3. \A n \in Nat : n \in P
  <2> HIDE DEF P
  <2> QED
    BY <1>1, <1>2, NatSetInduction
<1> SUFFICES ASSUME NEW t \in Nat PROVE Found(t)
  OBVIOUS
<1>4. limit \in P /\ limit <= t + limit
  BY <1>3
<1> QED
  BY <1>4

\* For any fields: next answers the first minute after its argument that matches them, and
\* None only if none matches before its limit.
LEMMA FindsTheFirst ==
  ASSUME NEW fields, NEW after \in Nat
  PROVE  FindsFirst(fields, after)
<1> DEFINE start == after + 1
           limit == start + YearsAhead * DaysInYear * MinutesInDay
           F(g) == [t \in Nat |-> IF t >= limit THEN Never
                                  ELSE IF Matches(fields, Date(t)) THEN t
                                  ELSE g[Advance(fields, Date(t), t)]]
           search == CHOOSE g : g = F(g)
           first == [t \in Nat |-> FirstFrom(fields, t, limit)]
<1>1. limit \in Nat /\ start \in Nat
  <2>1. YearsAhead \in Nat /\ DaysInYear \in Nat /\ MinutesInDay \in Nat
    BY CalendarAssumption, YearFacts, ClockFacts
  <2>2. YearsAhead * DaysInYear \in Nat
    BY <2>1
  <2>3. YearsAhead * DaysInYear * MinutesInDay \in Nat
    BY <2>1, <2>2
  <2> QED
    BY <2>3
<1>2. NextOccurrence(fields, after) = search[start]
  BY DEF NextOccurrence
<1> HIDE DEF limit
<1>3. first = F(first)
  <2>1. ASSUME NEW t \in Nat
        PROVE  first[t] = IF t >= limit THEN Never
                          ELSE IF Matches(fields, Date(t)) THEN t
                          ELSE first[Advance(fields, Date(t), t)]
    <3>1. CASE t >= limit \/ Matches(fields, Date(t))
      BY <1>1, <3>1, FirstTurns
    <3>2. CASE ~(t >= limit) /\ ~Matches(fields, Date(t))
      <4> DEFINE next == Advance(fields, Date(t), t)
      <4>1. next \in Nat
        BY <3>2, AdvanceSkips
      <4>2. FirstFrom(fields, t, limit) = FirstFrom(fields, next, limit)
        BY <1>1, <3>2, FirstTurns
      <4> HIDE DEF next
      <4>3. first[t] = first[next]
        BY <4>1, <4>2
      <4> QED
        BY <3>2, <4>3 DEF next
    <3> QED
      BY <3>1, <3>2
  <2> HIDE DEF first
  <2>2. first = [t \in Nat |-> first[t]]
    BY DEF first
  <2> QED
    BY <2>1, <2>2
<1> HIDE DEF first
<1>4. search = F(search)
  BY <1>3
<1> HIDE DEF search
<1>5. \A t \in Nat : search[t] = SearchTurn(search, fields, limit, t)
  BY <1>4 DEF SearchTurn
<1>6. search[start] = FirstFrom(fields, start, limit)
  BY <1>1, <1>5, SearchFinds
<1> QED
  BY <1>2, <1>6 DEF FindsFirst, FirstFrom, MatchesFrom, limit

-----------------------------------------------------------------------------
(* The life of a server. *)

\* Nobody is connected before the server listens.
NoneBefore ==
  server \in {"importing", "opening"} => \A c \in Connection : connection[c] = "none"

LifecycleInv == LifecycleTypeOK /\ NoneBefore

ConnectionState == {"none", "idle", "busy", "closed"}

LEMMA ExitCode ==
  ASSUME NEW resolved, ExitAfter(resolved)
  PROVE  exit' \in {0, 1, 130} /\ exit' # Running /\ (exit' = 130 <=> interrupted)
<1>1. CASE interrupted
  BY <1>1, LifecycleAssumption DEF ExitAfter
<1>2. CASE ~interrupted
  BY <1>2, LifecycleAssumption DEF ExitAfter
<1> QED
  BY <1>1, <1>2

\* Connections that are busy stay so when the idle ones are closed, and none is opened.
LEMMA IdleClosed ==
  ASSUME NEW conns \in [Connection -> ConnectionState], CloseIdle(conns)
  PROVE  /\ connection' \in [Connection -> ConnectionState]
         /\ \A c \in Connection : conns[c] # "idle" => connection'[c] = conns[c]
BY DEF CloseIdle, ConnectionState

LEMMA AllClosed ==
  ASSUME connection \in [Connection -> ConnectionState], CloseAll
  PROVE  connection' \in [Connection -> ConnectionState]
BY DEF CloseAll, ConnectionState

LEMMA LifecycleStart == LifecycleInit => LifecycleInv
BY DEF LifecycleInit, LifecycleInv, LifecycleTypeOK, NoneBefore

\* A step that exits, and moves no connection.
LEMMA ExitKeeps ==
  ASSUME LifecycleInv, Alive, exit' \in {0, 1, 130}, exit' = 130 <=> interrupted,
         UNCHANGED <<interrupted, teardown, server>>,
         connection' \in [Connection -> ConnectionState],
         server \notin {"importing", "opening"} \/ connection' = connection
  PROVE  LifecycleInv'
<1>0. exit' # Running
  BY LifecycleAssumption
<1>1. /\ server = "closing" => interrupted
      /\ teardown => interrupted
  BY DEF LifecycleInv, LifecycleTypeOK
<1>2. LifecycleTypeOK'
  BY <1>0, <1>1, Zenon DEF LifecycleTypeOK, ConnectionState, Alive
<1>3. NoneBefore'
  BY DEF LifecycleInv, NoneBefore
<1> QED
  BY <1>2, <1>3 DEF LifecycleInv

\* A step of the connections.
LEMMA ConnectionsKeep ==
  ASSUME LifecycleInv, connection' \in [Connection -> ConnectionState],
         UNCHANGED <<interrupted, teardown, server, drainTimer, forced, exit>>,
         server \notin {"importing", "opening"}
  PROVE  LifecycleInv'
<1>1. LifecycleTypeOK'
  BY DEF LifecycleInv, LifecycleTypeOK, ConnectionState, Alive
<1>2. NoneBefore'
  BY DEF NoneBefore
<1> QED
  BY <1>1, <1>2 DEF LifecycleInv

LEMMA InterruptKeeps ==
  ASSUME LifecycleInv, Interrupt
  PROVE  LifecycleInv'
<1>1. /\ Alive /\ exit' = exit /\ interrupted' = TRUE /\ forced' = forced
      /\ connection \in [Connection -> ConnectionState]
  BY DEF Interrupt, LifecycleInv, LifecycleTypeOK, ConnectionState
<1>2. \/ server = "importing" /\ UNCHANGED <<server, drainTimer, connection>>
      \/ server # "importing" /\ server' = "closing" /\ drainTimer' = TRUE /\ CloseIdle(connection)
  BY DEF Interrupt, OnAbort
<1>3. connection' \in [Connection -> ConnectionState]
  BY <1>1, <1>2, IdleClosed
<1>4. exit' = Running /\ (server' = "closing" => drainTimer')
  BY <1>1, <1>2 DEF Alive
<1>5. LifecycleTypeOK'
  BY <1>1, <1>3, <1>4 DEF LifecycleTypeOK, ConnectionState, Alive
<1>6. NoneBefore'
  BY <1>2 DEF NoneBefore, LifecycleInv
<1> QED
  BY <1>5, <1>6 DEF LifecycleInv

LEMMA LifecycleSteps == LifecycleInv /\ [LifecycleNext]_lifecycleVars => LifecycleInv'
<1> SUFFICES ASSUME LifecycleInv, [LifecycleNext]_lifecycleVars PROVE LifecycleInv'
  OBVIOUS
<1>0. /\ connection \in [Connection -> ConnectionState]
      /\ teardown => interrupted
      /\ LifecycleTypeOK /\ NoneBefore
  BY DEF LifecycleInv, LifecycleTypeOK, ConnectionState
<1>1. CASE Interrupt
  BY <1>1, InterruptKeeps
<1>2. CASE ForceExit
  <2>1. /\ Alive /\ interrupted /\ exit' = 130
        /\ UNCHANGED <<interrupted, teardown, server, connection>>
    BY <1>2 DEF ForceExit
  <2> QED
    BY <1>0, <2>1, ExitKeeps
<1>3. CASE TeardownTimer
  <2>1. /\ Alive /\ teardown /\ exit' = 130
        /\ UNCHANGED <<interrupted, teardown, server, connection>>
    BY <1>3 DEF TeardownTimer
  <2> QED
    BY <1>0, <2>1, ExitKeeps
<1>4. CASE ListenFails
  <2>1. Alive /\ ExitAfter(FALSE) /\ UNCHANGED <<interrupted, teardown, server, connection>>
    BY <1>4 DEF ListenFails
  <2> QED
    BY <1>0, <2>1, ExitCode, ExitKeeps
<1>5. CASE Imported
  <2>1. Alive /\ UNCHANGED <<interrupted, teardown, drainTimer, connection, forced>>
    BY <1>5 DEF Imported
  <2>2. CASE ExitAfter(TRUE) /\ UNCHANGED server
    BY <1>0, <2>1, <2>2, ExitCode, ExitKeeps
  <2>3. CASE server = "importing" /\ server' = "opening" /\ UNCHANGED exit
    <3>1. LifecycleTypeOK'
      BY <1>0, <2>1, <2>3 DEF LifecycleTypeOK, Alive
    <3>2. NoneBefore'
      BY <1>0, <2>1, <2>3 DEF NoneBefore
    <3> QED
      BY <3>1, <3>2 DEF LifecycleInv
  <2> QED
    BY <1>5, <2>2, <2>3 DEF Imported
<1>6. CASE BunServes
  <2>1. Alive /\ UNCHANGED <<interrupted, teardown, drainTimer, connection, forced>>
    BY <1>6 DEF BunServes
  <2>2. CASE ExitAfter(FALSE) /\ UNCHANGED server
    BY <1>0, <2>1, <2>2, ExitCode, ExitKeeps
  <2>3. CASE server' = "listening" /\ UNCHANGED exit
    BY <1>0, <2>1, <2>3 DEF LifecycleInv, LifecycleTypeOK, NoneBefore, Alive
  <2> QED
    BY <1>6, <2>2, <2>3 DEF BunServes
<1>7. CASE Listening
  BY <1>0, <1>7 DEF Listening, LifecycleInv, LifecycleTypeOK, NoneBefore, Alive
<1>8. ASSUME NEW c \in Connection, Connects(c) \/ Requests(c) \/ Responds(c) \/ Hangs(c)
      PROVE  LifecycleInv'
  <2>1. UNCHANGED <<interrupted, teardown, server, drainTimer, forced, exit>>
    BY <1>8 DEF Connects, Requests, Responds, Hangs
  <2>2. server = "listening" \/ connection[c] \in {"idle", "busy"}
    BY <1>8 DEF Connects, Requests, Responds, Hangs, RequestEnds
  <2>3. server \notin {"importing", "opening"}
    BY <1>0, <2>2 DEF NoneBefore
  <2>4. \A s \in ConnectionState : [connection EXCEPT ![c] = s] \in [Connection -> ConnectionState]
    BY <1>0
  <2>5. \/ \E s \in ConnectionState : connection' = [connection EXCEPT ![c] = s]
        \/ \E s \in ConnectionState : CloseIdle([connection EXCEPT ![c] = s])
    BY <1>8 DEF Connects, Requests, Responds, Hangs, RequestEnds, Become, ConnectionState
  <2>6. connection' \in [Connection -> ConnectionState]
    BY <2>4, <2>5, IdleClosed
  <2> QED
    BY <2>1, <2>3, <2>6, ConnectionsKeep
<1>9. CASE ForceClose
  <2>1. /\ Alive /\ forced' = TRUE /\ CloseAll
        /\ UNCHANGED <<interrupted, teardown, server, exit>>
    BY <1>9 DEF ForceClose
  <2>2. connection' \in [Connection -> ConnectionState]
    BY <1>0, <2>1, AllClosed
  <2>3. LifecycleTypeOK'
    BY <1>0, <2>1, <2>2 DEF LifecycleTypeOK, Alive, ConnectionState
  <2>4. NoneBefore'
    BY <1>0, <2>1 DEF NoneBefore, CloseAll, Open
  <2> QED
    BY <2>3, <2>4 DEF LifecycleInv
<1>10. CASE Closed
  <2>1. /\ Alive /\ UNCHANGED <<interrupted, teardown, server, connection>>
        /\ \E resolved \in BOOLEAN : ExitAfter(resolved)
    BY <1>10 DEF Closed
  <2> QED
    BY <1>0, <2>1, ExitCode, ExitKeeps
<1>11. ASSUME NEW expired \in BOOLEAN, Stopped(expired) PROVE LifecycleInv'
  <2>1. /\ Alive /\ server = "closing" /\ UNCHANGED <<interrupted, teardown, server>> /\ CloseAll
        /\ \E resolved \in BOOLEAN : ExitAfter(resolved)
    BY <1>11 DEF Stopped
  <2>2. connection' \in [Connection -> ConnectionState] /\ server \notin {"importing", "opening"}
    BY <1>0, <2>1, AllClosed
  <2> QED
    BY <2>1, <2>2, ExitCode, ExitKeeps
<1>12. CASE UNCHANGED lifecycleVars
  BY <1>12 DEF lifecycleVars, LifecycleInv, LifecycleTypeOK, NoneBefore, Alive
<1> QED
  BY <1>1, <1>2, <1>3, <1>4, <1>5, <1>6, <1>7, <1>8, <1>9, <1>10, <1>11, <1>12 DEF LifecycleNext

\* One step of a server that is alive, seen from a connection whose request is in flight.
DrainStep ==
  \A c \in Connection : Alive /\ connection[c] = "busy" =>
    /\ exit' # exit => ForceExit \/ TeardownTimer \/ Stopped(TRUE)
    /\ connection'[c] = "closed" => Hangs(c) \/ Responds(c) \/ ForceClose \/ Stopped(TRUE)

LEMMA DrainsGracefully == LifecycleInv /\ [LifecycleNext]_lifecycleVars => DrainStep
<1> SUFFICES ASSUME LifecycleInv, [LifecycleNext]_lifecycleVars,
                    NEW c \in Connection, Alive, connection[c] = "busy"
             PROVE  /\ exit' # exit => ForceExit \/ TeardownTimer \/ Stopped(TRUE)
                    /\ connection'[c] = "closed" => Hangs(c) \/ Responds(c) \/ ForceClose \/ Stopped(TRUE)
  BY Zenon DEF DrainStep
<1> DEFINE InFlight == exit' = exit /\ connection'[c] = "busy"
<1>0. /\ connection \in [Connection -> ConnectionState]
      /\ server \notin {"importing", "opening"}
  BY DEF LifecycleInv, LifecycleTypeOK, NoneBefore, ConnectionState
<1>1. CASE ForceExit \/ TeardownTimer
  BY <1>1 DEF ForceExit, TeardownTimer
<1>2. CASE ForceClose
  BY <1>2 DEF ForceClose
<1>3. CASE Interrupt
  <2>1. exit' = exit /\ (connection' = connection \/ CloseIdle(connection))
    BY <1>3 DEF Interrupt, OnAbort
  <2> QED
    BY <1>0, <2>1, IdleClosed
<1>4. ~Imported /\ ~BunServes /\ ~Listening /\ ~ListenFails
  BY <1>0 DEF Imported, BunServes, Listening, ListenFails
<1>5. ASSUME NEW d \in Connection, Connects(d) \/ Requests(d) PROVE InFlight
  <2>1. exit' = exit /\ connection[d] # "busy"
    BY <1>5 DEF Connects, Requests
  <2>2. \E s \in ConnectionState : connection' = [connection EXCEPT ![d] = s]
    BY <1>5 DEF Connects, Requests, Become, ConnectionState
  <2> QED
    BY <1>0, <2>1, <2>2
<1>6. ASSUME NEW d \in Connection, d # c, Responds(d) \/ Hangs(d) PROVE InFlight
  <2>1. exit' = exit
    BY <1>6 DEF Responds, Hangs
  <2>2. \/ \E s \in ConnectionState : connection' = [connection EXCEPT ![d] = s]
        \/ \E s \in ConnectionState : CloseIdle([connection EXCEPT ![d] = s])
    BY <1>6 DEF Responds, Hangs, RequestEnds, Become, ConnectionState
  <2>3. \A s \in ConnectionState : /\ [connection EXCEPT ![d] = s] \in [Connection -> ConnectionState]
                                   /\ [connection EXCEPT ![d] = s][c] = "busy"
    BY <1>0, <1>6
  <2> QED
    BY <2>1, <2>2, <2>3, IdleClosed
<1>7. ASSUME Responds(c) \/ Hangs(c) PROVE exit' = exit
  BY <1>7 DEF Responds, Hangs
<1>8. ~Closed /\ ~Stopped(FALSE)
  BY DEF Closed, Open, Stopped
<1>9. CASE UNCHANGED lifecycleVars
  BY <1>9 DEF lifecycleVars
<1> QED
  BY <1>1, <1>2, <1>3, <1>4, <1>5, <1>6, <1>7, <1>8, <1>9, Zenon DEF LifecycleNext

\* For any connections, whichever runtime serves them and whenever it is interrupted: an
\* interrupted process exits with 130, and a drain cuts no request and does not exit under
\* one but by a second signal, a timer, or its client (onAbort, shutdown, run).
THEOREM ServerDrainsGracefully == LifecycleSpec => []LifecycleTypeOK /\ DrainIsGraceful
<1>1. LifecycleInv => LifecycleTypeOK
  BY DEF LifecycleInv
<1>2. LifecycleInv /\ [LifecycleNext]_lifecycleVars => [DrainStep]_lifecycleVars
  BY DrainsGracefully
<1>3. DrainIsGraceful <=> [][DrainStep]_lifecycleVars
  BY DEF DrainIsGraceful, DrainStep
<1> QED
  BY <1>1, <1>2, <1>3, LifecycleStart, LifecycleSteps, PTL DEF LifecycleSpec

-----------------------------------------------------------------------------
(* The router: the nodes of the trie are the beginnings of the routes. *)

RouteOf == [method : Verb, pattern : Pattern]

\* The segments of route r that the trie has.
W(r) == Walked(routes[r].pattern)

\* The first j edges of r are those of node s.
Agrees(r, s, j) == j <= Len(W(r)) /\ \A k \in 1..j : Edge(W(r)[k]) = s[k]

\* Some route up to n goes on from the first j edges of s by edge e.
GoesOn(n, s, j, e) ==
  \E r \in 1..n : Agrees(r, s, j) /\ j < Len(W(r)) /\ Edge(W(r)[j + 1]) = e

\* A pattern's segments, and its wildcard.
LEMMA PatternFacts ==
  ASSUME NEW p \in Pattern
  PROVE  /\ p \in Seq(Segment) /\ Walked(p) \in Seq(Segment) /\ Len(Walked(p)) <= Len(p)
         /\ \A i \in 1..Len(Walked(p)) : /\ i \in 1..Len(p) /\ Walked(p)[i] = p[i]
                                         /\ Walked(p)[i] \in Segment
                                         /\ Walked(p)[i].kind # "wildcard"
<1> DEFINE wild == {i \in DOMAIN p : p[i].kind = "wildcard"}
<1>1. PICK n \in 0..MaxSegments : p \in [1..n -> Segment]
  BY DEF Pattern
<1>2. MaxSegments \in Nat /\ n \in Nat
  BY <1>1, RouterAssumption
<1> HIDE DEF Segment
<1>3. p \in Seq(Segment) /\ Len(p) = n /\ DOMAIN p = 1..n
  BY <1>1, <1>2
<1>4. CASE wild = {}
  <2>1. Walked(p) = p
    BY <1>4 DEF Walked
  <2>2. \A i \in 1..Len(p) : p[i].kind # "wildcard"
    BY <1>3, <1>4
  <2> QED
    BY <1>3, <2>1, <2>2
<1>5. CASE wild # {}
  <2>1. wild \in SUBSET Nat
    BY <1>3
  <2>2. PICK m \in wild : \A y \in wild : m <= y
    BY <1>5, <2>1, LeastExists
  <2>3. PICK k \in wild : k = Min(wild) /\ \A y \in wild : k <= y
    BY <2>2 DEF Min
  <2>4. k \in 1..n /\ \A y \in 1..n : y < k => p[y].kind # "wildcard"
    <3>1. k \in 1..n /\ wild \in SUBSET Nat
      BY <1>3, <2>3
    <3>2. ASSUME NEW y \in 1..n, y < k, p[y].kind = "wildcard" PROVE FALSE
      <4>1. y \in wild
        BY <1>3, <3>2
      <4> HIDE DEF wild
      <4>2. k <= y
        BY <2>3, <4>1
      <4> QED
        BY <3>1, <3>2, <4>2
    <3> QED
      BY <3>1, <3>2
  <2>5. Walked(p) = SubSeq(p, 1, k - 1)
    BY <1>5, <2>3 DEF Walked
  <2> HIDE DEF wild
  <2>6. /\ Walked(p) \in Seq(Segment) /\ Len(Walked(p)) = k - 1
        /\ \A i \in 1..k - 1 : Walked(p)[i] = p[i]
    BY <1>3, <2>4, <2>5
  <2> QED
    BY <1>3, <2>4, <2>6
<1> QED
  BY <1>4, <1>5

\* What a route of the table is, and its edges.
LEMMA RouteFacts ==
  ASSUME routes \in Seq(RouteOf), NEW r \in DOMAIN routes
  PROVE  /\ routes[r].method \in Verb /\ routes[r].pattern \in Pattern
         /\ W(r) \in Seq(Segment) /\ Len(W(r)) \in Nat
         /\ DOMAIN W(r) = 1..Len(W(r))
         /\ \A i \in 1..Len(W(r)) :
              /\ W(r)[i] = routes[r].pattern[i] /\ i \in 1..Len(routes[r].pattern)
              /\ \/ /\ W(r)[i].kind = "static" /\ W(r)[i].text \in Word
                    /\ Edge(W(r)[i]) = StaticEdge(W(r)[i].text)
                 \/ /\ W(r)[i].kind = "param" /\ W(r)[i].text \in ParamName
                    /\ Edge(W(r)[i]) = ParamEdge
<1>1. routes[r] \in RouteOf
  BY ElementOfSeq
<1>2. routes[r].method \in Verb /\ routes[r].pattern \in Pattern
  BY <1>1 DEF RouteOf
<1>3. /\ W(r) \in Seq(Segment)
      /\ \A i \in 1..Len(W(r)) :
           /\ W(r)[i] = routes[r].pattern[i] /\ i \in 1..Len(routes[r].pattern)
           /\ W(r)[i] \in Segment /\ W(r)[i].kind # "wildcard"
  BY <1>2, PatternFacts DEF W
<1>4. ASSUME NEW x \in Segment, x.kind # "wildcard"
      PROVE  \/ x.kind = "static" /\ x.text \in Word /\ Edge(x) = StaticEdge(x.text)
             \/ x.kind = "param" /\ x.text \in ParamName /\ Edge(x) = ParamEdge
  BY <1>4 DEF Segment, Edge
<1>5. Len(W(r)) \in Nat /\ DOMAIN W(r) = 1..Len(W(r))
  <2> HIDE DEF Segment, W
  <2> QED
    BY <1>3
<1> QED
  BY <1>2, <1>3, <1>4, <1>5

LEMMA EdgesDiffer == \A t, u : /\ StaticEdge(t) # ParamEdge
                               /\ StaticEdge(t) = StaticEdge(u) => t = u
<1> TAKE t, u
<1>1. StaticEdge(t).kind = "static" /\ ParamEdge.kind = "param" /\ StaticEdge(t).text = t /\ StaticEdge(u).text = u
  BY DEF StaticEdge, ParamEdge
<1> QED
  BY <1>1

\* The node of a route's first edges.
LEMMA NodeFacts ==
  ASSUME routes \in Seq(RouteOf), NEW r \in DOMAIN routes, NEW i \in 0..Len(W(r))
  PROVE  /\ Len(NodeAt(W(r), i)) = i /\ DOMAIN NodeAt(W(r), i) = 1..i
         /\ NodeAt(W(r), i) = [k \in 1..i |-> NodeAt(W(r), i)[k]]
         /\ \A k \in 1..i : NodeAt(W(r), i)[k] = Edge(W(r)[k])
<1>1. i \in Nat
  BY RouteFacts
<1>2. NodeAt(W(r), i) = [k \in 1..i |-> Edge(W(r)[k])]
  BY DEF NodeAt
<1> DEFINE e(k) == Edge(W(r)[k])
<1>3. NodeAt(W(r), i) = [k \in 1..i |-> e(k)]
  BY <1>2
<1> HIDE DEF e
<1>4. Len([k \in 1..i |-> e(k)]) = i
  BY <1>1
<1> QED
  BY <1>3, <1>4 DEF e

\* A sequence of edges, of which there may be none.
IsNode(s) == Len(s) \in Nat /\ s = [k \in 1..Len(s) |-> s[k]]

\* A node is that of the first edges of a route that agrees with it.
LEMMA NodeAgrees ==
  ASSUME routes \in Seq(RouteOf), NEW r \in DOMAIN routes, NEW s, IsNode(s), NEW i \in 0..Len(W(r))
  PROVE  s = NodeAt(W(r), i) <=> i = Len(s) /\ Agrees(r, s, Len(s))
<1>1. /\ Len(NodeAt(W(r), i)) = i /\ DOMAIN NodeAt(W(r), i) = 1..i
      /\ NodeAt(W(r), i) = [k \in 1..i |-> NodeAt(W(r), i)[k]]
      /\ \A k \in 1..i : NodeAt(W(r), i)[k] = Edge(W(r)[k])
  BY NodeFacts
<1>2. ASSUME s = NodeAt(W(r), i) PROVE i = Len(s) /\ Agrees(r, s, Len(s))
  BY <1>1, <1>2, RouteFacts DEF Agrees
<1>3. ASSUME i = Len(s), Agrees(r, s, Len(s)) PROVE s = NodeAt(W(r), i)
  <2>1. \A k \in 1..i : s[k] = NodeAt(W(r), i)[k]
    BY <1>1, <1>3 DEF Agrees
  <2>2. s = [k \in 1..i |-> s[k]]
    BY <1>3 DEF IsNode
  <2>3. [k \in 1..i |-> s[k]] = [k \in 1..i |-> NodeAt(W(r), i)[k]]
    BY <2>1
  <2> QED
    BY <1>1, <2>2, <2>3
<1> QED
  BY <1>2, <1>3

\* A node's child, and the node a child is of.
LEMMA ChildFacts ==
  ASSUME NEW s, IsNode(s), NEW e
  PROVE  /\ IsNode(Append(s, e)) /\ Len(Append(s, e)) = Len(s) + 1
         /\ \A k \in 1..Len(s) : Append(s, e)[k] = s[k]
         /\ Append(s, e)[Len(s) + 1] = e
<1> DEFINE S == {s[k] : k \in 1..Len(s)} \cup {e}
<1>1. s \in Seq(S)
  <2>1. \A k \in 1..Len(s) : s[k] \in S
    OBVIOUS
  <2> HIDE DEF S
  <2> QED
    BY <2>1, IsASeq DEF IsNode
<1> HIDE DEF S
<1>2. e \in S
  BY DEF S
<1>3. /\ Append(s, e) \in Seq(S) /\ Len(Append(s, e)) = Len(s) + 1
      /\ \A k \in 1..Len(s) : Append(s, e)[k] = s[k]
      /\ Append(s, e)[Len(s) + 1] = e
  BY <1>1, <1>2, AppendProperties
<1>4. IsNode(Append(s, e))
  <2>1. ASSUME NEW t \in Seq(S) PROVE t = [k \in 1..Len(t) |-> t[k]] /\ Len(t) \in Nat
    OBVIOUS
  <2> QED
    BY <1>3, <2>1 DEF IsNode
<1> QED
  BY <1>3, <1>4

LEMMA ChildAgrees ==
  ASSUME routes \in Seq(RouteOf), NEW r \in DOMAIN routes, NEW s, IsNode(s), NEW e
  PROVE  Agrees(r, Append(s, e), Len(s) + 1)
           <=> Agrees(r, s, Len(s)) /\ Len(s) < Len(W(r)) /\ Edge(W(r)[Len(s) + 1]) = e
<1>1. /\ Len(Append(s, e)) = Len(s) + 1 /\ Len(s) \in Nat
      /\ \A k \in 1..Len(s) : Append(s, e)[k] = s[k]
      /\ Append(s, e)[Len(s) + 1] = e
  BY ChildFacts DEF IsNode
<1>2. Len(W(r)) \in Nat
  BY RouteFacts
<1> QED
  BY <1>1, <1>2 DEF Agrees

\* A table with the latest handler that S has of each method.
TableIs(t, S) ==
  /\ t = [v \in DOMAIN t |-> t[v]]
  /\ DOMAIN t = {routes[r].method : r \in S}
  /\ \A v \in DOMAIN t : /\ t[v] \in S /\ routes[t[v]].method = v
                         /\ \A r \in S : routes[r].method = v => r <= t[v]

LEMMA EmptyTable ==
  /\ TableIs(NoHandlers, {})
  /\ \A t, S : TableIs(t, S) => (t = NoHandlers <=> S = {})
<1>1. NoHandlers = [v \in {} |-> NoHandlers[v]] /\ DOMAIN NoHandlers = {}
  BY DEF NoHandlers
<1>2. TableIs(NoHandlers, {})
  BY <1>1 DEF TableIs
<1>3. ASSUME NEW t, NEW S, TableIs(t, S) PROVE t = NoHandlers <=> S = {}
  <2>1. /\ t = [v \in DOMAIN t |-> t[v]]
        /\ DOMAIN t = {routes[r].method : r \in S}
    BY <1>3 DEF TableIs
  <2>2. ASSUME S = {} PROVE t = NoHandlers
    <3>1. DOMAIN t = {}
      BY <2>1, <2>2
    <3>2. [v \in {} |-> t[v]] = [v \in {} |-> 0]
      OBVIOUS
    <3> QED
      BY <2>1, <3>1, <3>2 DEF NoHandlers
  <2>3. ASSUME t = NoHandlers, NEW r \in S PROVE FALSE
    BY <1>1, <2>1, <2>3
  <2> QED
    BY <2>2, <2>3
<1> QED
  BY <1>2, <1>3

LEMMA PutIs ==
  ASSUME NEW n \in Nat, NEW S \in SUBSET (1..n), NEW t, TableIs(t, S)
  PROVE  TableIs(PutHandler(t, routes[n + 1].method, n + 1), S \cup {n + 1})
<1> DEFINE m == routes[n + 1].method
           u == PutHandler(t, m, n + 1)
<1>1. /\ u = [v \in DOMAIN u |-> u[v]] /\ DOMAIN u = DOMAIN t \cup {m}
      /\ u[m] = n + 1 /\ \A v \in DOMAIN t : v # m => u[v] = t[v]
  BY DEF PutHandler, MapSet
<1>2. /\ DOMAIN t = {routes[r].method : r \in S}
      /\ \A v \in DOMAIN t : /\ t[v] \in S /\ routes[t[v]].method = v
                             /\ \A r \in S : routes[r].method = v => r <= t[v]
  BY DEF TableIs
<1>3. DOMAIN u = {routes[r].method : r \in S \cup {n + 1}}
  <2> HIDE DEF u
  <2> QED
    BY <1>1, <1>2
<1>4. ASSUME NEW v \in DOMAIN u
      PROVE  /\ u[v] \in S \cup {n + 1} /\ routes[u[v]].method = v
             /\ \A r \in S \cup {n + 1} : routes[r].method = v => r <= u[v]
  <2> HIDE DEF u
  <2>1. CASE v = m
    BY <1>1, <2>1
  <2>2. CASE v # m
    BY <1>1, <1>2, <2>2
  <2> QED
    BY <2>1, <2>2
<1> HIDE DEF u
<1>5. TableIs(u, S \cup {n + 1})
  BY <1>1, <1>3, <1>4 DEF TableIs
<1> QED
  BY <1>5 DEF u

-----------------------------------------------------------------------------
\* The first n routes that end at s, and which of them have a wildcard there.
EndsAt(n, s)  == {r \in 1..n : Len(W(r)) = Len(s) /\ Agrees(r, s, Len(s))}
PlainAt(n, s) == {r \in EndsAt(n, s) : ~Wild(routes[r])}
WildAt(n, s)  == {r \in EndsAt(n, s) : Wild(routes[r])}

IsReached(n, s) == s = <<>> \/ \E r \in 1..n : Agrees(r, s, Len(s))

IsRecord(node) == node = [param |-> node.param, wildcard |-> node.wildcard, handlers |-> node.handlers]

NodeIs(node, s, n) ==
  /\ IsRecord(node)
  /\ node.param # NoName <=> GoesOn(n, s, Len(s), ParamEdge)
  /\ TableIs(node.handlers, PlainAt(n, s))
  /\ TableIs(node.wildcard, WildAt(n, s))

\* The trie of the first n routes.
TrieIs(trie, n) ==
  /\ trie = [s \in DOMAIN trie |-> trie[s]]
  /\ \A s \in DOMAIN trie : IsNode(s)
  /\ \A s : IsNode(s) => (s \in DOMAIN trie <=> IsReached(n, s))
  /\ \A s \in DOMAIN trie : NodeIs(trie[s], s, n)

\* A node of the trie, or the one that would be made.
There(trie, s) == IF s \in DOMAIN trie THEN trie[s] ELSE EmptyNode

LEMMA ThereIs ==
  ASSUME NEW n \in Nat, NEW trie, TrieIs(trie, n), NEW s, IsNode(s)
  PROVE  NodeIs(There(trie, s), s, n)
<1>1. CASE s \in DOMAIN trie
  BY <1>1 DEF There, TrieIs
<1>2. CASE s \notin DOMAIN trie
  <2>1. \A r \in 1..n : ~Agrees(r, s, Len(s))
    BY <1>2 DEF TrieIs, IsReached
  <2>2. PlainAt(n, s) = {} /\ WildAt(n, s) = {} /\ ~GoesOn(n, s, Len(s), ParamEdge)
    BY <2>1 DEF PlainAt, WildAt, EndsAt, GoesOn
  <2>3. There(trie, s) = EmptyNode
    BY <1>2 DEF There
  <2>4. /\ IsRecord(EmptyNode) /\ EmptyNode.param = NoName
        /\ EmptyNode.handlers = NoHandlers /\ EmptyNode.wildcard = NoHandlers
    BY DEF EmptyNode, IsRecord
  <2> QED
    BY <2>2, <2>3, <2>4, EmptyTable DEF NodeIs
<1> QED
  BY <1>1, <1>2

\* A route goes on from a node by an edge when the node by that edge is reached.
LEMMA ReachedChild ==
  ASSUME routes \in Seq(RouteOf), NEW n \in 0..Len(routes), NEW s, IsNode(s), NEW e
  PROVE  IsReached(n, Append(s, e)) <=> GoesOn(n, s, Len(s), e)
<1>1. /\ IsNode(Append(s, e)) /\ Len(Append(s, e)) = Len(s) + 1 /\ Len(s) \in Nat
  BY ChildFacts DEF IsNode
<1>2. Append(s, e) # <<>>
  <2>1. Len(<<>>) = 0
    OBVIOUS
  <2>2. ASSUME NEW t, t = <<>>, Len(t) = Len(s) + 1, Len(s) \in Nat PROVE FALSE
    BY <2>1, <2>2
  <2> QED
    BY <1>1, <2>2
<1>3. \A r \in 1..n : r \in DOMAIN routes
  OBVIOUS
<1>4. \A r \in 1..n : Agrees(r, Append(s, e), Len(s) + 1)
           <=> Agrees(r, s, Len(s)) /\ Len(s) < Len(W(r)) /\ Edge(W(r)[Len(s) + 1]) = e
  BY <1>3, ChildAgrees
<1> QED
  BY <1>1, <1>2, <1>4 DEF IsReached, GoesOn

\* The nodes that a route makes, and the names that it gives.
LEMMA GrownIs ==
  ASSUME routes \in Seq(RouteOf), NEW n \in 0..Len(routes) - 1, NEW trie, TrieIs(trie, n)
  PROVE  LET g == Grown(trie, W(n + 1))
         IN  /\ g = [s \in DOMAIN g |-> g[s]]
             /\ \A s \in DOMAIN g : IsNode(s)
             /\ \A s : IsNode(s) => (s \in DOMAIN g <=> IsReached(n + 1, s))
             /\ \A s \in DOMAIN g :
                  /\ IsRecord(g[s])
                  /\ g[s].param # NoName <=> GoesOn(n + 1, s, Len(s), ParamEdge)
                  /\ TableIs(g[s].handlers, PlainAt(n, s))
                  /\ TableIs(g[s].wildcard, WildAt(n, s))
<1> DEFINE w == W(n + 1)
           here == {NodeAt(w, i) : i \in 0..Len(w)}
           names(s) == /\ s \in here /\ Len(s) < Len(w) /\ w[Len(s) + 1].kind = "param"
                       /\ There(trie, s).param = NoName
           g == Grown(trie, w)
<1>1. /\ n \in Nat /\ n + 1 \in DOMAIN routes /\ n + 1 \in 1..Len(routes)
      /\ Len(routes) \in Nat
  OBVIOUS
<1>2. /\ Len(w) \in Nat
      /\ \A i \in 1..Len(w) :
           \/ w[i].kind = "static" /\ Edge(w[i]) = StaticEdge(w[i].text)
           \/ w[i].kind = "param" /\ w[i].text \in ParamName /\ Edge(w[i]) = ParamEdge
  BY <1>1, RouteFacts
<1>3. g = [s \in DOMAIN trie \cup here |->
             [There(trie, s) EXCEPT !.param = IF names(s) THEN w[Len(s) + 1].text ELSE @]]
  BY DEF Grown, There
<1>4. \A s : IsNode(s) => (s \in here <=> Agrees(n + 1, s, Len(s)))
  <2> TAKE s
  <2> HAVE IsNode(s)
  <2>1. \A i \in 0..Len(w) : s = NodeAt(w, i) <=> i = Len(s) /\ Agrees(n + 1, s, Len(s))
    BY <1>1, NodeAgrees
  <2>2. Agrees(n + 1, s, Len(s)) => Len(s) \in 0..Len(w)
    BY <1>2 DEF Agrees, IsNode
  <2> QED
    BY <2>1, <2>2
<1>5. \A s \in here : IsNode(s)
  <2> SUFFICES ASSUME NEW i \in 0..Len(w) PROVE IsNode(NodeAt(w, i))
    OBVIOUS
  <2> QED
    BY <1>1, NodeFacts DEF IsNode
<1>6. /\ \A s \in DOMAIN trie : IsNode(s)
      /\ \A s : IsNode(s) => (s \in DOMAIN trie <=> IsReached(n, s))
  BY DEF TrieIs
<1>7. /\ g = [s \in DOMAIN g |-> g[s]] /\ DOMAIN g = DOMAIN trie \cup here
      /\ \A s \in DOMAIN g :
           g[s] = [There(trie, s) EXCEPT !.param = IF names(s) THEN w[Len(s) + 1].text ELSE @]
  <2> HIDE DEF here, names, w, g
  <2> QED
    BY <1>3
<1> HIDE DEF g
<1>8. \A s : IsNode(s) => (IsReached(n + 1, s) <=> IsReached(n, s) \/ Agrees(n + 1, s, Len(s)))
  BY <1>1 DEF IsReached
<1>9. \A s : GoesOn(n + 1, s, Len(s), ParamEdge)
               <=> \/ GoesOn(n, s, Len(s), ParamEdge)
                   \/ /\ Agrees(n + 1, s, Len(s)) /\ Len(s) < Len(w)
                      /\ Edge(w[Len(s) + 1]) = ParamEdge
  <2> TAKE s
  <2> DEFINE on(r) == /\ Agrees(r, s, Len(s)) /\ Len(s) < Len(W(r))
                      /\ Edge(W(r)[Len(s) + 1]) = ParamEdge
  <2>1. (\E r \in 1..n + 1 : on(r)) <=> (\E r \in 1..n : on(r)) \/ on(n + 1)
    <3> HIDE DEF on
    <3> QED
      BY <1>1
  <2> QED
    BY <2>1 DEF GoesOn
<1>10. ASSUME NEW s \in DOMAIN g
       PROVE  /\ IsRecord(g[s])
              /\ g[s].param # NoName <=> GoesOn(n + 1, s, Len(s), ParamEdge)
              /\ TableIs(g[s].handlers, PlainAt(n, s))
              /\ TableIs(g[s].wildcard, WildAt(n, s))
  <2> DEFINE t == There(trie, s)
             x == IF names(s) THEN w[Len(s) + 1].text ELSE t.param
  <2>1. IsNode(s)
    BY <1>5, <1>6, <1>7
  <2>2. NodeIs(t, s, n)
    BY <1>1, <2>1, ThereIs
  <2>3. /\ t = [param |-> t.param, wildcard |-> t.wildcard, handlers |-> t.handlers]
        /\ t.param # NoName <=> GoesOn(n, s, Len(s), ParamEdge)
        /\ TableIs(t.handlers, PlainAt(n, s)) /\ TableIs(t.wildcard, WildAt(n, s))
    BY <2>2 DEF NodeIs, IsRecord
  <2>4. g[s] = [t EXCEPT !.param = x]
    BY <1>7
  <2>5. names(s) <=> /\ Agrees(n + 1, s, Len(s)) /\ Len(s) < Len(w)
                     /\ w[Len(s) + 1].kind = "param" /\ t.param = NoName
    <3> HIDE DEF here, w
    <3> QED
      BY <1>4, <2>1
  <2>6. Len(s) < Len(w) => /\ w[Len(s) + 1].kind = "param" <=> Edge(w[Len(s) + 1]) = ParamEdge
                           /\ w[Len(s) + 1].kind = "param" => w[Len(s) + 1].text \in ParamName
    <3> SUFFICES ASSUME Len(s) < Len(w)
                 PROVE  /\ w[Len(s) + 1].kind = "param" <=> Edge(w[Len(s) + 1]) = ParamEdge
                        /\ w[Len(s) + 1].kind = "param" => w[Len(s) + 1].text \in ParamName
      OBVIOUS
    <3>1. Len(s) + 1 \in 1..Len(w)
      BY <1>2, <2>1 DEF IsNode
    <3> HIDE DEF w
    <3> QED
      BY <1>2, <3>1, EdgesDiffer
  <2>7. x # NoName <=> GoesOn(n + 1, s, Len(s), ParamEdge)
    <3> HIDE DEF names, t, w
    <3> QED
      BY <1>9, <2>3, <2>5, <2>6, RouterAssumption
  <2> HIDE DEF t, x
  <2>8. /\ g[s].param = x /\ g[s].wildcard = t.wildcard /\ g[s].handlers = t.handlers
        /\ IsRecord(g[s])
    BY <2>3, <2>4 DEF IsRecord
  <2> QED
    BY <2>3, <2>7, <2>8
<1>11. /\ \A s \in DOMAIN g : IsNode(s)
       /\ \A s : IsNode(s) => (s \in DOMAIN g <=> IsReached(n + 1, s))
  <2> HIDE DEF here
  <2> QED
    BY <1>4, <1>5, <1>6, <1>7, <1>8
<1> QED
  BY <1>7, <1>10, <1>11 DEF g

LEMMA InsertIs ==
  ASSUME routes \in Seq(RouteOf), NEW n \in 0..Len(routes) - 1, NEW trie, TrieIs(trie, n)
  PROVE  TrieIs(InsertRoute(trie, n + 1), n + 1)
<1> DEFINE w == W(n + 1)
           end == NodeAt(w, Len(w))
           method == routes[n + 1].method
           wild == Wild(routes[n + 1])
           g == Grown(trie, w)
           h == InsertRoute(trie, n + 1)
<1>1. /\ n \in Nat /\ n + 1 \in DOMAIN routes /\ n + 1 \in 1..Len(routes)
  OBVIOUS
<1>2. Len(w) \in Nat
  BY <1>1, RouteFacts
<1>3. /\ g = [s \in DOMAIN g |-> g[s]]
      /\ \A s \in DOMAIN g : IsNode(s)
      /\ \A s : IsNode(s) => (s \in DOMAIN g <=> IsReached(n + 1, s))
      /\ \A s \in DOMAIN g :
           /\ IsRecord(g[s])
           /\ g[s].param # NoName <=> GoesOn(n + 1, s, Len(s), ParamEdge)
           /\ TableIs(g[s].handlers, PlainAt(n, s))
           /\ TableIs(g[s].wildcard, WildAt(n, s))
  BY GrownIs, SMTT(30)
<1>4. /\ wild => h = [g EXCEPT ![end].wildcard = PutHandler(@, method, n + 1)]
      /\ ~wild => h = [g EXCEPT ![end].handlers = PutHandler(@, method, n + 1)]
  BY DEF InsertRoute, Wild, W
<1>5. \A s : IsNode(s) => (s = end <=> Len(w) = Len(s) /\ Agrees(n + 1, s, Len(s)))
  <2>1. Len(w) \in 0..Len(w)
    BY <1>2
  <2> QED
    BY <1>1, <2>1, NodeAgrees
<1>6. IsNode(end)
  BY <1>1, <1>2, NodeFacts, SMTT(30) DEF IsNode
<1>7. end \in DOMAIN g
  <2>1. IsReached(n + 1, end)
    BY <1>1, <1>5, <1>6 DEF IsReached
  <2> QED
    BY <1>3, <1>6, <2>1
<1> HIDE DEF end, g, h, wild, method
<1>8. ASSUME NEW s, IsNode(s)
      PROVE  /\ s # end => PlainAt(n + 1, s) = PlainAt(n, s) /\ WildAt(n + 1, s) = WildAt(n, s)
             /\ s = end /\ wild => /\ PlainAt(n + 1, s) = PlainAt(n, s)
                                   /\ WildAt(n + 1, s) = WildAt(n, s) \cup {n + 1}
             /\ s = end /\ ~wild => /\ PlainAt(n + 1, s) = PlainAt(n, s) \cup {n + 1}
                                    /\ WildAt(n + 1, s) = WildAt(n, s)
  <2> DEFINE ends(r) == Len(W(r)) = Len(s) /\ Agrees(r, s, Len(s))
             isWild(r) == Wild(routes[r])
  <2>1. /\ PlainAt(n, s) = {r \in 1..n : ends(r) /\ ~isWild(r)}
        /\ WildAt(n, s) = {r \in 1..n : ends(r) /\ isWild(r)}
        /\ PlainAt(n + 1, s) = {r \in 1..n + 1 : ends(r) /\ ~isWild(r)}
        /\ WildAt(n + 1, s) = {r \in 1..n + 1 : ends(r) /\ isWild(r)}
    BY DEF PlainAt, WildAt, EndsAt
  <2>2. (ends(n + 1) <=> s = end) /\ (isWild(n + 1) <=> wild)
    BY <1>5, <1>8 DEF wild
  <2>3. \A r : r \in 1..n + 1 <=> r \in 1..n \/ r = n + 1
    BY <1>1
  <2> HIDE DEF ends, isWild
  <2>4. /\ \A r : r \in PlainAt(n, s) <=> r \in 1..n /\ ends(r) /\ ~isWild(r)
        /\ \A r : r \in WildAt(n, s) <=> r \in 1..n /\ ends(r) /\ isWild(r)
        /\ \A r : r \in PlainAt(n + 1, s) <=> (r \in 1..n \/ r = n + 1) /\ ends(r) /\ ~isWild(r)
        /\ \A r : r \in WildAt(n + 1, s) <=> (r \in 1..n \/ r = n + 1) /\ ends(r) /\ isWild(r)
    BY <2>1, <2>3
  <2>5. s # end => PlainAt(n + 1, s) = PlainAt(n, s) /\ WildAt(n + 1, s) = WildAt(n, s)
    BY ONLY <2>2, <2>4, Zenon
  <2>6. s = end /\ wild => /\ PlainAt(n + 1, s) = PlainAt(n, s)
                           /\ WildAt(n + 1, s) = WildAt(n, s) \cup {n + 1}
    BY ONLY <2>2, <2>4, Zenon
  <2>7. s = end /\ ~wild => /\ PlainAt(n + 1, s) = PlainAt(n, s) \cup {n + 1}
                            /\ WildAt(n + 1, s) = WildAt(n, s)
    BY ONLY <2>2, <2>4, Zenon
  <2> QED
    BY <2>5, <2>6, <2>7
<1>9. /\ h = [s \in DOMAIN h |-> h[s]] /\ DOMAIN h = DOMAIN g
      /\ \A s \in DOMAIN g : s # end => h[s] = g[s]
      /\ wild => h[end] = [g[end] EXCEPT !.wildcard = PutHandler(@, method, n + 1)]
      /\ ~wild => h[end] = [g[end] EXCEPT !.handlers = PutHandler(@, method, n + 1)]
  <2>1. CASE wild
    BY <1>3, <1>4, <1>7, <2>1
  <2>2. CASE ~wild
    BY <1>3, <1>4, <1>7, <2>2
  <2> QED
    BY <2>1, <2>2
<1>10. PlainAt(n, end) \in SUBSET (1..n) /\ WildAt(n, end) \in SUBSET (1..n)
  BY DEF PlainAt, WildAt, EndsAt
<1>11. /\ TableIs(PutHandler(g[end].handlers, method, n + 1), PlainAt(n, end) \cup {n + 1})
       /\ TableIs(PutHandler(g[end].wildcard, method, n + 1), WildAt(n, end) \cup {n + 1})
  BY <1>1, <1>3, <1>7, <1>10, PutIs DEF method
<1>12. NodeIs(h[end], end, n + 1)
  <2>1. IsRecord(g[end])
    BY <1>3, <1>7
  <2>2. CASE wild
    <3>1. /\ h[end].param = g[end].param /\ h[end].handlers = g[end].handlers
          /\ h[end].wildcard = PutHandler(g[end].wildcard, method, n + 1)
          /\ IsRecord(h[end])
      BY <1>9, <2>1, <2>2 DEF IsRecord
    <3> QED
      BY <1>3, <1>6, <1>7, <1>8, <1>11, <2>2, <3>1 DEF NodeIs
  <2>3. CASE ~wild
    <3>1. /\ h[end].param = g[end].param /\ h[end].wildcard = g[end].wildcard
          /\ h[end].handlers = PutHandler(g[end].handlers, method, n + 1)
          /\ IsRecord(h[end])
      BY <1>9, <2>1, <2>3 DEF IsRecord
    <3> QED
      BY <1>3, <1>6, <1>7, <1>8, <1>11, <2>3, <3>1 DEF NodeIs
  <2> QED
    BY <2>2, <2>3
<1>13. \A s \in DOMAIN g : s # end => NodeIs(h[s], s, n + 1)
  BY <1>3, <1>8, <1>9 DEF NodeIs
<1>14. TrieIs(h, n + 1)
  BY <1>3, <1>9, <1>12, <1>13 DEF TrieIs
<1> QED
  BY <1>14 DEF h

\* The trie built so far, for the first n routes.
BuiltUpTo(t, n) ==
  \A m \in 0..n : t[m] = IF m = 0 THEN [node \in {<<>>} |-> EmptyNode] ELSE InsertRoute(t[m - 1], m)

LEMMA RootIs == TrieIs([node \in {<<>>} |-> EmptyNode], 0)
<1> DEFINE t == [node \in {<<>>} |-> EmptyNode]
<1>1. t = [s \in DOMAIN t |-> t[s]] /\ DOMAIN t = {<<>>} /\ t[<<>>] = EmptyNode
  OBVIOUS
<1>2. IsNode(<<>>)
  <2>1. Len(<<>>) = 0 /\ <<>> = [k \in 1..0 |-> <<>>[k]]
    OBVIOUS
  <2> QED
    BY <2>1 DEF IsNode
<1>3. NodeIs(EmptyNode, <<>>, 0)
  <2>1. PlainAt(0, <<>>) = {} /\ WildAt(0, <<>>) = {} /\ ~GoesOn(0, <<>>, Len(<<>>), ParamEdge)
    BY DEF PlainAt, WildAt, EndsAt, GoesOn
  <2>2. /\ IsRecord(EmptyNode) /\ EmptyNode.param = NoName
        /\ EmptyNode.handlers = NoHandlers /\ EmptyNode.wildcard = NoHandlers
    BY DEF EmptyNode, IsRecord
  <2> QED
    BY <2>1, <2>2, EmptyTable DEF NodeIs
<1>4. \A s : IsReached(0, s) <=> s = <<>>
  BY DEF IsReached
<1> HIDE DEF t
<1>5. TrieIs(t, 0)
  BY <1>1, <1>2, <1>3, <1>4 DEF TrieIs
<1> QED
  BY <1>5 DEF t

LEMMA BuiltExists == \A n \in Nat : \E t : BuiltUpTo(t, n)
<1> DEFINE P == {n \in Nat : \E t : BuiltUpTo(t, n)}
           root == [node \in {<<>>} |-> EmptyNode]
<1>1. 0 \in P
  <2> DEFINE t == [m \in {0} |-> root]
  <2>1. t[0] = root /\ \A m \in 0..0 : m = 0
    OBVIOUS
  <2> HIDE DEF t
  <2>2. BuiltUpTo(t, 0)
    BY <2>1 DEF BuiltUpTo
  <2> QED
    BY <2>2
<1>2. ASSUME NEW n \in Nat, n \in P PROVE n + 1 \in P
  <2>1. PICK t : BuiltUpTo(t, n)
    BY <1>2
  <2> DEFINE u == [m \in 0..n + 1 |-> IF m = n + 1 THEN InsertRoute(t[n], n + 1) ELSE t[m]]
  <2>2. /\ \A m \in 0..n : u[m] = t[m]
        /\ u[n + 1] = InsertRoute(t[n], n + 1)
    OBVIOUS
  <2> HIDE DEF u
  <2>3. ASSUME NEW m \in 0..n + 1
        PROVE  u[m] = IF m = 0 THEN root ELSE InsertRoute(u[m - 1], m)
    <3>1. CASE m = n + 1
      <4>1. m - 1 = n /\ m # 0 /\ u[n] = t[n] /\ u[m - 1] = u[n]
        BY <2>2, <3>1
      <4> QED
        BY <2>2, <3>1, <4>1
    <3>2. CASE m \in 0..n
      <4>1. u[m] = t[m] /\ (m # 0 => u[m - 1] = t[m - 1])
        BY <2>2, <3>2
      <4>2. t[m] = IF m = 0 THEN root ELSE InsertRoute(t[m - 1], m)
        BY <2>1, <3>2 DEF BuiltUpTo
      <4> QED
        BY <4>1, <4>2
    <3> QED
      BY <3>1, <3>2
  <2>4. BuiltUpTo(u, n + 1)
    BY <2>3 DEF BuiltUpTo
  <2> QED
    BY <2>4
<1> HIDE DEF P
<1>3. \A n \in Nat : n \in P
  BY <1>1, <1>2, NatSetInduction
<1> QED
  BY <1>3 DEF P

\* buildTrie makes the trie of all routes.
LEMMA BuildTrieIs ==
  ASSUME routes \in Seq(RouteOf)
  PROVE  TrieIs(BuildTrie, Len(routes))
<1> DEFINE N == Len(routes)
           root == [node \in {<<>>} |-> EmptyNode]
           tries(f) == [n \in 0..N |-> IF n = 0 THEN root ELSE InsertRoute(f[n - 1], n)]
           trie == CHOOSE f : f = tries(f)
<1>1. N \in Nat
  OBVIOUS
<1>2. \E f : f = tries(f)
  <2>1. PICK t : BuiltUpTo(t, N)
    BY <1>1, BuiltExists
  <2> DEFINE f == [n \in 0..N |-> t[n]]
  <2> HIDE DEF N
  <2>2. \A n \in 0..N : f[n] = IF n = 0 THEN root ELSE InsertRoute(f[n - 1], n)
    <3> SUFFICES ASSUME NEW n \in 0..N PROVE f[n] = IF n = 0 THEN root ELSE InsertRoute(f[n - 1], n)
      OBVIOUS
    <3>1. f[n] = t[n] /\ (n # 0 => f[n - 1] = t[n - 1])
      BY <1>1
    <3>2. t[n] = IF n = 0 THEN root ELSE InsertRoute(t[n - 1], n)
      BY <2>1 DEF BuiltUpTo
    <3> HIDE DEF f
    <3> QED
      BY <3>1, <3>2
  <2>3. f = [n \in 0..N |-> f[n]]
    OBVIOUS
  <2> HIDE DEF f
  <2>4. f = tries(f)
    BY <2>2, <2>3
  <2> QED
    BY <2>4
<1>3. BuildTrie = trie[N]
  BY DEF BuildTrie
<1>4. trie = tries(trie)
  <2> HIDE DEF tries
  <2> QED
    BY <1>2
<1> HIDE DEF trie, N
<1>5. \A n \in 0..N : trie[n] = IF n = 0 THEN root ELSE InsertRoute(trie[n - 1], n)
  BY <1>4
<1> DEFINE P == {n \in Nat : n <= N => TrieIs(trie[n], n)}
<1>6. 0 \in P
  <2>1. trie[0] = root
    BY <1>1, <1>5
  <2> QED
    BY <2>1, RootIs
<1>7. ASSUME NEW n \in Nat, n \in P PROVE n + 1 \in P
  <2> SUFFICES ASSUME n + 1 <= N PROVE TrieIs(trie[n + 1], n + 1)
    OBVIOUS
  <2>1. n \in 0..N - 1 /\ TrieIs(trie[n], n)
    BY <1>1, <1>7
  <2>2. trie[n + 1] = InsertRoute(trie[n], n + 1)
    <3>1. n + 1 \in 0..N /\ n + 1 # 0 /\ (n + 1) - 1 = n
      BY <1>1
    <3> QED
      BY <1>5, <3>1
  <2>3. n \in 0..Len(routes) - 1
    BY <2>1 DEF N
  <2> QED
    BY <2>1, <2>2, <2>3, InsertIs
<1> HIDE DEF P
<1>8. N \in P
  BY <1>1, <1>6, <1>7, NatSetInduction
<1> QED
  BY <1>1, <1>3, <1>8 DEF P, N

-----------------------------------------------------------------------------
\* Where the walk of a path has come to after i segments of it: by static edges, and by
\* parameters where there is no static one, as far as the trie goes.
WalkSays(path, s, i) ==
  /\ IsNode(s) /\ Len(s) <= i /\ IsReached(Len(routes), s)
  /\ \A k \in 1..Len(s) :
       \/ s[k] = StaticEdge(path[k])
       \/ s[k] = ParamEdge /\ ~GoesOn(Len(routes), s, k - 1, StaticEdge(path[k]))
  /\ Len(s) < i => /\ ~GoesOn(Len(routes), s, Len(s), StaticEdge(path[Len(s) + 1]))
                   /\ ~GoesOn(Len(routes), s, Len(s), ParamEdge)

\* Going on from the first j edges is the same for a node and its child.
LEMMA GoesOnChild ==
  ASSUME NEW n \in Nat, NEW s, IsNode(s), NEW d, NEW j \in 0..Len(s), NEW e
  PROVE  GoesOn(n, Append(s, d), j, e) <=> GoesOn(n, s, j, e)
<1>1. \A k \in 1..j : Append(s, d)[k] = s[k]
  BY ChildFacts DEF IsNode
<1>2. \A r \in 1..n : Agrees(r, Append(s, d), j) <=> Agrees(r, s, j)
  BY <1>1 DEF Agrees
<1> QED
  BY <1>2 DEF GoesOn

\* The walk goes down to a child.
LEMMA WalkDown ==
  ASSUME routes \in Seq(RouteOf), NEW path, NEW s, NEW i \in Nat,
         WalkSays(path, s, i), Len(s) = i, NEW e, IsReached(Len(routes), Append(s, e)),
         \/ e = StaticEdge(path[i + 1])
         \/ e = ParamEdge /\ ~GoesOn(Len(routes), s, i, StaticEdge(path[i + 1]))
  PROVE  WalkSays(path, Append(s, e), i + 1)
<1> DEFINE t == Append(s, e)
           N == Len(routes)
<1>1. N \in Nat
  OBVIOUS
<1>2. IsNode(s)
  BY DEF WalkSays
<1>3. /\ IsNode(t) /\ Len(t) = i + 1 /\ t[i + 1] = e
      /\ \A k \in 1..i : t[k] = s[k]
  BY <1>2, ChildFacts
<1>4. \A x : \A j \in 0..i : GoesOn(N, t, j, x) <=> GoesOn(N, s, j, x)
  BY <1>1, <1>2, GoesOnChild
<1> HIDE DEF t, N
<1>5. ASSUME NEW k \in 1..i + 1
      PROVE  \/ t[k] = StaticEdge(path[k])
             \/ t[k] = ParamEdge /\ ~GoesOn(N, t, k - 1, StaticEdge(path[k]))
  <2>1. CASE k \in 1..i
    <3>1. k - 1 \in 0..i /\ t[k] = s[k]
      BY <1>3, <2>1
    <3>2. \/ s[k] = StaticEdge(path[k])
          \/ s[k] = ParamEdge /\ ~GoesOn(N, s, k - 1, StaticEdge(path[k]))
      BY <2>1 DEF WalkSays, N
    <3> QED
      BY <1>4, <3>1, <3>2
  <2>2. CASE k = i + 1
    <3>1. k - 1 = i /\ i \in 0..i
      BY <2>2
    <3> QED
      BY <1>3, <1>4, <2>2, <3>1 DEF N
  <2> QED
    BY <2>1, <2>2
<1>6. IsReached(N, t)
  BY DEF t, N
<1>7. Len(t) <= i + 1 /\ ~(Len(t) < i + 1)
  BY <1>3
<1>8. WalkSays(path, t, i + 1)
  BY <1>3, <1>5, <1>6, <1>7 DEF WalkSays, N
<1> QED
  BY <1>8 DEF t

\* One segment of the walk.
WalkStep(trie, path, at, i) ==
  LET down(edge) == Append(at.node, edge)
      name == trie[at.node].param
  IN  IF Len(at.node) < i - 1 THEN at
      ELSE IF down(StaticEdge(path[i])) \in DOMAIN trie
           THEN [at EXCEPT !.node = down(StaticEdge(path[i]))]
      ELSE IF name # NoName
           THEN [node |-> down(ParamEdge), params |-> MapSet(at.params, name, <<path[i]>>)]
      ELSE at

IsAt(at) == at = [node |-> at.node, params |-> at.params]

LEMMA WalkSteps ==
  ASSUME routes \in Seq(RouteOf), NEW trie, TrieIs(trie, Len(routes)), NEW path,
         NEW at, IsAt(at), NEW i \in Nat, WalkSays(path, at.node, i)
  PROVE  /\ IsAt(WalkStep(trie, path, at, i + 1))
         /\ WalkSays(path, WalkStep(trie, path, at, i + 1).node, i + 1)
<1> DEFINE s == at.node
           N == Len(routes)
           static == StaticEdge(path[i + 1])
           next == WalkStep(trie, path, at, i + 1)
<1>1. /\ IsNode(s) /\ Len(s) <= i /\ IsReached(N, s) /\ Len(s) \in Nat
      /\ \A k \in 1..Len(s) :
           \/ s[k] = StaticEdge(path[k])
           \/ s[k] = ParamEdge /\ ~GoesOn(N, s, k - 1, StaticEdge(path[k]))
      /\ Len(s) < i => /\ ~GoesOn(N, s, Len(s), StaticEdge(path[Len(s) + 1]))
                       /\ ~GoesOn(N, s, Len(s), ParamEdge)
  BY DEF WalkSays, IsNode
<1>2. s \in DOMAIN trie
  BY <1>1 DEF TrieIs
<1>3. \A e : /\ Append(s, e) \in DOMAIN trie <=> GoesOn(N, s, Len(s), e)
             /\ IsReached(N, Append(s, e)) <=> GoesOn(N, s, Len(s), e)
  <2> TAKE e
  <2>1. N \in 0..Len(routes)
    OBVIOUS
  <2>2. IsNode(Append(s, e))
    BY <1>1, ChildFacts
  <2>3. IsReached(N, Append(s, e)) <=> GoesOn(N, s, Len(s), e)
    BY <1>1, <2>1, ReachedChild
  <2> QED
    BY <2>2, <2>3 DEF TrieIs
<1>4. trie[s].param # NoName <=> GoesOn(N, s, Len(s), ParamEdge)
  BY <1>2 DEF TrieIs, NodeIs
<1>5. CASE Len(s) < i
  <2>1. next = at
    <3>1. Len(s) < (i + 1) - 1
      BY <1>5
    <3> QED
      BY <3>1 DEF WalkStep
  <2>2. Len(s) <= i + 1
    BY <1>1
  <2>3. WalkSays(path, s, i + 1)
    BY <1>1, <1>5, <2>2 DEF WalkSays
  <2> QED
    BY <2>1, <2>3
<1>6. CASE Len(s) = i
  <2>1. ~(Len(s) < (i + 1) - 1)
    BY <1>6
  <2>2. CASE Append(s, static) \in DOMAIN trie
    <3>1. next = [at EXCEPT !.node = Append(s, static)]
      BY <2>1, <2>2 DEF WalkStep
    <3>2. IsAt(next) /\ next.node = Append(s, static)
      BY <3>1 DEF IsAt
    <3>3. IsReached(N, Append(s, static))
      BY <1>3, <2>2
    <3>4. WalkSays(path, Append(s, static), i + 1)
      BY <1>6, <3>3, WalkDown
    <3> QED
      BY <3>2, <3>4
  <2>3. CASE Append(s, static) \notin DOMAIN trie /\ trie[s].param # NoName
    <3>1. /\ IsAt(next) /\ next.node = Append(s, ParamEdge)
      BY <2>1, <2>3 DEF WalkStep, IsAt
    <3>2. IsReached(N, Append(s, ParamEdge)) /\ ~GoesOn(N, s, i, static)
      BY <1>3, <1>4, <1>6, <2>3
    <3>3. WalkSays(path, Append(s, ParamEdge), i + 1)
      BY <1>6, <3>2, WalkDown
    <3> QED
      BY <3>1, <3>3
  <2>4. CASE Append(s, static) \notin DOMAIN trie /\ trie[s].param = NoName
    <3>1. next = at
      BY <2>1, <2>4 DEF WalkStep
    <3>2. ~GoesOn(N, s, Len(s), static) /\ ~GoesOn(N, s, Len(s), ParamEdge)
      BY <1>3, <1>4, <2>4
    <3>3. Len(s) <= i + 1 /\ path[Len(s) + 1] = path[i + 1]
      BY <1>1, <1>6
    <3>4. WalkSays(path, s, i + 1)
      BY <1>1, <3>2, <3>3 DEF WalkSays
    <3> QED
      BY <3>1, <3>4
  <2> QED
    BY <2>2, <2>3, <2>4
<1> QED
  BY <1>1, <1>5, <1>6

WalkStart == [node |-> <<>>, params |-> [n \in {} |-> <<>>]]

\* The walk so far, over the first n segments.
WalkedUpTo(walk, trie, path, n) ==
  \A i \in 0..n : walk[i] = IF i = 0 THEN WalkStart ELSE WalkStep(trie, path, walk[i - 1], i)

LEMMA WalkedExists ==
  ASSUME NEW trie, NEW path
  PROVE  \A n \in Nat : \E walk : WalkedUpTo(walk, trie, path, n)
<1> DEFINE P == {n \in Nat : \E walk : WalkedUpTo(walk, trie, path, n)}
<1>1. 0 \in P
  <2> DEFINE walk == [m \in {0} |-> WalkStart]
  <2>1. walk[0] = WalkStart /\ \A m \in 0..0 : m = 0
    OBVIOUS
  <2> HIDE DEF walk
  <2>2. WalkedUpTo(walk, trie, path, 0)
    BY <2>1 DEF WalkedUpTo
  <2> QED
    BY <2>2
<1>2. ASSUME NEW n \in Nat, n \in P PROVE n + 1 \in P
  <2>1. PICK walk : WalkedUpTo(walk, trie, path, n)
    BY <1>2
  <2> DEFINE u == [m \in 0..n + 1 |-> IF m = n + 1 THEN WalkStep(trie, path, walk[n], n + 1) ELSE walk[m]]
  <2>2. /\ \A m \in 0..n : u[m] = walk[m]
        /\ u[n + 1] = WalkStep(trie, path, walk[n], n + 1)
    OBVIOUS
  <2> HIDE DEF u
  <2>3. ASSUME NEW m \in 0..n + 1
        PROVE  u[m] = IF m = 0 THEN WalkStart ELSE WalkStep(trie, path, u[m - 1], m)
    <3>1. CASE m = n + 1
      <4>1. m - 1 = n /\ m # 0 /\ u[n] = walk[n] /\ u[m - 1] = u[n]
        BY <2>2, <3>1
      <4> QED
        BY <2>2, <3>1, <4>1
    <3>2. CASE m \in 0..n
      <4>1. u[m] = walk[m] /\ (m # 0 => u[m - 1] = walk[m - 1])
        BY <2>2, <3>2
      <4>2. walk[m] = IF m = 0 THEN WalkStart ELSE WalkStep(trie, path, walk[m - 1], m)
        BY <2>1, <3>2 DEF WalkedUpTo
      <4> QED
        BY <4>1, <4>2
    <3> QED
      BY <3>1, <3>2
  <2>4. WalkedUpTo(u, trie, path, n + 1)
    BY <2>3 DEF WalkedUpTo
  <2> QED
    BY <2>4
<1> HIDE DEF P
<1>3. \A n \in Nat : n \in P
  BY <1>1, <1>2, NatSetInduction
<1> QED
  BY <1>3 DEF P

LEMMA WalkIs ==
  ASSUME routes \in Seq(RouteOf), NEW trie, TrieIs(trie, Len(routes)),
         NEW path, Len(path) \in Nat
  PROVE  WalkSays(path, Walk(trie, path).node, Len(path))
<1> DEFINE L == Len(path)
           walks(f) == [i \in 0..L |-> IF i = 0 THEN WalkStart ELSE WalkStep(trie, path, f[i - 1], i)]
           walk == CHOOSE f : f = walks(f)
<1>1. \E f : f = walks(f)
  <2>1. PICK t : WalkedUpTo(t, trie, path, L)
    BY WalkedExists
  <2> DEFINE f == [n \in 0..L |-> t[n]]
  <2>2. \A n \in 0..L : f[n] = IF n = 0 THEN WalkStart ELSE WalkStep(trie, path, f[n - 1], n)
    <3> SUFFICES ASSUME NEW n \in 0..L
                 PROVE  f[n] = IF n = 0 THEN WalkStart ELSE WalkStep(trie, path, f[n - 1], n)
      OBVIOUS
    <3>1. f[n] = t[n] /\ (n # 0 => f[n - 1] = t[n - 1])
      OBVIOUS
    <3>2. t[n] = IF n = 0 THEN WalkStart ELSE WalkStep(trie, path, t[n - 1], n)
      BY <2>1 DEF WalkedUpTo
    <3> HIDE DEF f
    <3> QED
      BY <3>1, <3>2
  <2>3. f = [n \in 0..L |-> f[n]]
    OBVIOUS
  <2> HIDE DEF f
  <2>4. f = walks(f)
    BY <2>2, <2>3
  <2> QED
    BY <2>4
<1>2. Walk(trie, path) = walk[L]
  BY DEF Walk, WalkStep, WalkStart
<1>3. walk = walks(walk)
  <2> HIDE DEF walks
  <2> QED
    BY <1>1
<1> HIDE DEF walk
<1>4. \A n \in 0..L : walk[n] = IF n = 0 THEN WalkStart ELSE WalkStep(trie, path, walk[n - 1], n)
  BY <1>3
<1> DEFINE P == {n \in Nat : n <= L => IsAt(walk[n]) /\ WalkSays(path, walk[n].node, n)}
<1>5. 0 \in P
  <2>1. walk[0] = WalkStart
    BY <1>4
  <2>2. WalkStart.node = <<>> /\ IsAt(WalkStart)
    BY DEF WalkStart, IsAt
  <2>3. IsNode(<<>>) /\ Len(<<>>) = 0
    <3>1. Len(<<>>) = 0 /\ <<>> = [k \in 1..0 |-> <<>>[k]]
      OBVIOUS
    <3> QED
      BY <3>1 DEF IsNode
  <2>4. WalkSays(path, <<>>, 0)
    BY <2>3 DEF WalkSays, IsReached
  <2> QED
    BY <2>1, <2>2, <2>4
<1>6. ASSUME NEW n \in Nat, n \in P PROVE n + 1 \in P
  <2> SUFFICES ASSUME n + 1 <= L
               PROVE  IsAt(walk[n + 1]) /\ WalkSays(path, walk[n + 1].node, n + 1)
    OBVIOUS
  <2>1. IsAt(walk[n]) /\ WalkSays(path, walk[n].node, n)
    BY <1>6
  <2>2. walk[n + 1] = WalkStep(trie, path, walk[n], n + 1)
    <3>1. n + 1 \in 0..L /\ n + 1 # 0 /\ (n + 1) - 1 = n
      OBVIOUS
    <3> QED
      BY <1>4, <3>1
  <2> QED
    BY <2>1, <2>2, WalkSteps
<1> HIDE DEF P
<1>7. L \in P
  BY <1>5, <1>6, NatSetInduction
<1> QED
  BY <1>2, <1>7 DEF P

-----------------------------------------------------------------------------
\* resolveHandler takes the latest handler of the request's method, or else of ALL.
LEMMA ResolveIs ==
  ASSUME NEW n \in Nat, NEW S \in SUBSET (1..n), NEW t, TableIs(t, S), NEW verb
  PROVE  LET h == ResolveHandler(t, verb)
         IN  /\ h = 0 => \A r \in S : ~Serves(r, verb)
             /\ h # 0 => /\ h \in S /\ Serves(h, verb)
                         /\ \A r \in S : /\ routes[r].method = routes[h].method => r <= h
                                         /\ routes[r].method = verb => routes[h].method = verb
<1>1. /\ DOMAIN t = {routes[r].method : r \in S}
      /\ \A v \in DOMAIN t : /\ t[v] \in S /\ routes[t[v]].method = v
                             /\ \A r \in S : routes[r].method = v => r <= t[v]
  BY DEF TableIs
<1>2. \A r \in S : r # 0
  OBVIOUS
<1>3. CASE verb \in DOMAIN t
  <2>1. ResolveHandler(t, verb) = t[verb]
    BY <1>3 DEF ResolveHandler
  <2> QED
    BY <1>1, <1>2, <1>3, <2>1 DEF Serves
<1>4. CASE verb \notin DOMAIN t /\ "ALL" \in DOMAIN t
  <2>1. ResolveHandler(t, verb) = t["ALL"]
    BY <1>4 DEF ResolveHandler
  <2> QED
    BY <1>1, <1>2, <1>4, <2>1 DEF Serves
<1>5. CASE verb \notin DOMAIN t /\ "ALL" \notin DOMAIN t
  <2>1. ResolveHandler(t, verb) = 0
    BY <1>5 DEF ResolveHandler
  <2> QED
    BY <1>1, <1>5, <2>1 DEF Serves
<1> QED
  BY <1>3, <1>4, <1>5

\* A route that ends where the walk does goes along the path.
LEMMA EndsAlong ==
  ASSUME routes \in Seq(RouteOf), NEW path, Len(path) \in Nat, NEW s, WalkSays(path, s, Len(path)),
         NEW r \in DOMAIN routes, NEW j \in 0..Len(s), Agrees(r, s, j)
  PROVE  GoesAlong(r, j, path)
<1>1. /\ Len(s) \in Nat /\ Len(s) <= Len(path) /\ j <= Len(W(r)) /\ Len(W(r)) \in Nat
      /\ \A k \in 1..j : s[k] = Edge(W(r)[k])
      /\ \A k \in 1..Len(s) : s[k] = StaticEdge(path[k]) \/ s[k] = ParamEdge
  BY RouteFacts DEF WalkSays, IsNode, Agrees
<1>2. ASSUME NEW k \in 1..j, W(r)[k].kind = "static" PROVE W(r)[k].text = path[k]
  <2>1. k \in 1..Len(W(r)) /\ k \in 1..Len(s)
    BY <1>1
  <2>2. Edge(W(r)[k]) = StaticEdge(W(r)[k].text)
    BY <1>2, <2>1, RouteFacts
  <2>3. s[k] = StaticEdge(path[k])
    BY <1>1, <2>1, <2>2, EdgesDiffer
  <2> QED
    BY <1>1, <2>2, <2>3, EdgesDiffer
<1>3. j <= Len(path)
  BY <1>1
<1> QED
  BY <1>1, <1>2, <1>3 DEF GoesAlong, W

LEMMA RankIs ==
  ASSUME routes \in Seq(RouteOf), NEW r \in DOMAIN routes, NEW i \in Nat \ {0}
  PROVE  \/ i > Len(W(r)) /\ Rank(r, i) = 3
         \/ /\ i \in 1..Len(W(r)) /\ Rank(r, i) = 1 /\ W(r)[i].kind = "static"
            /\ Edge(W(r)[i]) = StaticEdge(W(r)[i].text)
         \/ /\ i \in 1..Len(W(r)) /\ Rank(r, i) = 2 /\ W(r)[i].kind = "param"
            /\ Edge(W(r)[i]) = ParamEdge
<1>1. Len(W(r)) \in Nat
  BY RouteFacts
<1>2. CASE i > Len(W(r))
  BY <1>2 DEF Rank, W
<1>3. CASE i \in 1..Len(W(r))
  <2>1. \/ W(r)[i].kind = "static" /\ Edge(W(r)[i]) = StaticEdge(W(r)[i].text)
        \/ W(r)[i].kind = "param" /\ Edge(W(r)[i]) = ParamEdge
    BY <1>3, RouteFacts
  <2>2. ~(i > Len(W(r)))
    BY <1>1, <1>3
  <2>3. Rank(r, i) = IF W(r)[i].kind = "static" THEN 1 ELSE 2
    BY <2>2 DEF Rank, W
  <2> QED
    BY <1>3, <2>1, <2>3
<1> QED
  BY <1>1, <1>2, <1>3

\* A route that goes along the path takes its segment there or a parameter.
LEMMA AlongEdge ==
  ASSUME routes \in Seq(RouteOf), NEW path, Len(path) \in Nat, NEW r \in DOMAIN routes,
         NEW n \in Nat, GoesAlong(r, n, path), NEW k \in 1..n
  PROVE  /\ k \in 1..Len(W(r))
         /\ \/ Rank(r, k) = 1 /\ Edge(W(r)[k]) = StaticEdge(path[k])
            \/ Rank(r, k) = 2 /\ Edge(W(r)[k]) = ParamEdge
<1>1. /\ n <= Len(W(r)) /\ Len(W(r)) \in Nat
      /\ \A i \in 1..n : W(r)[i].kind = "static" => W(r)[i].text = path[i]
  BY RouteFacts DEF GoesAlong, W
<1>2. k \in 1..Len(W(r)) /\ k \in Nat \ {0}
  BY <1>1
<1> QED
  BY <1>1, <1>2, RankIs

\* Two routes along the path that rank alike have the same edges.
LEMMA RankEdge ==
  ASSUME routes \in Seq(RouteOf), NEW path, Len(path) \in Nat, NEW r \in DOMAIN routes,
         NEW o \in DOMAIN routes, NEW n \in Nat, GoesAlong(r, n, path), GoesAlong(o, n, path),
         NEW k \in 1..n
  PROVE  Rank(o, k) = Rank(r, k) <=> Edge(W(o)[k]) = Edge(W(r)[k])
<1>1. \/ Rank(r, k) = 1 /\ Edge(W(r)[k]) = StaticEdge(path[k])
      \/ Rank(r, k) = 2 /\ Edge(W(r)[k]) = ParamEdge
  BY AlongEdge
<1>2. \/ Rank(o, k) = 1 /\ Edge(W(o)[k]) = StaticEdge(path[k])
      \/ Rank(o, k) = 2 /\ Edge(W(o)[k]) = ParamEdge
  BY AlongEdge
<1> QED
  BY <1>1, <1>2, EdgesDiffer

\* A route that goes along the path for n segments does for fewer.
LEMMA AlongLess ==
  ASSUME NEW r, NEW n \in Nat, NEW path, GoesAlong(r, n, path), Len(path) \in Nat, Len(W(r)) \in Nat,
         NEW j \in 0..n
  PROVE  GoesAlong(r, j, path)
BY DEF GoesAlong, W

\* No route takes precedence over one that ends where the walk does.
LEMMA EndIsNotBehind ==
  ASSUME routes \in Seq(RouteOf), NEW path, Len(path) \in Nat, NEW s, WalkSays(path, s, Len(path)),
         NEW r \in EndsAt(Len(routes), s), NEW o \in DOMAIN routes
  PROVE  ~BranchesOff(o, r, path)
<1> SUFFICES ASSUME NEW i \in 1..Len(path), GoesAlong(o, i, path),
                    \A j \in 1..i - 1 : Rank(o, j) = Rank(r, j), Rank(o, i) < Rank(r, i)
             PROVE  FALSE
  BY DEF BranchesOff
<1> DEFINE n == Len(s)
           N == Len(routes)
<1>1. /\ r \in DOMAIN routes /\ Len(W(r)) = n /\ Agrees(r, s, n) /\ n \in Nat /\ n <= Len(path)
  BY DEF EndsAt, WalkSays, IsNode
<1>2. GoesAlong(r, n, path)
  BY <1>1, EndsAlong
<1>3. i \in 1..Len(W(o)) /\ Len(W(o)) \in Nat /\ i \in Nat \ {0}
  BY RouteFacts DEF GoesAlong, W
<1>4. ASSUME NEW j \in 1..i - 1 PROVE j <= n /\ Edge(W(o)[j]) = s[j]
  <2>1. Rank(o, j) = Rank(r, j) /\ j \in 1..i /\ j \in Nat \ {0}
    OBVIOUS
  <2>2. Rank(o, j) \in {1, 2}
    BY <1>3, <2>1, AlongEdge
  <2>3. j \in 1..n
    BY <1>1, <2>1, <2>2, RankIs
  <2>4. GoesAlong(o, j, path) /\ GoesAlong(r, j, path)
    <3>1. j \in 0..i /\ j \in 0..n /\ i \in Nat
      BY <2>3
    <3> QED
      BY <1>1, <1>2, <1>3, <3>1, AlongLess
  <2>5. Edge(W(o)[j]) = Edge(W(r)[j])
    <3>1. j \in 1..j /\ j \in Nat
      BY <2>3
    <3> QED
      BY <1>1, <2>1, <2>4, <3>1, RankEdge
  <2>6. Edge(W(r)[j]) = s[j]
    BY <1>1, <2>3 DEF Agrees
  <2> QED
    BY <2>3, <2>5, <2>6
<1>5. i - 1 <= n
  <2>1. CASE i - 1 = 0
    BY <1>1, <2>1
  <2>2. CASE i - 1 # 0
    <3>1. i - 1 \in 1..i - 1
      BY <1>3, <2>2
    <3> QED
      BY <1>4, <3>1
  <2> QED
    BY <2>1, <2>2
<1>6. Agrees(o, s, i - 1)
  BY <1>3, <1>4 DEF Agrees
<1>7. \/ Rank(o, i) = 1 /\ Edge(W(o)[i]) = StaticEdge(path[i])
      \/ Rank(o, i) = 2 /\ Edge(W(o)[i]) = ParamEdge
  <2>1. i \in 1..i /\ i \in Nat
    BY <1>3
  <2> QED
    BY <2>1, AlongEdge
<1>8. GoesOn(N, s, i - 1, Edge(W(o)[i]))
  <2>1. o \in 1..N /\ i - 1 < Len(W(o)) /\ (i - 1) + 1 = i
    BY <1>3
  <2> QED
    BY <1>6, <2>1 DEF GoesOn
<1>9. CASE i <= n
  <2>1. i \in 1..n
    BY <1>3, <1>9
  <2>2. /\ Edge(W(r)[i]) = s[i]
        /\ \/ Rank(r, i) = 1
           \/ Rank(r, i) = 2 /\ s[i] = ParamEdge
    <3>1. Edge(W(r)[i]) = s[i]
      BY <1>1, <2>1 DEF Agrees
    <3> QED
      BY <1>1, <1>2, <2>1, <3>1, AlongEdge
  <2>3. Rank(o, i) = 1 /\ s[i] = ParamEdge /\ Edge(W(o)[i]) = StaticEdge(path[i])
    BY <1>7, <2>2
  <2>4. ~GoesOn(N, s, i - 1, StaticEdge(path[i]))
    BY <2>1, <2>3, EdgesDiffer DEF WalkSays
  <2> QED
    BY <1>8, <2>3, <2>4
<1>10. CASE i = n + 1
  <2>1. n < Len(path) /\ i - 1 = n
    BY <1>1, <1>10
  <2>2. ~GoesOn(N, s, n, StaticEdge(path[i])) /\ ~GoesOn(N, s, n, ParamEdge)
    BY <1>10, <2>1 DEF WalkSays
  <2> QED
    BY <1>7, <1>8, <2>1, <2>2
<1> QED
  BY <1>1, <1>3, <1>5, <1>9, <1>10

\* Where a route that fits leaves the walk's way, the walk's takes precedence.
LEMMA FitIsBehind ==
  ASSUME routes \in Seq(RouteOf), NEW path, Len(path) \in Nat, NEW s, WalkSays(path, s, Len(path)),
         NEW r \in DOMAIN routes, Fits(r, path), r \notin EndsAt(Len(routes), s)
  PROVE  \E o \in DOMAIN routes : BranchesOff(o, r, path)
<1> DEFINE n == Len(s)
           N == Len(routes)
           w == Len(W(r))
<1>1. /\ n \in Nat /\ n <= Len(path) /\ r \in 1..N /\ w \in Nat
      /\ GoesAlong(r, w, path) /\ w <= Len(path)
  BY RouteFacts DEF WalkSays, IsNode, Fits, GoesAlong, W
<1>2. ASSUME Agrees(r, s, n) PROVE FALSE
  <2>1. n <= w /\ n # w
    BY <1>1, <1>2 DEF EndsAt, Agrees
  <2>2. n + 1 \in 1..w /\ n < w /\ n < Len(path)
    BY <1>1, <2>1
  <2>3. Edge(W(r)[n + 1]) = StaticEdge(path[n + 1]) \/ Edge(W(r)[n + 1]) = ParamEdge
    BY <1>1, <2>2, AlongEdge
  <2>4. GoesOn(N, s, n, Edge(W(r)[n + 1]))
    BY <1>1, <1>2, <2>2 DEF GoesOn
  <2>5. ~GoesOn(N, s, n, StaticEdge(path[n + 1])) /\ ~GoesOn(N, s, n, ParamEdge)
    BY <2>2 DEF WalkSays
  <2> QED
    BY <2>3, <2>4, <2>5
<1> DEFINE S == {m \in 1..n : m > w \/ Edge(W(r)[m]) # s[m]}
<1>3. S # {}
  <2> SUFFICES ASSUME S = {} PROVE FALSE
    OBVIOUS
  <2>1. \A m \in 1..n : m <= w /\ Edge(W(r)[m]) = s[m]
    <3> SUFFICES ASSUME NEW m \in 1..n PROVE m <= w /\ Edge(W(r)[m]) = s[m]
      OBVIOUS
    <3>1. m \notin S
      OBVIOUS
    <3>2. ~(m > w) /\ Edge(W(r)[m]) = s[m]
      BY <3>1
    <3> HIDE DEF w, S
    <3> QED
      BY <1>1, <3>2
  <2>2. n <= w
    <3>1. CASE n = 0
      BY <1>1, <3>1
    <3>2. CASE n # 0
      <4>1. n \in 1..n
        BY <1>1, <3>2
      <4> QED
        BY <2>1, <4>1
    <3> QED
      BY <3>1, <3>2
  <2>3. Agrees(r, s, n)
    BY <2>1, <2>2 DEF Agrees
  <2> QED
    BY <1>2, <2>3
<1>4. S \in SUBSET Nat
  BY <1>1
<1>5. PICK m \in S : \A y \in S : m <= y
  <2> HIDE DEF S
  <2> QED
    BY <1>3, <1>4, LeastExists
<1>6. m \in 1..n /\ (m > w \/ Edge(W(r)[m]) # s[m]) /\ m \in Nat \ {0}
  BY <1>5
<1>7. \A k \in 1..m - 1 : k <= w /\ Edge(W(r)[k]) = s[k]
  <2> SUFFICES ASSUME NEW k \in 1..m - 1 PROVE k <= w /\ Edge(W(r)[k]) = s[k]
    OBVIOUS
  <2>1. k \in 1..n /\ ~(m <= k)
    BY <1>6
  <2>2. k \notin S
    <3> HIDE DEF S
    <3> QED
      BY <1>5, <2>1
  <2>3. ~(k > w) /\ Edge(W(r)[k]) = s[k]
    BY <2>1, <2>2
  <2> HIDE DEF w, S
  <2> QED
    BY <1>1, <2>1, <2>3
<1> HIDE DEF S
<1>8. m - 1 <= w
  <2>1. CASE m = 1
    BY <1>1, <2>1
  <2>2. CASE m # 1
    <3>1. m - 1 \in 1..m - 1
      BY <1>6, <2>2
    <3> QED
      BY <1>7, <3>1
  <2> QED
    BY <2>1, <2>2
<1>9. Agrees(r, s, m - 1)
  BY <1>7, <1>8 DEF Agrees
<1>10. PICK o \in 1..N : Agrees(o, s, n)
  <2>1. s # <<>>
    <3>1. Len(<<>>) = 0
      OBVIOUS
    <3> QED
      BY <1>1, <1>6, <3>1
  <2> QED
    BY <2>1 DEF WalkSays, IsReached
<1>11. /\ o \in DOMAIN routes /\ GoesAlong(o, n, path) /\ n <= Len(W(o)) /\ Len(W(o)) \in Nat
       /\ \A k \in 1..n : Edge(W(o)[k]) = s[k]
  <2>1. o \in DOMAIN routes /\ n \in 0..n
    BY <1>1
  <2> QED
    BY <1>10, <2>1, EndsAlong, RouteFacts DEF Agrees
<1>12. GoesAlong(o, m, path) /\ m \in 1..Len(path)
  <2>1. m \in 0..n /\ m \in 1..Len(path)
    BY <1>1, <1>6
  <2> QED
    BY <1>1, <1>11, <2>1, AlongLess
<1>13. ASSUME NEW j \in 1..m - 1 PROVE Rank(o, j) = Rank(r, j)
  <2>1. j \in 1..n /\ j \in 1..j /\ j \in Nat /\ j \in 0..n /\ j <= w /\ j \in 0..w
    BY <1>1, <1>6, <1>7
  <2>2. Edge(W(o)[j]) = Edge(W(r)[j])
    BY <1>7, <1>11, <2>1
  <2>3. GoesAlong(o, j, path) /\ GoesAlong(r, j, path)
    BY <1>1, <1>11, <2>1, AlongLess
  <2> QED
    BY <1>11, <2>1, <2>2, <2>3, RankEdge
<1>14. \/ Rank(o, m) = 1 /\ s[m] = StaticEdge(path[m])
       \/ Rank(o, m) = 2 /\ s[m] = ParamEdge
  BY <1>1, <1>6, <1>11, AlongEdge
<1>15. Rank(o, m) < Rank(r, m)
  <2>1. CASE m > w
    <3>1. Rank(r, m) = 3
      BY <1>1, <1>6, <2>1, RankIs
    <3> QED
      BY <1>14, <3>1
  <2>2. CASE m <= w
    <3>1. m \in 1..w /\ Edge(W(r)[m]) # s[m]
      BY <1>1, <1>6, <2>2
    <3>2. \/ Rank(r, m) = 1 /\ Edge(W(r)[m]) = StaticEdge(path[m])
          \/ Rank(r, m) = 2 /\ Edge(W(r)[m]) = ParamEdge
      BY <1>1, <3>1, AlongEdge
    <3>3. CASE Rank(r, m) = 1 /\ Edge(W(r)[m]) = StaticEdge(path[m])
      <4>1. s[m] # StaticEdge(path[m])
        BY <3>1, <3>3
      <4>2. ~GoesOn(N, s, m - 1, StaticEdge(path[m]))
        BY <1>6, <4>1 DEF WalkSays
      <4>3. m - 1 < w /\ (m - 1) + 1 = m
        BY <1>6, <3>1
      <4>4. GoesOn(N, s, m - 1, StaticEdge(path[m]))
        BY <1>1, <1>9, <3>3, <4>3 DEF GoesOn
      <4> QED
        BY <4>2, <4>4
    <3>4. CASE Rank(r, m) = 2 /\ Edge(W(r)[m]) = ParamEdge
      BY <1>14, <3>1, <3>4
    <3> QED
      BY <3>2, <3>3, <3>4
  <2> QED
    BY <1>1, <1>6, <2>1, <2>2
<1>16. BranchesOff(o, r, path)
  BY <1>12, <1>13, <1>15 DEF BranchesOff
<1> QED
  BY <1>11, <1>16

\* Routes of one shape end at one node.
LEMMA SameShapeEnds ==
  ASSUME routes \in Seq(RouteOf), NEW s, IsNode(s), NEW h \in EndsAt(Len(routes), s),
         NEW r \in DOMAIN routes, SameShape(r, h)
  PROVE  r \in EndsAt(Len(routes), s) /\ (Wild(routes[r]) <=> Wild(routes[h]))
<1> DEFINE N == Len(routes)
           shape(x) == [i \in DOMAIN W(x) |-> Edge(routes[x].pattern[i])]
<1>1. /\ h \in DOMAIN routes /\ Len(W(h)) = Len(s) /\ Agrees(h, s, Len(s)) /\ r \in 1..N
  BY DEF EndsAt
<1>2. shape(r) = shape(h) /\ (Wild(routes[r]) <=> Wild(routes[h]))
  BY DEF SameShape, W
<1>3. \A x \in DOMAIN routes :
        /\ DOMAIN shape(x) = 1..Len(W(x)) /\ Len(W(x)) \in Nat
        /\ \A i \in 1..Len(W(x)) : shape(x)[i] = Edge(W(x)[i])
  <2> TAKE x \in DOMAIN routes
  <2>1. /\ DOMAIN W(x) = 1..Len(W(x)) /\ Len(W(x)) \in Nat
        /\ \A i \in 1..Len(W(x)) : W(x)[i] = routes[x].pattern[i]
    BY RouteFacts
  <2> QED
    BY <2>1
<1> HIDE DEF shape
<1>4. 1..Len(W(r)) = 1..Len(W(h))
  BY <1>1, <1>2, <1>3
<1>5. Len(W(r)) = Len(s)
  <2>1. Len(W(r)) \in Nat /\ Len(W(h)) \in Nat
    BY <1>1, <1>3
  <2> QED
    BY <1>1, <1>4, <2>1
<1>6. \A i \in 1..Len(s) : Edge(W(r)[i]) = s[i]
  BY <1>1, <1>2, <1>3, <1>5 DEF Agrees
<1>7. Agrees(r, s, Len(s))
  BY <1>5, <1>6 DEF Agrees, IsNode
<1> QED
  BY <1>1, <1>2, <1>5, <1>7 DEF EndsAt

LEMMA PathFacts ==
  ASSUME NEW path \in Path, NEW n \in 0..Len(path)
  PROVE  /\ Len(path) \in Nat
         /\ SubSeq(path, n + 1, Len(path)) = <<>> <=> n = Len(path)
<1>1. PICK m \in 0..MaxSegments + 1 : path \in [1..m -> PathWord]
  BY DEF Path
<1>2. m \in Nat
  BY <1>1, RouterAssumption
<1>3. path \in Seq(PathWord) /\ Len(path) = m
  BY <1>1, <1>2
<1>4. n = Len(path) => SubSeq(path, n + 1, Len(path)) = <<>>
  <2> SUFFICES ASSUME n = m PROVE SubSeq(path, m + 1, m) = <<>>
    BY <1>3
  <2>1. SubSeq(path, m + 1, m) \in Seq(PathWord) /\ Len(SubSeq(path, m + 1, m)) = 0
    BY <1>2, <1>3
  <2> QED
    BY <2>1, EmptySeq
<1>5. n # Len(path) => Len(SubSeq(path, n + 1, Len(path))) = Len(path) - n
  BY <1>2, <1>3
<1>6. Len(<<>>) = 0
  OBVIOUS
<1> QED
  BY <1>2, <1>3, <1>4, <1>5, <1>6

\* A route that ends where the walk does fits when the path is at its end or the route is wild.
LEMMA EndFits ==
  ASSUME routes \in Seq(RouteOf), NEW path, Len(path) \in Nat, NEW s, WalkSays(path, s, Len(path)),
         NEW r \in EndsAt(Len(routes), s)
  PROVE  Fits(r, path) <=> Wild(routes[r]) \/ Len(s) = Len(path)
<1>1. /\ r \in DOMAIN routes /\ Len(W(r)) = Len(s) /\ Agrees(r, s, Len(s)) /\ Len(s) \in Nat
  BY DEF EndsAt, WalkSays, IsNode
<1>2. GoesAlong(r, Len(s), path)
  <2>1. Len(s) \in 0..Len(s)
    BY <1>1
  <2> QED
    BY <1>1, <2>1, EndsAlong
<1> QED
  BY <1>1, <1>2 DEF Fits, W

LEMMA Routed ==
  ASSUME routes \in Seq(RouteOf)
  PROVE  RoutedByTable
<1> DEFINE trie == BuildTrie
           N == Len(routes)
<1>1. TrieIs(trie, N) /\ N \in Nat /\ DOMAIN routes = 1..N
  BY BuildTrieIs
<1> HIDE DEF trie
<1>2. ASSUME NEW path \in Path, NEW verb \in RequestVerb
      PROVE  LET answer == MatchRoute(trie, verb, path)
                 fit    == {r \in DOMAIN routes : Fits(r, path)}
                 ahead(r) == \E o \in DOMAIN routes : BranchesOff(o, r, path)
             IN  /\ answer.status = "matched" =>
                      LET h == answer.handler
                      IN  /\ h \in fit /\ Serves(h, verb) /\ ~ahead(h)
                          /\ \A r \in DOMAIN routes : SameShape(r, h) =>
                               /\ routes[r].method = routes[h].method => r <= h
                               /\ routes[r].method = verb => routes[h].method = verb
                          /\ Wild(routes[h]) => \A r \in fit : Serves(r, verb) => Wild(routes[r]) \/ ahead(r)
                 /\ answer.status # "matched" => \A r \in fit : Serves(r, verb) => ahead(r)
                 /\ answer.status = "route not found" => \A r \in fit : ahead(r)
                 /\ answer.status = "method not allowed" => fit # {}
  <2> DEFINE at == Walk(trie, path)
             s == at.node
             L == Len(path)
             plain == ResolveHandler(trie[s].handlers, verb)
             wild  == ResolveHandler(trie[s].wildcard, verb)
             answer == MatchRoute(trie, verb, path)
             fit == {r \in DOMAIN routes : Fits(r, path)}
             ahead(r) == \E o \in DOMAIN routes : BranchesOff(o, r, path)
             ends == EndsAt(N, s)
             plains == PlainAt(N, s)
             wilds == WildAt(N, s)
  <2>1. L \in Nat
    <3>1. PICK m \in 0..MaxSegments + 1 : path \in [1..m -> PathWord]
      BY DEF Path
    <3>2. m \in Nat
      BY <3>1, RouterAssumption
    <3> QED
      BY <3>1, <3>2
  <2>2. WalkSays(path, s, L)
    BY <1>1, <2>1, WalkIs
  <2>3. s \in DOMAIN trie /\ IsNode(s) /\ Len(s) \in 0..L
    BY <1>1, <2>1, <2>2 DEF WalkSays, TrieIs, IsNode
  <2>4. SubSeq(path, Len(s) + 1, L) = <<>> <=> Len(s) = L
    BY <2>3, PathFacts
  <2>5. TableIs(trie[s].handlers, plains) /\ TableIs(trie[s].wildcard, wilds)
    BY <1>1, <2>3 DEF TrieIs, NodeIs
  <2>6. /\ plains = {r \in ends : ~Wild(routes[r])} /\ wilds = {r \in ends : Wild(routes[r])}
        /\ ends \in SUBSET (1..N) /\ plains \in SUBSET (1..N) /\ wilds \in SUBSET (1..N)
    BY DEF PlainAt, WildAt, EndsAt
  <2>7. \A r \in ends : /\ ~ahead(r)
                        /\ r \in fit <=> Wild(routes[r]) \/ Len(s) = L
    BY <1>1, <2>1, <2>2, <2>6, EndIsNotBehind, EndFits
  <2>8. \A r \in fit : r \in ends \/ ahead(r)
    BY <2>1, <2>2, FitIsBehind
  <2>9. \A h \in ends, r \in DOMAIN routes :
          SameShape(r, h) => r \in ends /\ (Wild(routes[r]) <=> Wild(routes[h]))
    BY <2>3, SameShapeEnds
  <2>10. /\ plain = 0 => \A r \in plains : ~Serves(r, verb)
         /\ plain # 0 => /\ plain \in plains /\ Serves(plain, verb)
                         /\ \A r \in plains : /\ routes[r].method = routes[plain].method => r <= plain
                                              /\ routes[r].method = verb => routes[plain].method = verb
    <3>1. TableIs(trie[s].handlers, plains) /\ plains \in SUBSET (1..N) /\ N \in Nat
      BY <1>1, <2>5, <2>6
    <3> HIDE DEF s, plains, wilds, ends, N
    <3> QED
      BY <3>1, ResolveIs, ZenonT(60)
  <2>11. /\ wild = 0 => \A r \in wilds : ~Serves(r, verb)
         /\ wild # 0 => /\ wild \in wilds /\ Serves(wild, verb)
                        /\ \A r \in wilds : /\ routes[r].method = routes[wild].method => r <= wild
                                            /\ routes[r].method = verb => routes[wild].method = verb
    <3>1. TableIs(trie[s].wildcard, wilds) /\ wilds \in SUBSET (1..N) /\ N \in Nat
      BY <1>1, <2>5, <2>6
    <3> HIDE DEF s, plains, wilds, ends, N
    <3> QED
      BY <3>1, ResolveIs, ZenonT(60)
  <2>12. /\ trie[s].handlers = NoHandlers <=> plains = {}
         /\ trie[s].wildcard = NoHandlers <=> wilds = {}
    BY <2>5, EmptyTable
  <2>13. answer = IF Len(s) = L THEN MatchLeaf(trie[s], verb, at.params)
                  ELSE IF trie[s].wildcard # NoHandlers
                       THEN MatchWildcard(trie[s], verb, at.params, SubSeq(path, Len(s) + 1, L))
                  ELSE RouteNotFound
    BY <2>4 DEF MatchRoute
  <2>14. \/ Len(s) = L /\ plain # 0 /\ answer.status = "matched" /\ answer.handler = plain
         \/ Len(s) = L /\ plain = 0 /\ wild # 0 /\ answer.status = "matched" /\ answer.handler = wild
         \/ /\ Len(s) = L /\ plain = 0 /\ wild = 0 /\ (plains # {} \/ wilds # {})
            /\ answer.status = "method not allowed"
         \/ Len(s) = L /\ plains = {} /\ wilds = {} /\ answer.status = "route not found"
         \/ Len(s) # L /\ wilds # {} /\ wild # 0 /\ answer.status = "matched" /\ answer.handler = wild
         \/ Len(s) # L /\ wilds # {} /\ wild = 0 /\ answer.status = "method not allowed"
         \/ Len(s) # L /\ wilds = {} /\ answer.status = "route not found"
    <3> HIDE DEF s, L, at, answer, plains, wilds, plain, wild
    <3>1. MethodNotAllowed.status = "method not allowed" /\ RouteNotFound.status = "route not found"
      BY DEF MethodNotAllowed, RouteNotFound
    <3>2. \A h, params : Matched(h, params).status = "matched" /\ Matched(h, params).handler = h
      BY DEF Matched
    <3>3. CASE Len(s) = L
      <4>1. answer = IF plain # 0 THEN Matched(plain, at.params)
                     ELSE IF wild # 0 THEN Matched(wild, MapSet(at.params, "*", <<>>))
                     ELSE IF plains # {} \/ wilds # {} THEN MethodNotAllowed
                     ELSE RouteNotFound
        BY <2>12, <2>13, <3>3 DEF MatchLeaf, plain, wild
      <4> QED
        BY <3>1, <3>2, <3>3, <4>1
    <3>4. CASE Len(s) # L
      <4>1. answer = IF wilds = {} THEN RouteNotFound
                     ELSE IF wild # 0
                     THEN Matched(wild, MapSet(at.params, "*", SubSeq(path, Len(s) + 1, L)))
                     ELSE MethodNotAllowed
        BY <2>12, <2>13, <3>4 DEF MatchWildcard, wild
      <4> QED
        BY <3>1, <3>2, <3>4, <4>1
    <3> QED
      BY <3>3, <3>4
  <2> HIDE DEF s, L, at, plain, wild, answer, fit, ahead, ends, plains, wilds, N
  <2>15. ASSUME NEW h \in ends, answer.handler = h, answer.status = "matched", h \in fit,
                Serves(h, verb),
                \A r \in ends : (Wild(routes[r]) <=> Wild(routes[h])) =>
                  /\ routes[r].method = routes[h].method => r <= h
                  /\ routes[r].method = verb => routes[h].method = verb
         PROVE  /\ h \in fit /\ Serves(h, verb) /\ ~ahead(h)
                /\ \A r \in DOMAIN routes : SameShape(r, h) =>
                     /\ routes[r].method = routes[h].method => r <= h
                     /\ routes[r].method = verb => routes[h].method = verb
    BY <2>7, <2>9, <2>15
  <2>16. answer.status = "matched" =>
           LET h == answer.handler
           IN  /\ h \in fit /\ Serves(h, verb) /\ ~ahead(h)
               /\ \A r \in DOMAIN routes : SameShape(r, h) =>
                    /\ routes[r].method = routes[h].method => r <= h
                    /\ routes[r].method = verb => routes[h].method = verb
    <3> SUFFICES ASSUME answer.status = "matched", NEW h, h = answer.handler
                 PROVE  /\ h \in fit /\ Serves(h, verb) /\ ~ahead(h)
                        /\ \A r \in DOMAIN routes : SameShape(r, h) =>
                             /\ routes[r].method = routes[h].method => r <= h
                             /\ routes[r].method = verb => routes[h].method = verb
      BY Zenon
    <3>1. \/ Len(s) = L /\ plain # 0 /\ h = plain
          \/ wild # 0 /\ h = wild
      BY <2>14
    <3>2. CASE Len(s) = L /\ plain # 0 /\ h = plain
      <4>1. /\ h \in ends /\ ~Wild(routes[h]) /\ h \in fit /\ Serves(h, verb)
            /\ \A r \in ends : ~Wild(routes[r]) => r \in plains
        BY <2>6, <2>7, <2>10, <3>2
      <4> QED
        BY <2>10, <2>15, <3>2, <4>1
    <3>3. CASE wild # 0 /\ h = wild
      <4>1. /\ h \in ends /\ Wild(routes[h]) /\ h \in fit /\ Serves(h, verb)
            /\ \A r \in ends : Wild(routes[r]) => r \in wilds
        BY <2>6, <2>7, <2>11, <3>3
      <4> QED
        BY <2>11, <2>15, <3>3, <4>1
    <3> QED
      BY <3>1, <3>2, <3>3
  <2>17. answer.status = "matched" /\ Wild(routes[answer.handler]) =>
           \A r \in fit : Serves(r, verb) => Wild(routes[r]) \/ ahead(r)
    <3> SUFFICES ASSUME answer.status = "matched", Wild(routes[answer.handler]),
                        NEW r \in fit, Serves(r, verb), ~Wild(routes[r]), ~ahead(r)
                 PROVE  FALSE
      OBVIOUS
    <3>1. r \in plains /\ Len(s) = L
      BY <2>6, <2>7, <2>8
    <3>2. plain # 0 /\ answer.handler = plain
      BY <2>10, <2>14, <3>1
    <3> QED
      BY <2>6, <2>10, <3>2
  <2>18. answer.status # "matched" => \A r \in fit : Serves(r, verb) => ahead(r)
    <3> SUFFICES ASSUME answer.status # "matched", NEW r \in fit, Serves(r, verb), ~ahead(r) PROVE FALSE
      OBVIOUS
    <3>1. r \in ends
      BY <2>8
    <3>2. \/ r \in wilds
          \/ r \in plains /\ Len(s) = L
      BY <2>6, <2>7, <3>1
    <3>3. CASE r \in wilds
      <4>1. wild # 0 /\ wilds # {}
        BY <2>11, <3>3
      <4> QED
        BY <2>14, <4>1
    <3>4. CASE r \in plains /\ Len(s) = L
      <4>1. plain # 0 /\ plains # {}
        BY <2>10, <3>4
      <4> QED
        BY <2>14, <3>4, <4>1
    <3> QED
      BY <3>2, <3>3, <3>4
  <2>19. answer.status = "route not found" => \A r \in fit : ahead(r)
    <3> SUFFICES ASSUME answer.status = "route not found", NEW r \in fit, ~ahead(r) PROVE FALSE
      OBVIOUS
    <3>1. r \in ends
      BY <2>8
    <3>2. \/ r \in wilds
          \/ r \in plains /\ Len(s) = L
      BY <2>6, <2>7, <3>1
    <3> QED
      BY <2>14, <3>2
  <2>20. answer.status = "method not allowed" => fit # {}
    <3> SUFFICES ASSUME answer.status = "method not allowed" PROVE fit # {}
      OBVIOUS
    <3>1. wilds # {} \/ (Len(s) = L /\ plains # {})
      BY <2>14
    <3> QED
      BY <2>6, <2>7, <3>1
  <2> QED
    BY <2>16, <2>17, <2>18, <2>19, <2>20 DEF answer, fit, ahead
<1> QED
  BY <1>2 DEF RoutedByTable, trie

-----------------------------------------------------------------------------
(* Releases. *)

Version == Nat \X Nat \X Nat

\* A commit, and a history: no section lists what came after it.
IsCommit(c) ==
  /\ c = [type |-> c.type, pkg |-> c.pkg, sections |-> c.sections]
  /\ c.pkg \in Version
  /\ \A s \in c.sections : s = Section(s.version, s.lists)

IsHistory(h) ==
  /\ Len(h) \in Nat \ {0} /\ h = [p \in 1..Len(h) |-> h[p]]
  /\ \A p \in 1..Len(h) : IsCommit(h[p]) /\ \A s \in h[p].sections : s.lists \subseteq 1..p

\* What is tagged has its version.
AreTags(all) ==
  /\ all = [v \in DOMAIN all |-> all[v]]
  /\ \A v \in DOMAIN all : IsHistory(all[v]) /\ Last(all[v]).pkg = v

\* A run of release.mjs over the clone's history h.
LocalRun(l, h) ==
  /\ l = [pc |-> l.pc, version |-> l.version, hadOwn |-> l.hadOwn, hadRemote |-> l.hadRemote,
          lists |-> l.lists, staged |-> l.staged]
  /\ l.pc \in {"write", "commit", "tag", "push", "pushTag", "publish"}
  /\ l.version \in Version
  /\ l.hadOwn \in BOOLEAN /\ l.hadRemote \in BOOLEAN /\ l.staged \in BOOLEAN
  /\ l.hadRemote => l.hadOwn
  /\ l.lists \subseteq 1..Len(h)

\* A run of release-ci.mjs over the branch m.
Checked(c, m) ==
  /\ IsHistory(c.checkout) /\ IsPrefix(c.checkout, m)
  /\ c.version \in Version /\ c.lists \subseteq 1..Len(c.checkout) /\ c.fresh \in BOOLEAN

CiRun(c, m) ==
  \/ /\ c.pc = "look" /\ Checked(c, m)
     /\ c = [pc |-> "look", checkout |-> c.checkout, version |-> c.version, lists |-> c.lists,
             fresh |-> c.fresh]
  \/ /\ c.pc = "commit" /\ Checked(c, m) /\ IsHistory(c.head) /\ IsPrefix(c.head, m)
     /\ c = [pc |-> "commit", checkout |-> c.checkout, version |-> c.version, lists |-> c.lists,
             head |-> c.head, fresh |-> c.fresh]
  \/ /\ c.pc = "tag" /\ IsHistory(c.commit) /\ IsPrefix(c.commit, m)
     /\ c = [pc |-> "tag", version |-> c.version, commit |-> c.commit]
     /\ Last(c.commit).pkg = c.version

\* The run's version, the clone's tags and its last commit agree.
LocalAgrees(l, h, own) ==
  /\ l.pc \in {"push", "pushTag"} => l.version \in DOMAIN own
  /\ l.pc \in {"write", "commit"} => (l.hadOwn <=> l.version \in DOMAIN own)
  /\ l.pc = "tag" => /\ l.hadOwn => l.version \in DOMAIN own
                     /\ Last(h).pkg = l.version
  /\ l.pc = "commit" /\ ~l.staged => l.version = Last(h).pkg

\* Between the commit and the push of what was staged, and between a new tag and its push.
Ahead(l)   == l.pc \in {"tag", "push"} /\ l.staged
Tagging(l) == l.pc \in {"push", "pushTag"} /\ ~l.hadOwn

\* Origin has what the clone has, but for what the run is about to push.
LineKept(m, all, h, own, l) ==
  /\ \A v \in DOMAIN all : IsPrefix(all[v], m)
  /\ \A v \in DOMAIN own : /\ IsPrefix(own[v], h)
                           /\ \/ v \in DOMAIN all /\ all[v] = own[v]
                              \/ Tagging(l) /\ v = l.version
  /\ ~Ahead(l) => IsPrefix(h, m)

\* Versions grow along h; each of its sections is of one of them, and lists what came before
\* the first commit of that version, or before its tag.
Grows(h) == \A p, q \in 1..Len(h) : p <= q => ~IsNewerParts(h[p].pkg, h[q].pkg)

Before(n, v, h, all) ==
  \/ \A p \in 1..Len(h) : h[p].pkg = v => n < p
  \/ v \in DOMAIN all /\ n <= Len(all[v])

Announces(h, all) ==
  /\ \A s \in Last(h).sections : /\ \E p \in 1..Len(h) : h[p].pkg = s.version
                                 /\ \A n \in s.lists : Before(n, s.version, h, all)
  /\ \A s, t \in Last(h).sections : s # t => s.version # t.version /\ s.lists \cap t.lists = {}

\* What a run has chosen: a version that is not lower, and what came after the last tag.
LocalChose(l, h, own) ==
  l.pc \in {"write", "commit"} =>
    LET commit == IF l.hadOwn THEN own[l.version] ELSE h
    IN  /\ l.version = Last(h).pkg \/ IsNewerParts(l.version, Last(h).pkg)
        /\ \A n \in l.lists :
             n <= Len(commit) /\ \A v \in MergedTags(own, Front(commit)) : n > Len(own[v])

CiChose(c, m, all) ==
  c.pc \in {"look", "commit"} /\ c.fresh /\ c.checkout = m =>
    /\ TaggedReleases(m, all)
    /\ IsNewerParts(c.version, Last(m).pkg)
    /\ \A n \in c.lists : n > Len(all[Last(m).pkg])

ReleaseTyped ==
  /\ IsHistory(main) /\ IsHistory(clone) /\ AreTags(tags) /\ AreTags(ownTags)
  /\ cutShort \in BOOLEAN /\ stale \in BOOLEAN
  /\ local = Idle \/ LocalRun(local, clone)
  /\ ci = Idle \/ CiRun(ci, main)
  /\ LocalAgrees(local, clone, ownTags)

Versioned ==
  /\ Grows(main) /\ Announces(main, tags) /\ Grows(clone) /\ Announces(clone, tags)
  /\ LocalChose(local, clone, ownTags) /\ CiChose(ci, main, tags)

ReleaseInv ==
  /\ ReleaseTyped
  /\ ~cutShort => LineKept(main, tags, clone, ownTags, local)
  /\ ~cutShort /\ ~stale => Versioned

LEMMA NewerIs ==
  ASSUME NEW a \in Version, NEW b \in Version
  PROVE  IsNewerParts(a, b) <=> \/ a[1] > b[1]
                                \/ a[1] = b[1] /\ a[2] > b[2]
                                \/ a[1] = b[1] /\ a[2] = b[2] /\ a[3] > b[3]
<1>1. \A i \in 1..3 : a[i] \in Nat /\ b[i] \in Nat
  BY DEF Version
<1>2. IsNewerParts(a, b) <=> \/ a[1] # b[1] /\ a[1] > b[1] /\ \A j \in 1..(1 - 1) : a[j] = b[j]
                             \/ a[2] # b[2] /\ a[2] > b[2] /\ \A j \in 1..(2 - 1) : a[j] = b[j]
                             \/ a[3] # b[3] /\ a[3] > b[3] /\ \A j \in 1..(3 - 1) : a[j] = b[j]
  BY DEF IsNewerParts
<1>3. /\ (\A j \in 1..(1 - 1) : a[j] = b[j]) <=> TRUE
      /\ (\A j \in 1..(2 - 1) : a[j] = b[j]) <=> a[1] = b[1]
      /\ (\A j \in 1..(3 - 1) : a[j] = b[j]) <=> a[1] = b[1] /\ a[2] = b[2]
  OBVIOUS
<1> QED
  BY <1>1, <1>2, <1>3

\* Versions are in a line.
LEMMA NewerOrder ==
  ASSUME NEW a \in Version, NEW b \in Version, NEW c \in Version
  PROVE  /\ ~IsNewerParts(a, a)
         /\ IsNewerParts(a, b) => ~IsNewerParts(b, a) /\ a # b
         /\ ~IsNewerParts(a, b) /\ ~IsNewerParts(b, a) => a = b
         /\ ~IsNewerParts(a, b) /\ ~IsNewerParts(b, c) => ~IsNewerParts(a, c)
<1>1. /\ a[1] \in Nat /\ a[2] \in Nat /\ a[3] \in Nat /\ b[1] \in Nat /\ b[2] \in Nat /\ b[3] \in Nat
      /\ c[1] \in Nat /\ c[2] \in Nat /\ c[3] \in Nat
  BY DEF Version
<1>2. a[1] = b[1] /\ a[2] = b[2] /\ a[3] = b[3] => a = b
  BY DEF Version
<1> QED
  BY <1>1, <1>2, NewerIs

LEMMA BumpedIs ==
  ASSUME NEW v \in Version, NEW level
  PROVE  Bumped(v, level) \in Version /\ IsNewerParts(Bumped(v, level), v)
<1>1. v[1] \in Nat /\ v[2] \in Nat /\ v[3] \in Nat
  BY DEF Version
<1>2. \/ Bumped(v, level) = <<v[1] + 1, 0, 0>> \/ Bumped(v, level) = <<v[1], v[2] + 1, 0>>
      \/ Bumped(v, level) = <<v[1], v[2], v[3] + 1>>
  BY DEF Bumped
<1>3. Bumped(v, level) \in Version
  BY <1>1, <1>2 DEF Version
<1>4. \/ Bumped(v, level)[1] = v[1] + 1
      \/ Bumped(v, level)[1] = v[1] /\ Bumped(v, level)[2] = v[2] + 1
      \/ Bumped(v, level)[1] = v[1] /\ Bumped(v, level)[2] = v[2] /\ Bumped(v, level)[3] = v[3] + 1
  BY <1>2
<1> QED
  BY <1>1, <1>3, <1>4, NewerIs

\* A history as a sequence.
LEMMA HistorySeq ==
  ASSUME NEW h, IsHistory(h)
  PROVE  \E S : h \in Seq(S)
<1> DEFINE S == {h[p] : p \in 1..Len(h)}
<1>1. \A p \in 1..Len(h) : h[p] \in S
  OBVIOUS
<1> HIDE DEF S
<1>2. h \in Seq(S)
  BY <1>1, IsASeq DEF IsHistory
<1> QED
  BY <1>2

LEMMA PrefixIs ==
  ASSUME NEW g, IsHistory(g), NEW h, IsHistory(h)
  PROVE  IsPrefix(g, h) <=> Len(g) <= Len(h) /\ \A p \in 1..Len(g) : g[p] = h[p]
<1>1. PICK S : g \in Seq(S)
  BY HistorySeq
<1>2. PICK T : h \in Seq(T)
  BY HistorySeq
<1>3. SubSeq(g, 1, Len(g)) = [p \in 1..Len(g) |-> g[p]]
  BY <1>1
<1>4. Len(g) <= Len(h) => SubSeq(h, 1, Len(g)) = [p \in 1..Len(g) |-> h[p]]
  BY <1>1, <1>2
<1>5. [p \in 1..Len(g) |-> g[p]] = [p \in 1..Len(g) |-> h[p]] <=> \A p \in 1..Len(g) : g[p] = h[p]
  <2>1. ASSUME [p \in 1..Len(g) |-> g[p]] = [p \in 1..Len(g) |-> h[p]], NEW p \in 1..Len(g)
        PROVE  g[p] = h[p]
    <3>1. [q \in 1..Len(g) |-> g[q]][p] = [q \in 1..Len(g) |-> h[q]][p]
      BY <2>1
    <3> QED
      BY <3>1
  <2> QED
    BY <2>1
<1> QED
  BY <1>3, <1>4, <1>5 DEF IsPrefix

LEMMA PrefixOrder ==
  ASSUME NEW f, IsHistory(f), NEW g, IsHistory(g), NEW h, IsHistory(h)
  PROVE  /\ IsPrefix(h, h)
         /\ IsPrefix(f, g) /\ IsPrefix(g, h) => IsPrefix(f, h)
         /\ IsPrefix(f, g) /\ IsPrefix(g, f) => f = g
<1>1. Len(f) \in Nat /\ Len(g) \in Nat /\ Len(h) \in Nat
  BY DEF IsHistory
<1>2. IsPrefix(h, h)
  BY <1>1, PrefixIs
<1>3. ASSUME IsPrefix(f, g), IsPrefix(g, h) PROVE IsPrefix(f, h)
  <2>1. /\ Len(f) <= Len(g) /\ \A p \in 1..Len(f) : f[p] = g[p]
        /\ Len(g) <= Len(h) /\ \A p \in 1..Len(g) : g[p] = h[p]
    BY <1>3, PrefixIs
  <2>2. \A p \in 1..Len(f) : p \in 1..Len(g)
    BY <1>1, <2>1
  <2>3. Len(f) <= Len(h) /\ \A p \in 1..Len(f) : f[p] = h[p]
    BY <1>1, <2>1, <2>2
  <2> QED
    BY <2>3, PrefixIs
<1>4. ASSUME IsPrefix(f, g), IsPrefix(g, f) PROVE f = g
  <2>1. Len(f) <= Len(g) /\ Len(g) <= Len(f) /\ \A p \in 1..Len(f) : f[p] = g[p]
    BY <1>4, PrefixIs
  <2>2. Len(f) = Len(g)
    BY <1>1, <2>1
  <2>3. f = [p \in 1..Len(f) |-> f[p]] /\ g = [p \in 1..Len(g) |-> g[p]]
    BY DEF IsHistory
  <2>4. [p \in 1..Len(f) |-> f[p]] = [p \in 1..Len(f) |-> g[p]]
    BY <2>1
  <2> QED
    BY <2>2, <2>3, <2>4
<1> QED
  BY <1>2, <1>3, <1>4

\* A commit more.
LEMMA CommitMore ==
  ASSUME NEW h, IsHistory(h), NEW c, IsCommit(c),
         \A s \in c.sections : s.lists \subseteq 1..Len(h) + 1
  PROVE  /\ IsHistory(Append(h, c)) /\ Len(Append(h, c)) = Len(h) + 1
         /\ \A p \in 1..Len(h) : Append(h, c)[p] = h[p]
         /\ Append(h, c)[Len(h) + 1] = c /\ Last(Append(h, c)) = c
         /\ IsPrefix(h, Append(h, c))
<1> DEFINE g == Append(h, c)
           S == {h[p] : p \in 1..Len(h)} \cup {c}
<1>1. h \in Seq(S)
  <2>1. \A p \in 1..Len(h) : h[p] \in S
    OBVIOUS
  <2> HIDE DEF S
  <2> QED
    BY <2>1, IsASeq DEF IsHistory
<1> HIDE DEF S
<1>2. c \in S
  BY DEF S
<1>3. /\ g \in Seq(S) /\ Len(g) = Len(h) + 1 /\ g[Len(h) + 1] = c
      /\ \A p \in 1..Len(h) : g[p] = h[p]
  BY <1>1, <1>2, AppendProperties
<1>4. g = [p \in 1..Len(g) |-> g[p]]
  <2>1. ASSUME NEW t \in Seq(S) PROVE t = [p \in 1..Len(t) |-> t[p]]
    OBVIOUS
  <2> QED
    BY <1>3, <2>1
<1>5. Len(h) \in Nat /\ \A p \in 1..Len(h) : IsCommit(h[p]) /\ \A s \in h[p].sections : s.lists \subseteq 1..p
  BY DEF IsHistory
<1> HIDE DEF g
<1>6. ASSUME NEW p \in 1..Len(g)
      PROVE  IsCommit(g[p]) /\ \A s \in g[p].sections : s.lists \subseteq 1..p
  <2>1. CASE p \in 1..Len(h)
    BY <1>3, <1>5, <2>1
  <2>2. CASE p = Len(h) + 1
    BY <1>3, <2>2
  <2> QED
    BY <1>3, <1>5, <2>1, <2>2
<1>7. IsHistory(g)
  BY <1>3, <1>4, <1>5, <1>6 DEF IsHistory
<1>8. IsPrefix(h, g)
  BY <1>3, <1>5, <1>7, PrefixIs
<1> QED
  BY <1>3, <1>7, <1>8 DEF g, Last

\* A history without its last commit has the prefixes that are not all of it.
LEMMA BeforeHead ==
  ASSUME NEW g, IsHistory(g), NEW h, IsHistory(h), IsPrefix(g, h), g # h
  PROVE  IsPrefix(g, Front(h)) /\ Len(g) < Len(h)
<1>1. PICK S : h \in Seq(S)
  BY HistorySeq
<1>2. Len(g) <= Len(h) /\ Len(g) \in Nat /\ Len(h) \in Nat
  BY DEF IsPrefix, IsHistory
<1>3. Len(g) # Len(h)
  <2> SUFFICES ASSUME Len(g) = Len(h) PROVE FALSE
    OBVIOUS
  <2>1. \A p \in 1..Len(h) : h[p] = g[p]
    BY PrefixIs
  <2>2. IsPrefix(h, g)
    BY <1>2, <2>1, PrefixIs
  <2> QED
    BY <2>2, PrefixOrder
<1>4. /\ Len(Front(h)) = Len(h) - 1
      /\ SubSeq(Front(h), 1, Len(g)) = SubSeq(h, 1, Len(g))
  <2>1. /\ Front(h) \in Seq(S) /\ Len(Front(h)) = Len(h) - 1
        /\ \A p \in 1..Len(h) - 1 : Front(h)[p] = h[p]
    <3>1. Len(h) - 1 \in 0..Len(h) /\ Front(h) = SubSeq(h, 1, Len(h) - 1)
      BY <1>2, <1>3 DEF Front
    <3>2. ASSUME NEW n \in 0..Len(h)
          PROVE  /\ SubSeq(h, 1, n) \in Seq(S) /\ Len(SubSeq(h, 1, n)) = n
                 /\ \A p \in 1..n : SubSeq(h, 1, n)[p] = h[p]
      BY <1>1
    <3> QED
      BY <3>1, <3>2
  <2>2. \A p \in 1..Len(g) : Front(h)[p] = h[p]
    BY <1>2, <1>3, <2>1
  <2>3. SubSeq(Front(h), 1, Len(g)) = [p \in 1..Len(g) |-> Front(h)[p]]
    BY <1>2, <1>3, <2>1
  <2>4. SubSeq(h, 1, Len(g)) = [p \in 1..Len(g) |-> h[p]]
    BY <1>1, <1>2
  <2> QED
    BY <2>1, <2>2, <2>3, <2>4
<1> QED
  BY <1>2, <1>3, <1>4 DEF IsPrefix

\* The first commits of a history.
LEMMA FirstCommits ==
  ASSUME NEW h, IsHistory(h), NEW n \in 1..Len(h)
  PROVE  IsHistory(SubSeq(h, 1, n)) /\ IsPrefix(SubSeq(h, 1, n), h)
<1> DEFINE g == SubSeq(h, 1, n)
<1>1. PICK S : h \in Seq(S)
  BY HistorySeq
<1>2. Len(h) \in Nat /\ \A p \in 1..Len(h) : IsCommit(h[p]) /\ \A s \in h[p].sections : s.lists \subseteq 1..p
  BY DEF IsHistory
<1>3. /\ g = [p \in 1..n |-> h[p]] /\ Len(g) = n
  BY <1>1, <1>2
<1> HIDE DEF g
<1>4. \A p \in 1..n : g[p] = h[p] /\ p \in 1..Len(h)
  BY <1>2, <1>3
<1>5. g = [p \in 1..Len(g) |-> g[p]]
  BY <1>3
<1>6. IsHistory(g)
  BY <1>2, <1>3, <1>4, <1>5 DEF IsHistory
<1>7. IsPrefix(g, h)
  BY <1>2, <1>3, <1>4, <1>6, PrefixIs
<1> QED
  BY <1>6, <1>7 DEF g

LEMMA LastCommit ==
  ASSUME NEW h, IsHistory(h)
  PROVE  /\ Len(h) \in 1..Len(h) /\ Len(h) \in Nat /\ Last(h) = h[Len(h)] /\ IsCommit(Last(h)) /\ Last(h).pkg \in Version
         /\ \A s \in Last(h).sections : s.lists \subseteq 1..Len(h) /\ s = Section(s.version, s.lists)
         /\ \A p \in 1..Len(h) : h[p].pkg \in Version
BY DEF IsHistory, Last, IsCommit

\* A tag in a history is at a commit of its version.
LEMMA TagIsAt ==
  ASSUME NEW all, AreTags(all), NEW v \in DOMAIN all, NEW h, IsHistory(h), IsPrefix(all[v], h)
  PROVE  /\ IsHistory(all[v]) /\ Len(all[v]) \in 1..Len(h) /\ h[Len(all[v])].pkg = v /\ v \in Version
<1>1. IsHistory(all[v]) /\ Last(all[v]).pkg = v
  BY DEF AreTags
<1>2. Len(all[v]) \in Nat \ {0} /\ Len(h) \in Nat /\ Len(all[v]) <= Len(h)
  BY <1>1 DEF IsHistory, IsPrefix
<1>3. h[Len(all[v])] = Last(all[v])
  BY <1>1, <1>2, PrefixIs DEF Last
<1> QED
  BY <1>1, <1>2, <1>3, LastCommit

\* Tags are in the order of their versions.
LEMMA TagsOrder ==
  ASSUME NEW all, AreTags(all), NEW h, IsHistory(h), Grows(h),
         NEW v \in DOMAIN all, IsPrefix(all[v], h), NEW w \in DOMAIN all, IsPrefix(all[w], h),
         IsNewerParts(v, w)
  PROVE  Len(all[w]) < Len(all[v])
<1>1. /\ Len(all[v]) \in 1..Len(h) /\ h[Len(all[v])].pkg = v /\ v \in Version
      /\ Len(all[w]) \in 1..Len(h) /\ h[Len(all[w])].pkg = w /\ w \in Version
  BY TagIsAt
<1>2. Len(h) \in Nat
  BY LastCommit
<1>3. Len(all[v]) <= Len(all[w]) => ~IsNewerParts(v, w)
  BY <1>1 DEF Grows
<1> QED
  BY <1>1, <1>2, <1>3

\* A section whose version is tagged lists what came before the tag.
LEMMA TaggedLists ==
  ASSUME NEW all, AreTags(all), NEW h, IsHistory(h), Announces(h, all),
         NEW s \in Last(h).sections, s.version \in DOMAIN all, IsPrefix(all[s.version], h), NEW n \in s.lists
  PROVE  n <= Len(all[s.version])
<1>1. Len(all[s.version]) \in 1..Len(h) /\ h[Len(all[s.version])].pkg = s.version /\ Len(h) \in Nat
  BY TagIsAt, LastCommit
<1>2. n \in Nat
  BY LastCommit
<1>3. Before(n, s.version, h, all)
  BY DEF Announces
<1> QED
  BY <1>1, <1>2, <1>3 DEF Before

\* A commit by which the history goes on being in order: of the last version, or a newer one,
\* with at most one section more.
LEMMA OrderedMore ==
  ASSUME NEW all, NEW h, IsHistory(h), Grows(h), Announces(h, all),
         NEW c, IsCommit(c), \A s \in c.sections : s.lists \subseteq 1..Len(h) + 1,
         c.pkg = Last(h).pkg \/ IsNewerParts(c.pkg, Last(h).pkg),
         NEW new, c.sections = Last(h).sections \cup new,
         \A s \in new :
           /\ s.version = c.pkg
           /\ \A t \in new : s = t
           /\ \A t \in Last(h).sections : s.version # t.version /\ s.lists \cap t.lists = {}
           /\ \A n \in s.lists : n \in 1..Len(h) /\ Before(n, c.pkg, h, all)
  PROVE  Grows(Append(h, c)) /\ Announces(Append(h, c), all)
<1> DEFINE g == Append(h, c)
           N == Len(h)
<1>1. /\ IsHistory(g) /\ Len(g) = N + 1
      /\ \A p \in 1..N : g[p] = h[p]
      /\ g[N + 1] = c /\ Last(g) = c
  BY CommitMore
<1>2. N \in Nat /\ N \in 1..N /\ Last(h) = h[N] /\ Last(h).pkg \in Version /\ c.pkg \in Version
      /\ \A s \in Last(h).sections : s.lists \subseteq 1..N
      /\ \A p \in 1..N : h[p].pkg \in Version
  BY LastCommit DEF IsCommit
<1> HIDE DEF g
<1>3. \A p \in 1..N : ~IsNewerParts(h[p].pkg, c.pkg)
  <2> SUFFICES ASSUME NEW p \in 1..N PROVE ~IsNewerParts(h[p].pkg, c.pkg)
    OBVIOUS
  <2>1. ~IsNewerParts(h[p].pkg, Last(h).pkg)
    BY <1>2 DEF Grows
  <2>2. ~IsNewerParts(Last(h).pkg, c.pkg)
    BY <1>2, NewerOrder
  <2>3. h[p].pkg \in Version
    BY LastCommit
  <2> QED
    BY <1>2, <2>1, <2>2, <2>3, NewerOrder
<1>4. Grows(g)
  <2> SUFFICES ASSUME NEW p \in 1..N + 1, NEW q \in 1..N + 1, p <= q
               PROVE  ~IsNewerParts(g[p].pkg, g[q].pkg)
    BY <1>1 DEF Grows
  <2>1. CASE q \in 1..N
    <3>1. p \in 1..N
      BY <1>2, <2>1
    <3> QED
      BY <1>1, <2>1, <3>1 DEF Grows
  <2>2. CASE q = N + 1 /\ p \in 1..N
    BY <1>1, <1>3, <2>2
  <2>3. CASE q = N + 1 /\ p = N + 1
    BY <1>1, <1>2, <2>3, NewerOrder
  <2> QED
    BY <1>2, <2>1, <2>2, <2>3
<1>5. ASSUME NEW n \in 1..N, NEW v, Before(n, v, h, all) PROVE Before(n, v, g, all)
  <2>1. CASE \A p \in 1..N : h[p].pkg = v => n < p
    <3>1. \A p \in 1..N + 1 : g[p].pkg = v => n < p
      BY <1>1, <1>2, <2>1
    <3> QED
      BY <1>1, <3>1 DEF Before
  <2> QED
    BY <1>5, <2>1 DEF Before
<1>6. ASSUME NEW s \in c.sections
      PROVE  /\ \E p \in 1..N + 1 : g[p].pkg = s.version
             /\ \A n \in s.lists : Before(n, s.version, g, all)
  <2>1. CASE s \in Last(h).sections
    <3>1. /\ \E p \in 1..N : h[p].pkg = s.version
          /\ \A n \in s.lists : Before(n, s.version, h, all) /\ n \in 1..N
      BY <1>2, <2>1 DEF Announces
    <3>2. \E p \in 1..N + 1 : g[p].pkg = s.version
      BY <1>1, <1>2, <3>1
    <3> QED
      BY <1>5, <3>1, <3>2
  <2>2. CASE s \in new
    <3>1. N + 1 \in 1..N + 1
      BY <1>2
    <3> QED
      BY <1>1, <1>5, <2>2, <3>1
  <2> QED
    BY <2>1, <2>2
<1>7. ASSUME NEW s \in c.sections, NEW t \in c.sections, s # t
      PROVE  s.version # t.version /\ s.lists \cap t.lists = {}
  <2>1. CASE s \in Last(h).sections /\ t \in Last(h).sections
    BY <1>7, <2>1 DEF Announces
  <2>2. CASE s \in new
    BY <1>7, <2>2
  <2>3. CASE t \in new
    BY <1>7, <2>3
  <2> QED
    BY <2>1, <2>2, <2>3
<1>8. Announces(g, all)
  BY <1>1, <1>6, <1>7 DEF Announces
<1> QED
  BY <1>4, <1>8 DEF g

\* Announcements stay when there are more tags.
LEMMA MoreTags ==
  ASSUME NEW all, NEW more, \A v \in DOMAIN all : v \in DOMAIN more /\ more[v] = all[v],
         NEW h, Announces(h, all)
  PROVE  Announces(h, more)
BY DEF Announces, Before

\* A history in order has one commit that makes a version.
LEMMA OneRelease ==
  ASSUME NEW h, IsHistory(h), Grows(h), NEW v
  PROVE  Cardinality(Releases(h, v)) <= 1
<1>1. ASSUME NEW p \in Releases(h, v), NEW q \in Releases(h, v), p < q PROVE FALSE
  <2>1. /\ p \in 1..Len(h) /\ q \in 1..Len(h) /\ Len(h) \in Nat /\ h[p].pkg = v /\ h[q].pkg = v
        /\ q - 1 \in 1..Len(h) /\ h[q - 1].pkg # v /\ p <= q - 1 /\ q - 1 <= q
    BY <1>1, LastCommit DEF Releases
  <2>2. ~IsNewerParts(v, h[q - 1].pkg) /\ ~IsNewerParts(h[q - 1].pkg, v)
    BY <2>1 DEF Grows
  <2>3. v \in Version /\ h[q - 1].pkg \in Version
    BY <2>1, LastCommit
  <2> QED
    BY <2>1, <2>2, <2>3, NewerOrder
<1>2. \A p, q \in Releases(h, v) : p = q
  <2> SUFFICES ASSUME NEW p \in Releases(h, v), NEW q \in Releases(h, v) PROVE p = q
    OBVIOUS
  <2>1. p \in Int /\ q \in Int
    BY LastCommit DEF Releases
  <2> QED
    BY <1>1, <2>1
<1>3. CASE Releases(h, v) = {}
  BY <1>3, FS_EmptySet
<1>4. CASE Releases(h, v) # {}
  <2>1. PICK p \in Releases(h, v) : TRUE
    BY <1>4
  <2>2. Releases(h, v) = {p}
    BY <1>2, <2>1
  <2>3. Cardinality({p}) = 1
    BY FS_Singleton
  <2> QED
    BY <2>2, <2>3
<1> QED
  BY <1>3, <1>4

\* The nearest tag is that of the longest history, if there is one.
LEMMA TagNearestIs ==
  ASSUME NEW all, AreTags(all), NEW h, Len(h) \in Nat
  PROVE  /\ Len(TagNearest(all, h)) \in Nat
         /\ \A v \in MergedTags(all, h) : Len(all[v]) <= Len(TagNearest(all, h))
<1> DEFINE M == MergedTags(all, h)
           longest(v) == \A w \in M : Len(all[w]) <= Len(all[v])
<1>1. \A v \in M : v \in DOMAIN all /\ Len(all[v]) \in Nat /\ Len(all[v]) <= Len(h)
  BY LastCommit DEF MergedTags, AreTags, IsPrefix
<1>2. CASE M = {}
  <2>1. TagNearest(all, h) = <<>> /\ Len(<<>>) = 0
    BY <1>2 DEF TagNearest
  <2> QED
    BY <1>2, <2>1
<1>3. CASE M # {}
  <2> DEFINE K == {Len(h) - Len(all[v]) : v \in M}
  <2> HIDE DEF M
  <2>1. K \in SUBSET Nat /\ K # {}
    BY <1>1, <1>3
  <2>2. PICK x \in K : \A y \in K : x <= y
    BY <2>1, LeastExists
  <2>3. PICK v \in M : x = Len(h) - Len(all[v])
    BY <2>2
  <2>4. longest(v)
    <3> SUFFICES ASSUME NEW w \in M PROVE Len(all[w]) <= Len(all[v])
      OBVIOUS
    <3>1. x <= Len(h) - Len(all[w])
      BY <2>2
    <3> QED
      BY <1>1, <2>3, <3>1
  <2> DEFINE c == CHOOSE u \in M : longest(u)
  <2>5. c \in M /\ longest(c)
    <3> HIDE DEF longest
    <3> QED
      BY <2>4
  <2>6. TagNearest(all, h) = all[c]
    BY <1>3 DEF TagNearest, M
  <2> HIDE DEF c
  <2> QED
    BY <1>1, <2>5, <2>6 DEF M
<1> QED
  BY <1>2, <1>3

\* What is read since the nearest tag of the commits before h's last.
LEMMA ReadIs ==
  ASSUME NEW all, AreTags(all), NEW h, IsHistory(h),
         NEW n \in ReadCommitsSince(h, TagNearest(all, Front(h)))
  PROVE  n \in 1..Len(h) /\ \A v \in MergedTags(all, Front(h)) : n > Len(all[v])
<1>1. PICK S : h \in Seq(S)
  BY HistorySeq
<1>2. Len(h) \in Nat \ {0}
  BY DEF IsHistory
<1>3. Len(Front(h)) \in Nat
  <2>1. ASSUME NEW m \in 0..Len(h) PROVE Len(SubSeq(h, 1, m)) \in Nat
    BY <1>1
  <2> QED
    BY <1>2, <2>1 DEF Front
<1> DEFINE b == Len(TagNearest(all, Front(h)))
<1>4. b \in Nat /\ \A v \in MergedTags(all, Front(h)) : Len(all[v]) <= b
  BY <1>3, TagNearestIs
<1>5. n \in (b + 1)..Len(h)
  BY DEF ReadCommitsSince
<1>6. \A v \in MergedTags(all, Front(h)) : Len(all[v]) \in Nat
  BY LastCommit DEF AreTags, MergedTags
<1> HIDE DEF b
<1> QED
  BY <1>2, <1>4, <1>5, <1>6

\* The highest tag.
LEMMA LatestTagIs ==
  ASSUME NEW S \in SUBSET Version, NEW u \in S, \A w \in S : ~IsNewerParts(w, u)
  PROVE  LatestSemverTag(S) = u
<1> DEFINE c == CHOOSE v \in S : \A w \in S : ~IsNewerParts(w, v)
<1>1. c \in S /\ \A w \in S : ~IsNewerParts(w, c)
  OBVIOUS
<1>2. LatestSemverTag(S) = c
  BY DEF LatestSemverTag
<1> HIDE DEF c
<1> QED
  BY <1>1, <1>2, NewerOrder

LEMMA NextVersionIs ==
  ASSUME NEW old \in Version, NEW commits, ComputeNextVersion(commits, old) # <<>>
  PROVE  /\ ComputeNextVersion(commits, old) \in Version
         /\ IsNewerParts(ComputeNextVersion(commits, old), old)
<1> DEFINE bump == CHOOSE b \in {0} \cup {BumpOf(c) : c \in commits} : \A c \in commits : BumpOf(c) <= b
           level == IF old[1] = 0 /\ bump = 3 THEN 2 ELSE bump
<1>1. ComputeNextVersion(commits, old) = IF bump = 0 THEN <<>> ELSE Bumped(old, level)
  BY DEF ComputeNextVersion
<1> HIDE DEF bump, level
<1>2. ComputeNextVersion(commits, old) = Bumped(old, level)
  BY <1>1
<1> QED
  BY <1>2, BumpedIs

-----------------------------------------------------------------------------
\* p is in one of the sets of t, and in no other.
Somewhere(t, p) == \E i \in 1..Len(t) : p \in t[i]
OnceOnly(t, p) == \A i, j \in 1..Len(t) : p \in t[i] /\ p \in t[j] => i = j

LEMMA OneMore ==
  ASSUME NEW S, NEW t \in Seq(S), NEW x \in S, NEW p
  PROVE  /\ Somewhere(Append(t, x), p) <=> Somewhere(t, p) \/ p \in x
         /\ OnceOnly(Append(t, x), p) <=> OnceOnly(t, p) /\ (p \in x => ~Somewhere(t, p))
<1> DEFINE u == Append(t, x)
           n == Len(t)
<1>1. /\ Len(u) = n + 1 /\ u[n + 1] = x /\ n \in Nat
      /\ \A i \in 1..n : u[i] = t[i]
  BY AppendProperties
<1> HIDE DEF u
<1>2. \A i : i \in 1..n + 1 <=> i \in 1..n \/ i = n + 1
  BY <1>1
<1>3. n + 1 \notin 1..n
  BY <1>1
<1> DEFINE in(i) == p \in u[i]
<1>4. /\ \A i \in 1..n : in(i) <=> p \in t[i]
      /\ in(n + 1) <=> p \in x
  BY <1>1
<1> HIDE DEF in, n
<1>5. /\ Somewhere(u, p) <=> \E i \in 1..n + 1 : in(i)
      /\ OnceOnly(u, p) <=> \A i, j \in 1..n + 1 : in(i) /\ in(j) => i = j
  BY <1>1 DEF Somewhere, OnceOnly, in
<1>6. /\ Somewhere(t, p) <=> \E i \in 1..n : in(i)
      /\ OnceOnly(t, p) <=> \A i, j \in 1..n : in(i) /\ in(j) => i = j
  BY <1>4 DEF Somewhere, OnceOnly, n
<1>7. /\ (\E i \in 1..n + 1 : in(i)) <=> (\E i \in 1..n : in(i)) \/ in(n + 1)
      /\ (\A i, j \in 1..n + 1 : in(i) /\ in(j) => i = j)
           <=> (\A i, j \in 1..n : in(i) /\ in(j) => i = j) /\ (in(n + 1) => ~\E i \in 1..n : in(i))
  BY ONLY <1>2, <1>3, Zenon
<1> QED
  BY <1>4, <1>5, <1>6, <1>7 DEF u

\* Leaving the empty groups out leaves each commit in its one group.
LEMMA GroupsKept ==
  ASSUME NEW S, NEW G \in Seq(S), NEW p, Somewhere(G, p), OnceOnly(G, p)
  PROVE  Somewhere(Remaining(G, {{}}), p) /\ OnceOnly(Remaining(G, {{}}), p)
<1> DEFINE R(t) == Remaining(t, {{}})
           P == {t \in Seq(S) : /\ Somewhere(t, p) <=> Somewhere(R(t), p)
                                /\ OnceOnly(t, p) => OnceOnly(R(t), p)}
<1>1. <<>> \in P
  BY RemainingEmpty
<1>2. ASSUME NEW t \in Seq(S), NEW x \in S, t \in P PROVE Append(t, x) \in P
  <2>1. Append(t, x) \in Seq(S)
    OBVIOUS
  <2>2. /\ Somewhere(Append(t, x), p) <=> Somewhere(t, p) \/ p \in x
        /\ OnceOnly(Append(t, x), p) <=> OnceOnly(t, p) /\ (p \in x => ~Somewhere(t, p))
    BY OneMore
  <2>3. R(t) \in Seq(S)
    BY RemainingQueue
  <2>4. /\ Somewhere(Append(R(t), x), p) <=> Somewhere(R(t), p) \/ p \in x
        /\ OnceOnly(Append(R(t), x), p) <=> OnceOnly(R(t), p) /\ (p \in x => ~Somewhere(R(t), p))
    BY <2>3, OneMore
  <2>5. R(Append(t, x)) = IF x \in {{}} THEN R(t) ELSE Append(R(t), x)
    BY RemainingAppend
  <2>6. /\ Somewhere(t, p) <=> Somewhere(R(t), p)
        /\ OnceOnly(t, p) => OnceOnly(R(t), p)
    BY <1>2
  <2> HIDE DEF R
  <2>7. /\ Somewhere(Append(t, x), p) <=> Somewhere(R(Append(t, x)), p)
        /\ OnceOnly(Append(t, x), p) => OnceOnly(R(Append(t, x)), p)
    <3>1. CASE x = {}
      BY <2>2, <2>5, <2>6, <3>1
    <3>2. CASE x # {}
      BY <2>2, <2>4, <2>5, <2>6, <3>2
    <3> QED
      BY <3>1, <3>2
  <2> QED
    BY <2>1, <2>7
<1> HIDE DEF P
<1>3. \A t \in Seq(S) : t \in P
  BY <1>1, <1>2, SeqSetInduction
<1> QED
  BY <1>3 DEF P

\* Every commit that is listed is in one group.
LEMMA Grouped ==
  ASSUME NEW h, NEW positions, NEW p \in positions
  PROVE  LET groups == GroupChangelog(h, positions)
         IN  \E i \in 1..Len(groups) : p \in groups[i] /\ \A j \in 1..Len(groups) : p \in groups[j] => i = j
<1> DEFINE of(types) == {q \in positions : h[q].type \in types}
           known == {Categories[i] : i \in 1..Len(Categories)} \cup {"breaking"}
           middle == [i \in 1..Len(Categories) |-> of({Categories[i]})]
           G == <<of({"breaking"})>> \o middle \o <<positions \ of(known)>>
           type == h[p].type
<1>1. Len(Categories) = 9
  BY DEF Categories
<1>2. /\ \A i \in 1..9 : Categories[i] # "breaking"
      /\ \A i, j \in 1..9 : Categories[i] = Categories[j] => i = j
  BY DEF Categories
<1>3. middle = [i \in 1..9 |-> of({Categories[i]})]
  BY <1>1
<1>5. \A i \in 1..9 : middle[i] = of({Categories[i]}) /\ middle[i] \in SUBSET positions
  BY <1>3
<1>4. middle \in Seq(SUBSET positions) /\ Len(middle) = 9
  <2> HIDE DEF of
  <2>1. 9 \in Nat
    OBVIOUS
  <2>2. middle = [i \in 1..9 |-> middle[i]]
    <3> DEFINE g(i) == of({Categories[i]})
    <3> HIDE DEF g
    <3>1. middle = [i \in 1..9 |-> g(i)]
      BY <1>3 DEF g
    <3> QED
      BY <3>1
  <2> HIDE DEF middle
  <2>3. [i \in 1..9 |-> middle[i]] \in Seq(SUBSET positions)
    BY <1>5, <2>1, IsASeq
  <2>4. Len([i \in 1..9 |-> middle[i]]) = 9
    OBVIOUS
  <2> QED
    BY <2>2, <2>3, <2>4
<1> HIDE DEF middle
<1>6. of({"breaking"}) \in SUBSET positions /\ positions \ of(known) \in SUBSET positions
  OBVIOUS
<1>7. /\ G \in Seq(SUBSET positions) /\ Len(G) = 11 /\ G[1] = of({"breaking"})
      /\ \A i \in 2..10 : G[i] = middle[i - 1]
      /\ G[11] = positions \ of(known)
  <2> DEFINE S == SUBSET positions
             first == <<of({"breaking"})>>
             other == <<positions \ of(known)>>
  <2>1. /\ first \in Seq(S) /\ Len(first) = 1 /\ first[1] = of({"breaking"})
        /\ other \in Seq(S) /\ Len(other) = 1 /\ other[1] = positions \ of(known)
    <3> HIDE DEF of, known
    <3> QED
      BY <1>6
  <2> HIDE DEF S, first, other, of, known
  <2>2. /\ first \o middle \in Seq(S) /\ Len(first \o middle) = 10
        /\ \A i \in 1..10 : (first \o middle)[i] = IF i <= 1 THEN first[i] ELSE middle[i - 1]
    <3>1. middle \in Seq(S)
      BY <1>4 DEF S
    <3>2. /\ first \o middle \in Seq(S) /\ Len(first \o middle) = Len(first) + Len(middle)
          /\ \A i \in 1..Len(first) + Len(middle) :
               (first \o middle)[i] = IF i <= Len(first) THEN first[i] ELSE middle[i - Len(first)]
      <4>1. first \in Seq(S)
        BY <2>1
      <4> HIDE DEF first
      <4> QED
        BY ONLY <3>1, <4>1, ConcatProperties
    <3>3. Len(first) = 1 /\ Len(middle) = 9 /\ 1 + 9 = 10
      BY <1>4, <2>1
    <3> QED
      BY ONLY <3>2, <3>3
  <2>3. /\ (first \o middle) \o other \in Seq(S) /\ Len((first \o middle) \o other) = 11
        /\ \A i \in 1..11 : ((first \o middle) \o other)[i]
                              = IF i <= 10 THEN (first \o middle)[i] ELSE other[i - 10]
    <3> DEFINE both == first \o middle
    <3>1. both \in Seq(S) /\ Len(both) = 10
      BY <2>2
    <3> HIDE DEF both
    <3>2. /\ both \o other \in Seq(S) /\ Len(both \o other) = Len(both) + Len(other)
          /\ \A i \in 1..Len(both) + Len(other) :
               (both \o other)[i] = IF i <= Len(both) THEN both[i] ELSE other[i - Len(both)]
      <4>1. other \in Seq(S)
        BY <2>1
      <4> HIDE DEF other
      <4> QED
        BY ONLY <3>1, <4>1, ConcatProperties
    <3>3. Len(other) = 1 /\ 10 + 1 = 11
      BY <2>1
    <3>4. /\ both \o other \in Seq(S) /\ Len(both \o other) = 11
          /\ \A i \in 1..11 : (both \o other)[i] = IF i <= 10 THEN both[i] ELSE other[i - 10]
      BY ONLY <3>1, <3>2, <3>3
    <3> QED
      BY <3>4 DEF both
  <2>4. /\ G = (first \o middle) \o other
    BY DEF first, other
  <2> HIDE DEF G
  <2> QED
    BY <2>1, <2>2, <2>3, <2>4, SMTT(30) DEF S
<1>8. /\ p \in G[1] <=> type = "breaking"
      /\ \A i \in 2..10 : p \in G[i] <=> type = Categories[i - 1]
      /\ p \in G[11] <=> type # "breaking" /\ \A i \in 1..9 : type # Categories[i]
  <2>1. \A types : p \in of(types) <=> type \in types
    OBVIOUS
  <2>2. known = {Categories[i] : i \in 1..9} \cup {"breaking"}
    BY <1>1
  <2> HIDE DEF of, G, known, type
  <2>3. p \in G[1] <=> type = "breaking"
    BY <1>7, <2>1
  <2>4. ASSUME NEW i \in 2..10 PROVE p \in G[i] <=> type = Categories[i - 1]
    <3>1. i - 1 \in 1..9
      OBVIOUS
    <3> QED
      BY <1>5, <1>7, <2>1, <3>1, SMTT(30)
  <2>5. p \in G[11] <=> type # "breaking" /\ \A i \in 1..9 : type # Categories[i]
    BY <1>7, <2>1, <2>2
  <2> QED
    BY <2>3, <2>4, <2>5
<1>9. GroupChangelog(h, positions) = Remaining(G, {{}})
  BY DEF GroupChangelog, middle
<1> HIDE DEF G, type, of, known
<1>10. Somewhere(G, p)
  <2>1. CASE type = "breaking"
    BY <1>7, <1>8, <2>1 DEF Somewhere
  <2>2. CASE \E i \in 1..9 : type = Categories[i]
    <3>1. PICK i \in 1..9 : type = Categories[i]
      BY <2>2
    <3>2. i + 1 \in 2..10 /\ (i + 1) - 1 = i /\ i + 1 \in 1..11
      OBVIOUS
    <3>3. p \in G[i + 1]
      BY <1>8, <3>1, <3>2
    <3> QED
      BY <1>7, <3>2, <3>3 DEF Somewhere
  <2>3. CASE type # "breaking" /\ \A i \in 1..9 : type # Categories[i]
    BY <1>7, <1>8, <2>3 DEF Somewhere
  <2> QED
    BY <2>1, <2>2, <2>3
<1>11. OnceOnly(G, p)
  <2> SUFFICES ASSUME NEW i \in 1..11, NEW j \in 1..11, p \in G[i], p \in G[j] PROVE i = j
    BY <1>7 DEF OnceOnly
  <2>1. \A k \in 2..10 : k - 1 \in 1..9
    OBVIOUS
  <2>2. CASE i \in 2..10 /\ j \in 2..10
    <3>1. Categories[i - 1] = Categories[j - 1]
      BY <1>8, <2>2
    <3>2. i - 1 = j - 1
      BY <1>2, <2>1, <2>2, <3>1
    <3> QED
      BY <3>2
  <2>3. CASE i \in 2..10 /\ j \notin 2..10
    <3>1. j = 1 \/ j = 11
      BY <2>3
    <3>2. type = Categories[i - 1] /\ i - 1 \in 1..9
      BY <1>8, <2>1, <2>3
    <3> QED
      BY <1>2, <1>8, <3>1, <3>2
  <2>4. CASE i \notin 2..10 /\ j \in 2..10
    <3>1. i = 1 \/ i = 11
      BY <2>4
    <3>2. type = Categories[j - 1] /\ j - 1 \in 1..9
      BY <1>8, <2>1, <2>4
    <3> QED
      BY <1>2, <1>8, <3>1, <3>2
  <2>5. CASE i \notin 2..10 /\ j \notin 2..10
    <3>1. (i = 1 \/ i = 11) /\ (j = 1 \/ j = 11)
      BY <2>5
    <3> QED
      BY <1>8, <3>1
  <2> QED
    BY <2>2, <2>3, <2>4, <2>5
<1>12. Somewhere(Remaining(G, {{}}), p) /\ OnceOnly(Remaining(G, {{}}), p)
  BY <1>7, <1>10, <1>11, GroupsKept
<1> QED
  BY <1>9, <1>12 DEF Somewhere, OnceOnly


\* What a longer branch leaves of the invariant.
LEMMA CiRunOn ==
  ASSUME NEW c, NEW m, CiRun(c, m), IsHistory(m), NEW n, IsHistory(n), IsPrefix(m, n)
  PROVE  CiRun(c, n)
<1>1. \A h : IsHistory(h) /\ IsPrefix(h, m) => IsPrefix(h, n)
  BY PrefixOrder
<1> QED
  BY <1>1 DEF CiRun, Checked

LEMMA LineOn ==
  ASSUME NEW m, IsHistory(m), NEW n, IsHistory(n), IsPrefix(m, n), NEW all, AreTags(all),
         NEW h, IsHistory(h), NEW own, NEW l, LineKept(m, all, h, own, l)
  PROVE  LineKept(n, all, h, own, l)
<1>1. \A f : IsHistory(f) /\ IsPrefix(f, m) => IsPrefix(f, n)
  BY PrefixOrder
<1> QED
  BY <1>1 DEF LineKept, AreTags

\* A checkout is no history that is longer than the branch.
LEMMA CiBehind ==
  ASSUME NEW c, NEW m, c = Idle \/ CiRun(c, m), IsHistory(m), NEW n, IsHistory(n), NEW all,
         Len(m) < Len(n)
  PROVE  CiChose(c, n, all)
<1> SUFFICES ASSUME c.pc \in {"look", "commit"}, c.checkout = n PROVE FALSE
  BY DEF CiChose
<1>1. c # Idle
  BY DEF Idle
<1>2. IsPrefix(n, m)
  BY <1>1 DEF CiRun, Checked
<1>3. Len(m) \in Nat /\ Len(n) \in Nat /\ Len(n) <= Len(m)
  BY <1>2 DEF IsPrefix, IsHistory
<1> QED
  BY <1>3

LEMMA CiMoreTags ==
  ASSUME NEW c, NEW m, IsHistory(m), NEW all, CiChose(c, m, all),
         NEW more, \A v \in DOMAIN all : v \in DOMAIN more /\ more[v] = all[v]
  PROVE  CiChose(c, m, more)
<1>1. TaggedReleases(m, all) => TaggedReleases(m, more) /\ Last(m).pkg \in DOMAIN all
  BY LastCommit DEF TaggedReleases
<1> QED
  BY <1>1 DEF CiChose

LEMMA PushWorkKeeps ==
  ASSUME ReleaseInv, PushWork
  PROVE  ReleaseInv'
<1> USE DEF cloneVars
<1>1. PICK t \in WorkTypes : main' = Append(main, [Last(main) EXCEPT !.type = t])
  BY DEF PushWork
<1> DEFINE c == [Last(main) EXCEPT !.type = t]
<1>2. UNCHANGED <<tags, published, clone, ownTags, dirty, local, ci, begun, cutShort, stale>>
  BY DEF PushWork
<1>3. ReleaseTyped /\ IsHistory(main)
  BY DEF ReleaseInv, ReleaseTyped
<1>4. /\ IsCommit(c) /\ c.pkg = Last(main).pkg /\ c.sections = Last(main).sections
      /\ \A s \in c.sections : s.lists \subseteq 1..Len(main) + 1
  <2>1. IsCommit(Last(main)) /\ Len(main) \in Nat
        /\ \A s \in Last(main).sections : s.lists \subseteq 1..Len(main)
    BY <1>3, LastCommit
  <2>2. c.type = t /\ c.pkg = Last(main).pkg /\ c.sections = Last(main).sections
        /\ c = [type |-> t, pkg |-> Last(main).pkg, sections |-> Last(main).sections]
    BY <2>1 DEF IsCommit
  <2> HIDE DEF c
  <2>3. \A s \in c.sections : s.lists \subseteq 1..Len(main) + 1
    BY <2>1, <2>2
  <2> QED
    BY <2>1, <2>2, <2>3 DEF IsCommit
<1> HIDE DEF c
<1>5. IsHistory(main') /\ IsPrefix(main, main') /\ Len(main') = Len(main) + 1
  BY <1>1, <1>3, <1>4, CommitMore DEF c
<1>6. ReleaseTyped'
  <2>1. ci = Idle \/ CiRun(ci, main')
    BY <1>3, <1>5, CiRunOn DEF ReleaseTyped
  <2> QED
    BY <1>2, <1>3, <1>5, <2>1 DEF ReleaseTyped
<1>7. ASSUME ~cutShort' PROVE LineKept(main', tags', clone', ownTags', local')
  BY <1>2, <1>3, <1>5, <1>7, LineOn DEF ReleaseInv, ReleaseTyped
<1>8. ASSUME ~cutShort', ~stale' PROVE Versioned'
  <2>1. Versioned
    BY <1>2, <1>8 DEF ReleaseInv
  <2>2. Grows(main') /\ Announces(main', tags)
    <3>1. c.sections = Last(main).sections \cup {}
      BY <1>4
    <3>2. Grows(main) /\ Announces(main, tags)
      BY <2>1 DEF Versioned
    <3> DEFINE new == {}
    <3>3. /\ c.sections = Last(main).sections \cup new
          /\ \A s \in new :
               /\ s.version = c.pkg
               /\ \A u \in new : s = u
               /\ \A u \in Last(main).sections : s.version # u.version /\ s.lists \cap u.lists = {}
               /\ \A n \in s.lists : n \in 1..Len(main) /\ Before(n, c.pkg, main, tags)
      BY <3>1
    <3> HIDE DEF new
    <3>4. Grows(Append(main, c)) /\ Announces(Append(main, c), tags)
      BY <1>3, <1>4, <3>2, <3>3, OrderedMore
    <3> QED
      BY <1>1, <3>4 DEF c
  <2>3. CiChose(ci, main', tags)
    <3>1. Len(main) < Len(main')
      BY <1>3, <1>5, LastCommit
    <3> QED
      BY <1>3, <1>5, <3>1, CiBehind DEF ReleaseTyped
  <2> QED
    BY <1>2, <2>1, <2>2, <2>3 DEF Versioned
<1> QED
  BY <1>6, <1>7, <1>8 DEF ReleaseInv

LEMMA PullKeeps ==
  ASSUME ReleaseInv, Pull
  PROVE  ReleaseInv'
<1> USE DEF originVars
<1>1. /\ local = Idle /\ IsPrefix(clone, main) /\ clone' = main
      /\ UNCHANGED <<main, tags, published, dirty, local, ci, begun, cutShort, stale>>
  BY DEF Pull, IsStrictPrefix
<1>2. /\ ownTags' = [v \in DOMAIN ownTags' |-> ownTags'[v]]
      /\ DOMAIN ownTags' = DOMAIN ownTags \cup DOMAIN tags
      /\ \A v \in DOMAIN ownTags : ownTags'[v] = ownTags[v]
      /\ \A v \in DOMAIN ownTags' : v \notin DOMAIN ownTags => v \in DOMAIN tags /\ ownTags'[v] = tags[v]
  BY DEF Pull
<1>3. local.pc = "idle"
  BY <1>1 DEF Idle
<1>4. ReleaseTyped
  BY DEF ReleaseInv
<1>5. AreTags(ownTags')
  BY <1>2, <1>4 DEF ReleaseTyped, AreTags
<1>6. ReleaseTyped'
  BY <1>1, <1>3, <1>4, <1>5 DEF ReleaseTyped, LocalAgrees
<1>7. ASSUME ~cutShort' PROVE LineKept(main', tags', clone', ownTags', local')
  <2>1. LineKept(main, tags, clone, ownTags, local)
    BY <1>1, <1>7 DEF ReleaseInv
  <2>2. IsHistory(clone) /\ IsHistory(main) /\ \A v \in DOMAIN ownTags : IsHistory(ownTags[v])
    BY <1>4 DEF ReleaseTyped, AreTags
  <2>3. \A v \in DOMAIN ownTags : IsPrefix(ownTags[v], main)
    BY <1>1, <2>1, <2>2, PrefixOrder DEF LineKept
  <2>4. IsPrefix(main, main)
    BY <2>2, PrefixOrder
  <2> QED
    BY <1>1, <1>2, <1>3, <2>1, <2>3, <2>4 DEF LineKept, Tagging, Ahead
<1>8. ASSUME ~cutShort', ~stale' PROVE Versioned'
  BY <1>1, <1>3, <1>8 DEF ReleaseInv, Versioned, LocalChose
<1> QED
  BY <1>6, <1>7, <1>8 DEF ReleaseInv

LEMMA DiscardKeeps ==
  ASSUME ReleaseInv, Discard
  PROVE  ReleaseInv'
BY DEF Discard, originVars, ReleaseInv, ReleaseTyped, Versioned

LEMMA StartLocalKeeps ==
  ASSUME ReleaseInv, NEW bump \in 0..3, StartLocal(bump)
  PROVE  ReleaseInv'
<1> USE DEF originVars, cloneVars, remoteAndRuns
<1> DEFINE v == IF bump = 0 THEN Last(clone).pkg ELSE Bumped(Last(clone).pkg, bump)
           hadOwn == v \in DOMAIN ownTags
           hadRemote == v \in DOMAIN tags
           commit == IF hadOwn THEN ownTags[v] ELSE clone
           base == TagNearest(ownTags, Front(commit))
           lists == ReadCommitsSince(commit, base)
<1>1. /\ local = Idle
      /\ hadOwn => IsPrefix(ownTags[v], clone)
      /\ hadRemote => hadOwn
      /\ local' = [pc |-> "write", version |-> v, hadOwn |-> hadOwn, hadRemote |-> hadRemote,
                   lists |-> lists, staged |-> FALSE]
      /\ UNCHANGED <<main, tags, published, clone, ownTags, dirty, ci, stale, cutShort>>
  BY DEF StartLocal
<1>2. ReleaseTyped /\ IsHistory(clone) /\ AreTags(ownTags)
  BY DEF ReleaseInv, ReleaseTyped
<1>3. v \in Version /\ (v = Last(clone).pkg \/ IsNewerParts(v, Last(clone).pkg))
  BY <1>2, LastCommit, BumpedIs
<1>4. hadOwn \in BOOLEAN /\ hadRemote \in BOOLEAN
  OBVIOUS
<1> HIDE DEF v
<1>5. IsHistory(commit) /\ IsPrefix(commit, clone)
  BY <1>1, <1>2, PrefixOrder DEF AreTags
<1>6. \A n \in lists : n \in 1..Len(commit) /\ \A w \in MergedTags(ownTags, Front(commit)) : n > Len(ownTags[w])
  <2> HIDE DEF commit
  <2> QED
    BY <1>2, <1>5, ReadIs
<1>7. lists \subseteq 1..Len(clone)
  <2> HIDE DEF commit, lists
  <2>1. Len(commit) <= Len(clone) /\ Len(commit) \in Nat /\ Len(clone) \in Nat
    BY <1>2, <1>5 DEF IsPrefix, IsHistory
  <2> QED
    BY <1>6, <2>1
<1> HIDE DEF lists
<1>8. /\ local'.pc = "write" /\ local'.version = v /\ local'.hadOwn = hadOwn
      /\ local'.hadRemote = hadRemote /\ local'.lists = lists /\ local'.staged = FALSE
  BY <1>1
<1>9. local.pc = "idle"
  BY <1>1 DEF Idle
<1>10. commit = IF local'.hadOwn THEN ownTags[local'.version] ELSE clone
  BY <1>8
<1>11. local'.hadOwn <=> local'.version \in DOMAIN ownTags
  BY <1>8
<1>12. local'.hadRemote => local'.hadOwn
  BY <1>1, <1>8
<1> HIDE DEF hadOwn, hadRemote, commit
<1>13. ReleaseTyped'
  <2>1. LocalRun(local', clone)
    BY <1>1, <1>3, <1>4, <1>7, <1>8, <1>12 DEF LocalRun
  <2>2. LocalAgrees(local', clone, ownTags)
    BY <1>8, <1>11 DEF LocalAgrees
  <2> QED
    BY <1>1, <1>2, <2>1, <2>2 DEF ReleaseTyped
<1>14. ASSUME ~cutShort' PROVE LineKept(main', tags', clone', ownTags', local')
  BY <1>1, <1>8, <1>9, <1>14 DEF ReleaseInv, LineKept, Tagging, Ahead
<1>15. ASSUME ~cutShort', ~stale' PROVE Versioned'
  <2>1. LocalChose(local', clone, ownTags)
    <3>1. \A n \in lists : n <= Len(commit)
      BY <1>5, <1>6 DEF IsHistory
    <3> QED
      BY <1>3, <1>6, <1>8, <1>10, <3>1 DEF LocalChose
  <2> QED
    BY <1>1, <1>15, <2>1 DEF ReleaseInv, Versioned
<1> QED
  BY <1>13, <1>14, <1>15 DEF ReleaseInv

LEMMA WriteFilesKeeps ==
  ASSUME ReleaseInv, WriteFiles
  PROVE  ReleaseInv'
<1> USE DEF originVars, remoteAndRuns
<1>1. /\ local.pc = "write"
      /\ dirty' \in BOOLEAN
      /\ local.version # Last(clone).pkg => dirty'
      /\ local' = [local EXCEPT !.pc = "commit", !.staged = dirty']
      /\ UNCHANGED <<main, tags, published, clone, ownTags, ci, stale, begun, cutShort>>
  BY DEF WriteFiles
<1>2. ReleaseTyped /\ LocalRun(local, clone)
  BY <1>1 DEF ReleaseInv, ReleaseTyped, Idle
<1>3. /\ local' = [pc |-> "commit", version |-> local.version, hadOwn |-> local.hadOwn,
                   hadRemote |-> local.hadRemote, lists |-> local.lists, staged |-> dirty']
      /\ local'.pc = "commit" /\ local'.version = local.version /\ local'.hadOwn = local.hadOwn
      /\ local'.hadRemote = local.hadRemote /\ local'.lists = local.lists /\ local'.staged = dirty'
  BY <1>1, <1>2 DEF LocalRun
<1>4. ReleaseTyped'
  <2>1. LocalRun(local', clone)
    BY <1>1, <1>2, <1>3 DEF LocalRun
  <2>2. LocalAgrees(local', clone, ownTags)
    BY <1>1, <1>2, <1>3 DEF ReleaseTyped, LocalAgrees
  <2> QED
    BY <1>1, <1>2, <2>1, <2>2 DEF ReleaseTyped
<1>5. ASSUME ~cutShort' PROVE LineKept(main', tags', clone', ownTags', local')
  BY <1>1, <1>3, <1>5 DEF ReleaseInv, LineKept, Tagging, Ahead
<1>6. ASSUME ~cutShort', ~stale' PROVE Versioned'
  BY <1>1, <1>3, <1>6 DEF ReleaseInv, Versioned, LocalChose
<1> QED
  BY <1>4, <1>5, <1>6 DEF ReleaseInv


\* Sections that list none of the commits after the n-th.
AreSections(sections, n) == \A s \in sections : s = Section(s.version, s.lists) /\ s.lists \subseteq 1..n

\* The commit of a release, with at most one section more.
LEMMA ReleaseCommitIs ==
  ASSUME NEW h, IsHistory(h), NEW type, NEW v \in Version, NEW sections, AreSections(sections, Len(h) + 1)
  PROVE  /\ IsHistory(ReleaseCommit(h, type, v, sections))
         /\ Len(ReleaseCommit(h, type, v, sections)) = Len(h) + 1
         /\ IsPrefix(h, ReleaseCommit(h, type, v, sections))
         /\ IsCommit([type |-> type, pkg |-> v, sections |-> sections])
<1> DEFINE c == [type |-> type, pkg |-> v, sections |-> sections]
<1>1. c.type = type /\ c.pkg = v /\ c.sections = sections
  OBVIOUS
<1>2. c = [type |-> c.type, pkg |-> c.pkg, sections |-> c.sections]
  OBVIOUS
<1>3. IsCommit(c) /\ \A s \in c.sections : s.lists \subseteq 1..Len(h) + 1
  BY <1>1, <1>2 DEF IsCommit, AreSections
<1>4. ReleaseCommit(h, type, v, sections) = Append(h, c)
  BY DEF ReleaseCommit
<1> HIDE DEF c
<1>5. /\ IsHistory(Append(h, c)) /\ Len(Append(h, c)) = Len(h) + 1 /\ IsPrefix(h, Append(h, c))
      /\ Last(Append(h, c)) = c
  BY <1>1, <1>3, CommitMore
<1> QED
  BY <1>1, <1>3, <1>4, <1>5 DEF c

LEMMA ReleaseCommitLast ==
  ASSUME NEW h, IsHistory(h), NEW type, NEW v \in Version, NEW sections, AreSections(sections, Len(h) + 1)
  PROVE  Last(ReleaseCommit(h, type, v, sections)).pkg = v
<1> DEFINE c == [type |-> type, pkg |-> v, sections |-> sections]
<1>1. IsCommit(c) /\ c.sections = sections /\ c.pkg = v
  BY ReleaseCommitIs
<1>2. ReleaseCommit(h, type, v, sections) = Append(h, c)
  BY DEF ReleaseCommit
<1> HIDE DEF c
<1>3. Last(Append(h, c)) = c
  BY <1>1, CommitMore DEF AreSections
<1> QED
  BY <1>1, <1>2, <1>3

\* A history in order stays so with a release of a version that is its last one or newer, and
\* that announces nothing, or what no section lists yet.
LEMMA ReleaseInOrder ==
  ASSUME NEW all, NEW h, IsHistory(h), Grows(h), Announces(h, all), NEW type, NEW v \in Version,
         v = Last(h).pkg \/ IsNewerParts(v, Last(h).pkg), NEW lists, NEW said \in BOOLEAN,
         said => /\ \A t \in Last(h).sections : v # t.version /\ lists \cap t.lists = {}
                 /\ \A n \in lists : n \in 1..Len(h) /\ Before(n, v, h, all)
  PROVE  LET sections == Last(h).sections \cup (IF said THEN {Section(v, lists)} ELSE {})
             g == ReleaseCommit(h, type, v, sections)
         IN  Grows(g) /\ Announces(g, all)
<1> DEFINE new == IF said THEN {Section(v, lists)} ELSE {}
           sections == Last(h).sections \cup new
           c == [type |-> type, pkg |-> v, sections |-> sections]
<1>1. ASSUME NEW s \in new
      PROVE  /\ said /\ s.version = v /\ s.lists = lists /\ s = Section(v, lists)
             /\ s = Section(s.version, s.lists)
  BY DEF Section
<1>2. \A s \in new : \A t \in new : s = t
  OBVIOUS
<1> HIDE DEF new
<1>3. c.pkg = v /\ c.sections = sections
  OBVIOUS
<1>4. \A s \in sections : s = Section(s.version, s.lists) /\ s.lists \subseteq 1..Len(h) + 1
  <2> SUFFICES ASSUME NEW s \in sections
               PROVE  s = Section(s.version, s.lists) /\ s.lists \subseteq 1..Len(h) + 1
    OBVIOUS
  <2>1. Len(h) \in Nat
    BY LastCommit
  <2>2. CASE s \in Last(h).sections
    BY <2>1, <2>2, LastCommit
  <2>3. CASE s \in new
    <3>1. s.lists \subseteq 1..Len(h)
      BY <1>1, <2>3
    <3> QED
      BY <1>1, <2>1, <2>3, <3>1
  <2> QED
    BY <2>2, <2>3
<1>5. IsCommit(c) /\ ReleaseCommit(h, type, v, sections) = Append(h, c)
  <2> HIDE DEF sections
  <2>1. ReleaseCommit(h, type, v, sections) = Append(h, c)
    BY DEF ReleaseCommit
  <2> QED
    BY <1>4, <2>1, ReleaseCommitIs DEF AreSections
<1>6. /\ \A s \in c.sections : s.lists \subseteq 1..Len(h) + 1
      /\ c.pkg = Last(h).pkg \/ IsNewerParts(c.pkg, Last(h).pkg)
      /\ c.sections = Last(h).sections \cup new
  BY <1>3, <1>4
<1>7. ASSUME NEW s \in new
      PROVE  /\ s.version = c.pkg
             /\ \A t \in new : s = t
             /\ \A t \in Last(h).sections : s.version # t.version /\ s.lists \cap t.lists = {}
             /\ \A n \in s.lists : n \in 1..Len(h) /\ Before(n, c.pkg, h, all)
  BY <1>1, <1>2, <1>3
<1> HIDE DEF c, sections
<1>8. Grows(Append(h, c)) /\ Announces(Append(h, c), all)
  BY <1>5, <1>6, <1>7, OrderedMore
<1> QED
  BY <1>5, <1>8 DEF sections, new

\* What a local run lists is in no section yet, and came before its version.
LEMMA LocalListsAreNew ==
  ASSUME NEW all, AreTags(all), NEW own, AreTags(own), NEW h, IsHistory(h), Grows(h), Announces(h, all),
         NEW l, LocalRun(l, h), l.pc = "commit", LocalAgrees(l, h, own), LocalChose(l, h, own),
         \A w \in DOMAIN own : IsPrefix(own[w], h) /\ w \in DOMAIN all /\ all[w] = own[w],
         TaggedReleases(h, own), \A w \in DOMAIN own : own[w] # h,
         ~HasSection(h, l.version)
  PROVE  /\ \A t \in Last(h).sections : l.version # t.version /\ l.lists \cap t.lists = {}
         /\ \A n \in l.lists : n \in 1..Len(h) /\ Before(n, l.version, h, all)
<1> DEFINE v == l.version
           commit == IF l.hadOwn THEN own[v] ELSE h
<1>1. /\ v \in Version /\ (v = Last(h).pkg \/ IsNewerParts(v, Last(h).pkg))
      /\ l.hadOwn <=> v \in DOMAIN own
      /\ l.lists \subseteq 1..Len(h) /\ l.hadOwn \in BOOLEAN
      /\ \A n \in l.lists :
           n <= Len(commit) /\ \A w \in MergedTags(own, Front(commit)) : n > Len(own[w])
  BY DEF LocalRun, LocalAgrees, LocalChose
<1>2. \A t \in Last(h).sections : v # t.version
  BY DEF HasSection
<1>3. IsHistory(commit) /\ IsPrefix(commit, h) /\ Len(h) \in Nat /\ Len(commit) \in Nat
  <2>1. IsHistory(commit) /\ IsPrefix(commit, h)
    BY <1>1, PrefixOrder DEF AreTags
  <2> QED
    BY <2>1 DEF IsHistory
<1>4. ASSUME NEW t \in Last(h).sections, NEW n \in t.lists, n \in l.lists PROVE FALSE
  <2> DEFINE w == t.version
  <2>1. PICK p \in 1..Len(h) : h[p].pkg = w
    BY DEF Announces
  <2>2. w \in DOMAIN own
    BY <2>1 DEF TaggedReleases
  <2>3. IsPrefix(own[w], h) /\ w \in DOMAIN all /\ all[w] = own[w] /\ IsHistory(own[w]) /\ own[w] # h
        /\ Len(own[w]) \in Nat
    <3>1. IsHistory(own[w])
      BY <2>2 DEF AreTags
    <3> QED
      BY <2>2, <3>1 DEF IsHistory
  <2>4. n <= Len(own[w])
    <3> HIDE DEF w
    <3>1. t.version \in DOMAIN all /\ IsPrefix(all[t.version], h)
      BY <2>3 DEF w
    <3> QED
      BY <2>3, <3>1, TaggedLists DEF w
  <2>5. w # v /\ w \in Version /\ ~IsNewerParts(w, Last(h).pkg) /\ Last(h).pkg \in Version
    BY <1>2, <2>1, LastCommit DEF Grows
  <2>6. IsNewerParts(v, w)
    <3> HIDE DEF v, w
    <3>1. ~IsNewerParts(Last(h).pkg, v)
      BY <1>1, <2>5, NewerOrder
    <3>2. ~IsNewerParts(w, v)
      BY <1>1, <2>5, <3>1, NewerOrder
    <3> QED
      BY <1>1, <2>5, <3>2, NewerOrder
  <2> HIDE DEF w
  <2>7. IsPrefix(own[w], commit) /\ own[w] # commit
    <3>1. CASE ~l.hadOwn
      BY <2>3, <3>1
    <3>2. CASE l.hadOwn
      <4>1. v \in DOMAIN own /\ commit = own[v] /\ IsHistory(own[v]) /\ IsPrefix(own[v], h)
        BY <1>1, <1>3, <3>2
      <4> HIDE DEF v, commit
      <4>2. Len(own[w]) < Len(own[v])
        BY <2>2, <2>3, <2>6, <4>1, TagsOrder
      <4>3. Len(own[v]) \in Nat
        BY <4>1 DEF IsHistory
      <4>4. /\ \A i \in 1..Len(own[w]) : own[w][i] = h[i]
            /\ \A i \in 1..Len(own[v]) : own[v][i] = h[i]
        BY <2>3, <4>1, PrefixIs
      <4>5. IsPrefix(own[w], own[v])
        BY <2>3, <4>1, <4>2, <4>3, <4>4, PrefixIs
      <4> QED
        BY <2>3, <4>1, <4>2, <4>3, <4>5
    <3> QED
      BY <1>1, <3>1, <3>2
  <2> HIDE DEF commit
  <2>8. IsPrefix(own[w], Front(commit))
    BY <1>3, <2>3, <2>7, BeforeHead
  <2>9. n > Len(own[w])
    BY <1>1, <1>4, <2>2, <2>8 DEF MergedTags
  <2>10. n \in Nat
    BY <1>1, <1>4
  <2> QED
    BY <2>3, <2>4, <2>9, <2>10
<1>5. ASSUME NEW n \in l.lists PROVE n \in 1..Len(h) /\ Before(n, v, h, all)
  <2>1. CASE l.hadOwn
    <3>1. v \in DOMAIN all /\ n <= Len(all[v])
      BY <1>1, <1>5, <2>1
    <3> QED
      BY <1>1, <1>5, <3>1 DEF Before
  <2>2. CASE ~l.hadOwn
    <3>1. \A p \in 1..Len(h) : h[p].pkg # v
      BY <1>1, <2>2 DEF TaggedReleases
    <3> QED
      BY <1>1, <1>5, <3>1 DEF Before
  <2> QED
    BY <1>1, <2>1, <2>2
<1> QED
  BY <1>2, <1>4, <1>5

LEMMA CommitKeeps ==
  ASSUME ReleaseInv, Commit
  PROVE  ReleaseInv'
<1> USE DEF originVars
<1> DEFINE said == UserFacing(clone, local.lists) /\ ~HasSection(clone, local.version)
           new == IF said THEN {Section(local.version, local.lists)} ELSE {}
           sections == Last(clone).sections \cup new
<1>1. /\ local.pc = "commit"
      /\ ~local.staged => clone' = clone
      /\ local.staged => clone' = ReleaseCommit(clone, "bump", local.version, sections)
      /\ local' = [local EXCEPT !.pc = "tag"]
      /\ ~stale' => ~stale /\ (local.staged => TaggedReleases(clone, ownTags) /\ ~HeadTagged)
      /\ dirty' = FALSE
      /\ UNCHANGED <<main, tags, published, ownTags, ci, begun, cutShort>>
  BY DEF Commit
<1>2. stale' \in BOOLEAN
  BY DEF Commit, ReleaseInv, ReleaseTyped
<1>3. ReleaseTyped /\ LocalRun(local, clone) /\ IsHistory(clone) /\ LocalAgrees(local, clone, ownTags)
  BY <1>1 DEF ReleaseInv, ReleaseTyped, Idle
<1>4. /\ local' = [pc |-> "tag", version |-> local.version, hadOwn |-> local.hadOwn,
                   hadRemote |-> local.hadRemote, lists |-> local.lists, staged |-> local.staged]
      /\ local'.pc = "tag" /\ local'.version = local.version /\ local'.hadOwn = local.hadOwn
      /\ local'.hadRemote = local.hadRemote /\ local'.lists = local.lists
      /\ local'.staged = local.staged
  BY <1>1, <1>3 DEF LocalRun
<1>5. local.version \in Version /\ local.staged \in BOOLEAN /\ local.lists \subseteq 1..Len(clone) /\ Len(clone) \in Nat
  BY <1>3 DEF LocalRun, IsHistory
<1>6. local.staged => IsHistory(clone') /\ Len(clone') = Len(clone) + 1 /\ IsPrefix(clone, clone')
                      /\ Last(clone').pkg = local.version
  <2>1. \A s \in new : s = Section(s.version, s.lists) /\ s.lists \subseteq 1..Len(clone) + 1
    <3>1. ASSUME NEW s \in new PROVE s.version = local.version /\ s.lists = local.lists /\ s = Section(local.version, local.lists)
      BY DEF Section
    <3> QED
      BY <1>5, <3>1
  <2>2. \A s \in Last(clone).sections : s = Section(s.version, s.lists) /\ s.lists \subseteq 1..Len(clone) + 1
    BY <1>3, <1>5, LastCommit
  <2> HIDE DEF new
  <2>3. \A s \in sections : s = Section(s.version, s.lists) /\ s.lists \subseteq 1..Len(clone) + 1
    BY <2>1, <2>2
  <2> HIDE DEF sections
  <2> DEFINE v == local.version
             kind == "bump"
  <2>4. v \in Version
    BY <1>5
  <2> HIDE DEF v, kind
  <2>5. LET g == ReleaseCommit(clone, kind, v, sections)
        IN  IsHistory(g) /\ Len(g) = Len(clone) + 1 /\ IsPrefix(clone, g) /\ Last(g).pkg = v
    <3>1. IsHistory(clone)
      BY <1>3
    <3> DEFINE h == clone
    <3>2. IsHistory(h) /\ AreSections(sections, Len(h) + 1)
      BY <2>3, <3>1 DEF AreSections
    <3> HIDE DEF h
    <3>3. /\ IsHistory(ReleaseCommit(h, kind, v, sections))
          /\ Len(ReleaseCommit(h, kind, v, sections)) = Len(h) + 1
          /\ IsPrefix(h, ReleaseCommit(h, kind, v, sections))
      BY ONLY <2>4, <3>2, ReleaseCommitIs
    <3>4. Last(ReleaseCommit(h, kind, v, sections)).pkg = v
      BY ONLY <2>4, <3>2, ReleaseCommitLast
    <3> QED
      BY <3>3, <3>4 DEF h
  <2> QED
    BY <1>1, <2>5 DEF v, kind
<1> HIDE DEF sections, new, said
<1>7. IsHistory(clone') /\ IsPrefix(clone, clone') /\ local'.lists \subseteq 1..Len(clone')
  <2>1. CASE local.staged
    BY <1>4, <1>5, <1>6, <2>1
  <2>2. CASE ~local.staged
    BY <1>1, <1>3, <1>4, <1>5, <2>2, PrefixOrder
  <2> QED
    BY <1>5, <2>1, <2>2
<1>8. ReleaseTyped'
  <2>1. LocalRun(local', clone')
    BY <1>3, <1>4, <1>7 DEF LocalRun
  <2>2. LocalAgrees(local', clone', ownTags)
    <3>1. local'.hadOwn => local'.version \in DOMAIN ownTags
      BY <1>1, <1>3, <1>4 DEF LocalAgrees
    <3>2. Last(clone').pkg = local'.version
      BY <1>1, <1>3, <1>4, <1>5, <1>6 DEF LocalAgrees
    <3> QED
      BY <1>4, <3>1, <3>2 DEF LocalAgrees
  <2> QED
    BY <1>1, <1>2, <1>3, <1>7, <2>1, <2>2 DEF ReleaseTyped
<1>9. ASSUME ~cutShort' PROVE LineKept(main', tags', clone', ownTags', local')
  <2>1. LineKept(main, tags, clone, ownTags, local)
    BY <1>1, <1>9 DEF ReleaseInv
  <2>2. \A w \in DOMAIN ownTags : IsPrefix(ownTags[w], clone')
    BY <1>3, <1>7, <2>1, PrefixOrder DEF LineKept, ReleaseTyped, AreTags
  <2>3. ~Ahead(local') => IsPrefix(clone', main)
    BY <1>1, <1>4, <2>1 DEF LineKept, Ahead
  <2> QED
    BY <1>1, <1>4, <2>1, <2>2, <2>3 DEF LineKept, Tagging
<1>10. ASSUME ~cutShort', ~stale' PROVE Versioned'
  <2>1. Versioned /\ LineKept(main, tags, clone, ownTags, local) /\ AreTags(tags) /\ AreTags(ownTags)
    BY <1>1, <1>10 DEF ReleaseInv, ReleaseTyped
  <2>2. Grows(clone) /\ Announces(clone, tags) /\ LocalChose(local, clone, ownTags)
    BY <2>1 DEF Versioned
  <2>3. Grows(clone') /\ Announces(clone', tags)
    <3>1. CASE ~local.staged
      BY <1>1, <2>2, <3>1
    <3>2. CASE local.staged
      <4>1. TaggedReleases(clone, ownTags) /\ \A w \in DOMAIN ownTags : ownTags[w] # clone
        BY <1>1, <1>10, <3>2 DEF HeadTagged
      <4>2. \A w \in DOMAIN ownTags : IsPrefix(ownTags[w], clone) /\ w \in DOMAIN tags /\ tags[w] = ownTags[w]
        BY <1>1, <2>1 DEF LineKept, Tagging
      <4>3. said => /\ \A t \in Last(clone).sections : local.version # t.version /\ local.lists \cap t.lists = {}
                    /\ \A n \in local.lists : n \in 1..Len(clone) /\ Before(n, local.version, clone, tags)
        <5> SUFFICES ASSUME ~HasSection(clone, local.version)
                     PROVE  /\ \A t \in Last(clone).sections : local.version # t.version /\ local.lists \cap t.lists = {}
                            /\ \A n \in local.lists : n \in 1..Len(clone) /\ Before(n, local.version, clone, tags)
          BY DEF said
        <5> QED
          BY <1>1, <1>3, <2>1, <2>2, <4>1, <4>2, LocalListsAreNew
      <4>4. local.version = Last(clone).pkg \/ IsNewerParts(local.version, Last(clone).pkg)
        BY <1>1, <2>2 DEF LocalChose
      <4>5. said \in BOOLEAN
        BY DEF said
      <4>6. clone' = ReleaseCommit(clone, "bump", local.version,
                       Last(clone).sections \cup (IF said THEN {Section(local.version, local.lists)} ELSE {}))
        BY <1>1, <3>2 DEF sections, new
      <4> QED
        BY <1>3, <1>5, <2>2, <4>3, <4>4, <4>5, <4>6, ReleaseInOrder
    <3> QED
      BY <1>5, <3>1, <3>2
  <2> QED
    BY <1>1, <1>4, <2>1, <2>3 DEF Versioned, LocalChose
<1> QED
  BY <1>8, <1>9, <1>10 DEF ReleaseInv


LEMMA CreateTagKeeps ==
  ASSUME ReleaseInv, CreateTag
  PROVE  ReleaseInv'
<1> USE DEF originVars, remoteAndRuns
<1>1. /\ local.pc = "tag"
      /\ local' = [local EXCEPT !.pc = "push"]
      /\ UNCHANGED <<main, tags, published, clone, dirty, ci, stale, begun, cutShort>>
  BY DEF CreateTag
<1>2. ReleaseTyped /\ LocalRun(local, clone) /\ IsHistory(clone) /\ LocalAgrees(local, clone, ownTags)
  BY <1>1 DEF ReleaseInv, ReleaseTyped, Idle
<1>3. /\ local' = [pc |-> "push", version |-> local.version, hadOwn |-> local.hadOwn,
                   hadRemote |-> local.hadRemote, lists |-> local.lists, staged |-> local.staged]
      /\ local'.pc = "push" /\ local'.version = local.version /\ local'.hadOwn = local.hadOwn
      /\ local'.hadRemote = local.hadRemote /\ local'.lists = local.lists
      /\ local'.staged = local.staged
  BY <1>1, <1>2 DEF LocalRun
<1>4. /\ Last(clone).pkg = local.version /\ (local.hadOwn => local.version \in DOMAIN ownTags)
      /\ AreTags(ownTags)
  BY <1>1, <1>2 DEF LocalAgrees, ReleaseTyped
<1>5. /\ ownTags' = [v \in DOMAIN ownTags' |-> ownTags'[v]]
      /\ local.version \in DOMAIN ownTags'
      /\ \A v \in DOMAIN ownTags' : \/ v \in DOMAIN ownTags /\ ownTags'[v] = ownTags[v]
                                    \/ ~local.hadOwn /\ v = local.version /\ ownTags'[v] = clone
  <2>1. CASE local.hadOwn
    <3>1. ownTags' = ownTags
      BY <2>1 DEF CreateTag
    <3> QED
      BY <1>4, <2>1, <3>1 DEF AreTags
  <2>2. CASE ~local.hadOwn
    <3>1. ownTags' = [v \in DOMAIN ownTags \cup {local.version} |->
                        IF v = local.version THEN clone ELSE ownTags[v]]
      BY <2>2 DEF CreateTag
    <3> QED
      BY <2>2, <3>1
  <2> QED
    BY <2>1, <2>2
<1>6. AreTags(ownTags')
  <2> SUFFICES ASSUME NEW v \in DOMAIN ownTags' PROVE IsHistory(ownTags'[v]) /\ Last(ownTags'[v]).pkg = v
    BY <1>5 DEF AreTags
  <2>1. CASE v \in DOMAIN ownTags /\ ownTags'[v] = ownTags[v]
    BY <1>4, <2>1 DEF AreTags
  <2>2. CASE v = local.version /\ ownTags'[v] = clone
    BY <1>2, <1>4, <2>2
  <2> QED
    BY <1>5, <2>1, <2>2
<1>7. ReleaseTyped'
  <2>1. LocalRun(local', clone)
    BY <1>2, <1>3 DEF LocalRun
  <2>2. LocalAgrees(local', clone, ownTags')
    BY <1>3, <1>5 DEF LocalAgrees
  <2> QED
    BY <1>1, <1>2, <1>6, <2>1, <2>2 DEF ReleaseTyped
<1>8. ASSUME ~cutShort' PROVE LineKept(main', tags', clone', ownTags', local')
  <2>1. LineKept(main, tags, clone, ownTags, local)
    BY <1>1, <1>8 DEF ReleaseInv
  <2>2. ~Tagging(local) /\ (Ahead(local') <=> Ahead(local)) /\ (~local.hadOwn => Tagging(local'))
    BY <1>1, <1>3 DEF Tagging, Ahead
  <2>3. IsPrefix(clone, clone)
    BY <1>2, PrefixOrder
  <2>4. ASSUME NEW v \in DOMAIN ownTags'
        PROVE  /\ IsPrefix(ownTags'[v], clone)
               /\ \/ v \in DOMAIN tags /\ tags[v] = ownTags'[v]
                  \/ Tagging(local') /\ v = local'.version
    <3>1. CASE v \in DOMAIN ownTags /\ ownTags'[v] = ownTags[v]
      BY <2>1, <2>2, <3>1 DEF LineKept
    <3>2. CASE ~local.hadOwn /\ v = local.version /\ ownTags'[v] = clone
      BY <1>3, <2>2, <2>3, <3>2
    <3> QED
      BY <1>5, <3>1, <3>2
  <2> QED
    BY <1>1, <2>1, <2>2, <2>4 DEF LineKept
<1>9. ASSUME ~cutShort', ~stale' PROVE Versioned'
  BY <1>1, <1>3, <1>9 DEF ReleaseInv, Versioned, LocalChose
<1> QED
  BY <1>7, <1>8, <1>9 DEF ReleaseInv

LEMMA PushMainKeeps ==
  ASSUME ReleaseInv, PushMain
  PROVE  ReleaseInv'
<1> USE DEF cloneVars, remoteAndRuns
<1>1. /\ local.pc = "push"
      /\ local.staged => IsPrefix(main, clone) /\ main' = clone
      /\ ~local.staged => main' = main
      /\ local' = [local EXCEPT !.pc = "pushTag"]
      /\ UNCHANGED <<tags, published, clone, ownTags, dirty, ci, stale, begun, cutShort>>
  BY DEF PushMain
<1>2. ReleaseTyped /\ LocalRun(local, clone) /\ IsHistory(clone) /\ IsHistory(main)
      /\ LocalAgrees(local, clone, ownTags)
  BY <1>1 DEF ReleaseInv, ReleaseTyped, Idle
<1>3. /\ local' = [pc |-> "pushTag", version |-> local.version, hadOwn |-> local.hadOwn,
                   hadRemote |-> local.hadRemote, lists |-> local.lists, staged |-> local.staged]
      /\ local'.pc = "pushTag" /\ local'.version = local.version /\ local'.hadOwn = local.hadOwn
      /\ local'.hadRemote = local.hadRemote /\ local'.lists = local.lists
      /\ local'.staged = local.staged
  BY <1>1, <1>2 DEF LocalRun
<1>4. local.staged \in BOOLEAN
  BY <1>2 DEF LocalRun
<1>5. IsHistory(main') /\ IsPrefix(main, main')
  BY <1>1, <1>2, <1>4, PrefixOrder
<1>6. ReleaseTyped'
  <2>1. LocalRun(local', clone)
    BY <1>2, <1>3 DEF LocalRun
  <2>2. LocalAgrees(local', clone, ownTags)
    BY <1>1, <1>2, <1>3 DEF LocalAgrees
  <2>3. ci = Idle \/ CiRun(ci, main')
    BY <1>2, <1>5, CiRunOn DEF ReleaseTyped
  <2> QED
    BY <1>1, <1>2, <1>5, <2>1, <2>2, <2>3 DEF ReleaseTyped
<1>7. ASSUME ~cutShort' PROVE LineKept(main', tags', clone', ownTags', local')
  <2>1. LineKept(main, tags, clone, ownTags, local)
    BY <1>1, <1>7 DEF ReleaseInv
  <2>2. LineKept(main', tags, clone, ownTags, local)
    BY <1>2, <1>5, <2>1, LineOn DEF ReleaseTyped
  <2>3. IsPrefix(clone, main')
    BY <1>1, <1>2, <1>4, <2>1, PrefixOrder DEF LineKept, Ahead
  <2>4. Tagging(local') <=> Tagging(local)
    BY <1>1, <1>3 DEF Tagging
  <2> QED
    BY <1>1, <1>3, <2>2, <2>3, <2>4 DEF LineKept
<1>8. ASSUME ~cutShort', ~stale' PROVE Versioned'
  <2>1. Versioned
    BY <1>1, <1>8 DEF ReleaseInv
  <2>2. Grows(main') /\ Announces(main', tags)
    BY <1>1, <1>4, <2>1 DEF Versioned
  <2>3. CiChose(ci, main', tags)
    <3>1. CASE main' = main
      BY <2>1, <3>1 DEF Versioned
    <3>2. CASE main' # main
      <4> SUFFICES ASSUME ci.pc \in {"look", "commit"}, ci.checkout = main' PROVE FALSE
        BY DEF CiChose
      <4>1. ci # Idle
        BY DEF Idle
      <4>2. IsPrefix(main', main)
        BY <1>2, <4>1 DEF ReleaseTyped, CiRun, Checked
      <4> QED
        BY <1>2, <1>5, <3>2, <4>2, PrefixOrder
    <3> QED
      BY <3>1, <3>2
  <2> QED
    BY <1>1, <1>3, <2>1, <2>2, <2>3 DEF Versioned, LocalChose
<1> QED
  BY <1>6, <1>7, <1>8 DEF ReleaseInv

LEMMA PushTagKeeps ==
  ASSUME ReleaseInv, PushTag
  PROVE  ReleaseInv'
<1> USE DEF cloneVars, remoteAndRuns
<1>1. /\ local.pc = "pushTag"
      /\ ~local.hadRemote /\ local.version \in DOMAIN tags => tags[local.version] = ownTags[local.version]
      /\ local' = [local EXCEPT !.pc = "publish"]
      /\ UNCHANGED <<main, published, clone, ownTags, dirty, ci, stale, begun, cutShort>>
  BY DEF PushTag
<1>2. ReleaseTyped /\ LocalRun(local, clone) /\ IsHistory(clone) /\ IsHistory(main)
      /\ LocalAgrees(local, clone, ownTags) /\ AreTags(ownTags) /\ AreTags(tags)
  BY <1>1 DEF ReleaseInv, ReleaseTyped, Idle
<1>3. /\ local' = [pc |-> "publish", version |-> local.version, hadOwn |-> local.hadOwn,
                   hadRemote |-> local.hadRemote, lists |-> local.lists, staged |-> local.staged]
      /\ local'.pc = "publish" /\ local'.version = local.version /\ local'.hadOwn = local.hadOwn
      /\ local'.hadRemote = local.hadRemote /\ local'.lists = local.lists
      /\ local'.staged = local.staged
  BY <1>1, <1>2 DEF LocalRun
<1>4. local.hadRemote \in BOOLEAN /\ local.hadOwn \in BOOLEAN /\ (local.hadRemote => local.hadOwn)
      /\ local.version \in DOMAIN ownTags
  BY <1>1, <1>2 DEF LocalRun, LocalAgrees
<1>5. /\ tags' = [v \in DOMAIN tags' |-> tags'[v]]
      /\ \A v \in DOMAIN tags : v \in DOMAIN tags' /\ tags'[v] = tags[v]
      /\ \A v \in DOMAIN tags' : \/ v \in DOMAIN tags /\ tags'[v] = tags[v]
                                 \/ v = local.version /\ tags'[v] = ownTags[v]
      /\ ~local.hadRemote => local.version \in DOMAIN tags' /\ tags'[local.version] = ownTags[local.version]
  <2>1. CASE local.hadRemote
    <3>1. tags' = tags
      BY <2>1 DEF PushTag
    <3> QED
      BY <1>2, <2>1, <3>1 DEF AreTags
  <2>2. CASE ~local.hadRemote
    <3>1. tags' = [w \in DOMAIN tags \cup {local.version} |->
                     IF w = local.version THEN ownTags[local.version] ELSE tags[w]]
      BY <2>2 DEF PushTag
    <3> QED
      BY <1>1, <2>2, <3>1
  <2> QED
    BY <1>4, <2>1, <2>2
<1>6. AreTags(tags')
  BY <1>2, <1>4, <1>5 DEF AreTags
<1>7. ReleaseTyped'
  <2>1. LocalRun(local', clone)
    BY <1>2, <1>3 DEF LocalRun
  <2>2. LocalAgrees(local', clone, ownTags)
    BY <1>3 DEF LocalAgrees
  <2> QED
    BY <1>1, <1>2, <1>6, <2>1, <2>2 DEF ReleaseTyped
<1>8. ASSUME ~cutShort' PROVE LineKept(main', tags', clone', ownTags', local')
  <2>1. LineKept(main, tags, clone, ownTags, local)
    BY <1>1, <1>8 DEF ReleaseInv
  <2>2. IsPrefix(clone, main)
    BY <1>1, <2>1 DEF LineKept, Ahead
  <2>3. ASSUME NEW v \in DOMAIN tags' PROVE IsPrefix(tags'[v], main)
    <3>1. \A w \in DOMAIN ownTags : IsPrefix(ownTags[w], main)
      BY <1>2, <2>1, <2>2, PrefixOrder DEF LineKept, AreTags
    <3> QED
      BY <1>4, <1>5, <2>1, <3>1 DEF LineKept
  <2>4. ASSUME NEW v \in DOMAIN ownTags PROVE v \in DOMAIN tags' /\ tags'[v] = ownTags[v]
    <3>1. CASE v \in DOMAIN tags /\ tags[v] = ownTags[v]
      BY <1>5, <3>1
    <3>2. CASE Tagging(local) /\ v = local.version
      <4>1. ~local.hadRemote
        BY <1>4, <3>2 DEF Tagging
      <4> QED
        BY <1>5, <3>2, <4>1
    <3> QED
      BY <2>1, <3>1, <3>2 DEF LineKept
  <2> QED
    BY <1>1, <2>1, <2>2, <2>3, <2>4 DEF LineKept
<1>9. ASSUME ~cutShort', ~stale' PROVE Versioned'
  <2>1. Versioned
    BY <1>1, <1>9 DEF ReleaseInv
  <2>2. Announces(main, tags') /\ Announces(clone, tags')
    BY <1>5, <2>1, MoreTags DEF Versioned
  <2>3. CiChose(ci, main, tags')
    BY <1>2, <1>5, <2>1, CiMoreTags DEF Versioned
  <2> QED
    BY <1>1, <1>3, <2>1, <2>2, <2>3 DEF Versioned, LocalChose
<1> QED
  BY <1>7, <1>8, <1>9 DEF ReleaseInv

\* A local run that is over, or that died before it wrote anything, leaves the line as it was.
LEMMA LocalOver ==
  ASSUME ReleaseInv, local.pc \in {"write", "publish"} \/ cutShort', local' = Idle,
         UNCHANGED <<main, tags, clone, ownTags, ci, stale>>, cutShort' \in BOOLEAN,
         cutShort => cutShort'
  PROVE  ReleaseInv'
<1>1. local'.pc = "idle"
  BY DEF Idle
<1>2. ReleaseTyped'
  BY <1>1 DEF ReleaseInv, ReleaseTyped, LocalAgrees
<1>3. ASSUME ~cutShort' PROVE LineKept(main', tags', clone', ownTags', local')
  BY <1>1, <1>3 DEF ReleaseInv, LineKept, Ahead, Tagging
<1>4. ASSUME ~cutShort', ~stale' PROVE Versioned'
  BY <1>1, <1>4 DEF ReleaseInv, Versioned, LocalChose
<1> QED
  BY <1>2, <1>3, <1>4 DEF ReleaseInv

LEMMA LocalEndKeeps ==
  ASSUME ReleaseInv, CreateRelease \/ LocalDies
  PROVE  ReleaseInv'
<1> USE DEF cloneVars, originVars, remoteAndRuns
<1>1. cutShort \in BOOLEAN
  BY DEF ReleaseInv, ReleaseTyped
<1>2. CASE CreateRelease
  <2>1. /\ local.pc = "publish" /\ local' = Idle
        /\ UNCHANGED <<main, tags, clone, ownTags, ci, stale, cutShort>>
    BY <1>2 DEF CreateRelease
  <2> QED
    BY <1>1, <2>1, LocalOver
<1>3. CASE LocalDies
  <2>1. /\ local' = Idle /\ cutShort' = (cutShort \/ local.pc # "write")
        /\ UNCHANGED <<main, tags, clone, ownTags, ci, stale>>
    BY <1>3 DEF LocalDies
  <2> QED
    BY <1>1, <2>1, LocalOver
<1> QED
  BY <1>2, <1>3


\* Among versions of a history there is a highest one.
LEMMA HighestExists ==
  ASSUME NEW h, IsHistory(h), NEW S, S \subseteq {h[p].pkg : p \in 1..Len(h)}, S # {}
  PROVE  \E u \in S : \A w \in S : ~IsNewerParts(w, u)
<1> DEFINE Up(n) == {h[p].pkg : p \in 1..n}
           HasTop(T) == \E u \in T : \A w \in T : ~IsNewerParts(w, u)
           P == {n \in Nat : n <= Len(h) => \A T \in SUBSET Up(n) : T # {} => HasTop(T)}
<1>0. Len(h) \in Nat /\ \A p \in 1..Len(h) : h[p].pkg \in Version
  BY LastCommit
<1>1. 0 \in P
  BY SMT
<1>2. ASSUME NEW n \in Nat, n \in P PROVE n + 1 \in P
  <2> SUFFICES ASSUME n + 1 <= Len(h), NEW T \in SUBSET Up(n + 1), T # {} PROVE HasTop(T)
    <3> HIDE DEF Up, HasTop
    <3> QED
      OBVIOUS
  <2> DEFINE v == h[n + 1].pkg
             R == T \ {v}
  <2>1. n + 1 \in 1..Len(h) /\ v \in Version /\ n <= Len(h)
    BY <1>0
  <2>2. \A w \in T : w \in Version
    BY <1>0
  <2>3. R \in SUBSET Up(n)
    OBVIOUS
  <2>4. R # {} => HasTop(R)
    BY <1>2, <2>1, <2>3
  <2> HIDE DEF Up, P, v
  <2>5. CASE R = {}
    <3>1. \A w \in T : w = v
      BY <2>5
    <3> QED
      BY <2>2, <3>1, NewerOrder
  <2>6. CASE R # {}
    <3>1. PICK u \in R : \A w \in R : ~IsNewerParts(w, u)
      BY <2>4, <2>6
    <3>2. u \in Version /\ u \in T
      BY <2>2, <3>1
    <3>3. CASE v \in T /\ IsNewerParts(v, u)
      <4>1. ASSUME NEW w \in T PROVE ~IsNewerParts(w, v)
        <5>1. CASE w = v
          BY <2>1, <5>1, NewerOrder
        <5>2. CASE w # v
          <6>1. ~IsNewerParts(w, u) /\ ~IsNewerParts(u, v)
            BY <2>1, <3>1, <3>2, <3>3, <5>2, NewerOrder
          <6> QED
            BY <2>1, <2>2, <3>2, <6>1, NewerOrder
        <5> QED
          BY <5>1, <5>2
      <4> QED
        BY <3>3, <4>1
    <3>4. CASE ~(v \in T /\ IsNewerParts(v, u))
      <4>1. \A w \in T : ~IsNewerParts(w, u)
        BY <3>1, <3>4
      <4> QED
        BY <3>2, <4>1
    <3> QED
      BY <3>3, <3>4
  <2> QED
    BY <2>5, <2>6
<1> HIDE DEF P
<1>3. Len(h) \in P
  BY <1>0, <1>1, <1>2, NatSetInduction
<1> HIDE DEF Up, HasTop
<1>4. S \in SUBSET Up(Len(h))
  BY DEF Up
<1>5. HasTop(S)
  BY <1>0, <1>3, <1>4 DEF P
<1> QED
  BY <1>5 DEF HasTop

\* The tags that a history contains are of its versions.
LEMMA MergedVersions ==
  ASSUME NEW all, AreTags(all), NEW h, IsHistory(h)
  PROVE  /\ MergedTags(all, h) \subseteq {h[p].pkg : p \in 1..Len(h)}
         /\ MergedTags(all, h) \in SUBSET Version
BY TagIsAt DEF MergedTags

LEMMA BaseIs ==
  ASSUME NEW all, AreTags(all), NEW h, IsHistory(h)
  PROVE  LatestSemverTag(MergedTags(all, h)) \in Version
<1>1. CASE MergedTags(all, h) = {}
  BY <1>1 DEF LatestSemverTag, Version
<1>2. CASE MergedTags(all, h) # {}
  <2>1. PICK u \in MergedTags(all, h) : \A w \in MergedTags(all, h) : ~IsNewerParts(w, u)
    BY <1>2, HighestExists, MergedVersions
  <2>2. LatestSemverTag(MergedTags(all, h)) = u /\ u \in Version
    BY <2>1, LatestTagIs, MergedVersions
  <2> QED
    BY <2>2
<1> QED
  BY <1>1, <1>2

\* Where all versions are tagged, the last one is the highest of the tags.
LEMMA BaseIsLast ==
  ASSUME NEW all, AreTags(all), NEW h, IsHistory(h), Grows(h), TaggedReleases(h, all),
         \A v \in DOMAIN all : IsPrefix(all[v], h)
  PROVE  LatestSemverTag(MergedTags(all, h)) = Last(h).pkg
<1> DEFINE u == Last(h).pkg
<1>1. Len(h) \in 1..Len(h) /\ u = h[Len(h)].pkg /\ u \in Version /\ Len(h) \in Nat
  BY LastCommit
<1>2. u \in MergedTags(all, h)
  BY <1>1 DEF TaggedReleases, MergedTags
<1>3. \A w \in MergedTags(all, h) : ~IsNewerParts(w, u)
  <2> SUFFICES ASSUME NEW w \in MergedTags(all, h) PROVE ~IsNewerParts(w, u)
    OBVIOUS
  <2>1. Len(all[w]) \in 1..Len(h) /\ h[Len(all[w])].pkg = w
    BY TagIsAt DEF MergedTags
  <2>2. Len(all[w]) <= Len(h)
    BY <1>1, <2>1
  <2> QED
    BY <1>1, <2>1, <2>2 DEF Grows
<1> HIDE DEF u
<1> QED
  BY <1>2, <1>3, LatestTagIs, MergedVersions DEF u

LEMMA StartCiKeeps ==
  ASSUME ReleaseInv, NEW n \in 1..Len(main), StartCi(SubSeq(main, 1, n))
  PROVE  ReleaseInv'
<1> USE DEF cloneVars, rest
<1> DEFINE h == SubSeq(main, 1, n)
           base == LatestSemverTag(MergedTags(tags, h))
           tagged == IF base \in DOMAIN tags THEN tags[base] ELSE <<>>
           lists == ReadCommitsSince(h, tagged)
           v == ComputeNextVersion({h[p] : p \in lists}, base)
           fresh == TaggedReleases(h, tags)
<1>1. /\ v # <<>>
      /\ ci' = [pc |-> "look", checkout |-> h, version |-> v, lists |-> lists, fresh |-> fresh]
      /\ UNCHANGED <<main, tags, stale, published, clone, ownTags, dirty, local, cutShort>>
  BY DEF StartCi
<1>2. ReleaseTyped /\ IsHistory(main) /\ AreTags(tags)
  BY DEF ReleaseInv, ReleaseTyped
<1>3. IsHistory(h) /\ IsPrefix(h, main)
  BY <1>2, FirstCommits
<1> HIDE DEF h
<1>4. base \in Version
  BY <1>2, <1>3, BaseIs
<1> HIDE DEF base
<1>5. v \in Version /\ IsNewerParts(v, base)
  BY <1>1, <1>4, NextVersionIs
<1>6. Len(tagged) \in Nat /\ Len(h) \in Nat
  <2>1. base \in DOMAIN tags => Len(tags[base]) \in Nat
    BY <1>2 DEF AreTags, IsHistory
  <2>2. Len(<<>>) = 0
    OBVIOUS
  <2> QED
    BY <1>3, <2>1, <2>2 DEF IsHistory
<1>7. lists \subseteq 1..Len(h) /\ \A m \in lists : m > Len(tagged)
  <2> HIDE DEF tagged
  <2>1. lists \subseteq (Len(tagged) + 1)..Len(h)
    BY DEF ReadCommitsSince
  <2> HIDE DEF lists
  <2> QED
    BY <1>6, <2>1
<1>8. fresh \in BOOLEAN
  BY DEF TaggedReleases
<1> HIDE DEF lists, v
<1>9. /\ ci'.pc = "look" /\ ci'.checkout = h /\ ci'.version = v /\ ci'.lists = lists
      /\ ci'.fresh = fresh
  BY <1>1
<1>10. ReleaseTyped'
  <2>1. CiRun(ci', main)
    BY <1>1, <1>3, <1>5, <1>7, <1>8, <1>9 DEF CiRun, Checked
  <2> QED
    BY <1>1, <1>2, <2>1 DEF ReleaseTyped
<1>11. ASSUME ~cutShort' PROVE LineKept(main', tags', clone', ownTags', local')
  BY <1>1, <1>11 DEF ReleaseInv
<1>12. ASSUME ~cutShort', ~stale' PROVE Versioned'
  <2>1. Versioned /\ LineKept(main, tags, clone, ownTags, local)
    BY <1>1, <1>12 DEF ReleaseInv
  <2>2. CiChose(ci', main, tags)
    <3> SUFFICES ASSUME fresh, h = main
                 PROVE  /\ TaggedReleases(main, tags)
                        /\ IsNewerParts(v, Last(main).pkg)
                        /\ \A m \in lists : m > Len(tags[Last(main).pkg])
      BY <1>9 DEF CiChose
    <3>1. TaggedReleases(main, tags) /\ \A w \in DOMAIN tags : IsPrefix(tags[w], main)
      BY <2>1 DEF LineKept
    <3>2. base = Last(main).pkg
      BY <1>2, <2>1, <3>1, BaseIsLast DEF Versioned, base
    <3>3. base \in DOMAIN tags
      BY <1>2, <3>1, <3>2, LastCommit DEF TaggedReleases
    <3> QED
      BY <1>5, <1>7, <3>1, <3>2, <3>3
  <2> QED
    BY <1>1, <2>1, <2>2 DEF Versioned
<1> QED
  BY <1>10, <1>11, <1>12 DEF ReleaseInv

\* A CI run that is over.
LEMMA CiOver ==
  ASSUME ReleaseInv, ci' = Idle, UNCHANGED <<main, tags, clone, ownTags, local, stale, cutShort>>
  PROVE  ReleaseInv'
<1>1. CiChose(ci', main, tags)
  BY DEF CiChose, Idle
<1> QED
  BY <1>1 DEF ReleaseInv, ReleaseTyped, Versioned

LEMMA CiEndKeeps ==
  ASSUME ReleaseInv, TagThere \/ CiDies
  PROVE  ReleaseInv'
BY CiOver DEF TagThere, CiDies, rest, cloneVars

LEMMA ReadHeadKeeps ==
  ASSUME ReleaseInv, ReadHead
  PROVE  ReleaseInv'
<1> USE DEF rest, cloneVars
<1>1. ci.pc = "look" /\ UNCHANGED <<main, tags, clone, ownTags, local, stale, cutShort>>
  BY DEF ReadHead
<1>2. ReleaseTyped /\ IsHistory(main) /\ Checked(ci, main)
  BY <1>1 DEF ReleaseInv, ReleaseTyped, Idle, CiRun
<1>3. CASE ci' = Idle
  BY <1>1, <1>3, CiOver
<1>4. ASSUME CiRun(ci', main), Versioned => CiChose(ci', main, tags) PROVE ReleaseInv'
  BY <1>1, <1>4 DEF ReleaseInv, ReleaseTyped, Versioned
<1>5. IsPrefix(main, main)
  BY <1>2, PrefixOrder
<1>6. CASE IsReleaseCommitOf(main, ci.version) /\ ci' = [pc |-> "tag", version |-> ci.version, commit |-> main]
  <2>1. ci'.pc = "tag" /\ ci'.version = ci.version /\ ci'.commit = main
    BY <1>6
  <2>2. CiRun(ci', main)
    BY <1>2, <1>5, <1>6, <2>1 DEF CiRun, IsReleaseCommitOf
  <2>3. CiChose(ci', main, tags)
    BY <2>1 DEF CiChose
  <2> QED
    BY <1>4, <2>2, <2>3
<1>7. CASE ci' = [pc |-> "commit", checkout |-> ci.checkout, version |-> ci.version,
                  lists |-> ci.lists, head |-> main, fresh |-> ci.fresh]
  <2>1. ci'.pc = "commit" /\ ci'.checkout = ci.checkout /\ ci'.version = ci.version
        /\ ci'.lists = ci.lists /\ ci'.head = main /\ ci'.fresh = ci.fresh
    BY <1>7
  <2>2. CiRun(ci', main)
    BY <1>2, <1>5, <1>7, <2>1 DEF CiRun, Checked
  <2>3. CiChose(ci, main, tags) => CiChose(ci', main, tags)
    BY <1>1, <2>1 DEF CiChose
  <2> QED
    BY <1>4, <2>2, <2>3 DEF Versioned
<1> QED
  BY <1>3, <1>6, <1>7 DEF ReadHead

\* What a CI run lists is in no section yet, and its version is of no commit.
LEMMA CiListsAreNew ==
  ASSUME NEW all, AreTags(all), NEW m, IsHistory(m), Grows(m), Announces(m, all),
         \A w \in DOMAIN all : IsPrefix(all[w], m), TaggedReleases(m, all),
         NEW v \in Version, IsNewerParts(v, Last(m).pkg),
         NEW lists, lists \subseteq 1..Len(m), \A n \in lists : n > Len(all[Last(m).pkg])
  PROVE  /\ \A t \in Last(m).sections : v # t.version /\ lists \cap t.lists = {}
         /\ \A n \in lists : n \in 1..Len(m) /\ Before(n, v, m, all)
<1> DEFINE u == Last(m).pkg
<1>1. Len(m) \in 1..Len(m) /\ u = m[Len(m)].pkg /\ u \in Version /\ Len(m) \in Nat
      /\ \A p \in 1..Len(m) : m[p].pkg \in Version
  BY LastCommit
<1>2. u \in DOMAIN all /\ Len(all[u]) \in Nat
  BY <1>1 DEF TaggedReleases, AreTags, IsHistory
<1>3. \A p \in 1..Len(m) : m[p].pkg # v
  <2> SUFFICES ASSUME NEW p \in 1..Len(m), m[p].pkg = v PROVE FALSE
    OBVIOUS
  <2>1. p <= Len(m)
    BY <1>1
  <2> QED
    BY <1>1, <2>1 DEF Grows
<1>4. ASSUME NEW t \in Last(m).sections PROVE v # t.version
  BY <1>3 DEF Announces
<1>5. ASSUME NEW t \in Last(m).sections, NEW n \in t.lists, n \in lists PROVE FALSE
  <2> DEFINE w == t.version
  <2>1. PICK p \in 1..Len(m) : m[p].pkg = w
    BY DEF Announces
  <2>2. w \in DOMAIN all /\ IsPrefix(all[w], m)
    BY <2>1 DEF TaggedReleases
  <2>3. n <= Len(all[w])
    BY <2>2, TaggedLists
  <2>4. ~IsNewerParts(w, u) /\ w \in Version
    <3>1. p <= Len(m)
      BY <1>1
    <3> QED
      BY <1>1, <2>1, <3>1 DEF Grows
  <2> HIDE DEF w, u
  <2>5. w = u \/ IsNewerParts(u, w)
    BY <1>1, <2>4, NewerOrder
  <2>6. Len(all[w]) \in Nat /\ n \in Nat
    BY <1>5, <2>2 DEF AreTags, IsHistory
  <2>7. Len(all[w]) <= Len(all[u])
    <3>1. CASE w = u
      BY <1>2, <3>1
    <3>2. CASE IsNewerParts(u, w)
      <4>1. IsPrefix(all[u], m)
        BY <1>2
      <4>2. Len(all[w]) < Len(all[u])
        BY <1>2, <2>2, <3>2, <4>1, TagsOrder
      <4> QED
        BY <1>2, <2>6, <4>2
    <3> QED
      BY <2>5, <3>1, <3>2
  <2>8. n > Len(all[u])
    BY <1>5 DEF u
  <2> QED
    BY <1>2, <2>3, <2>6, <2>7, <2>8
<1>6. ASSUME NEW n \in lists PROVE n \in 1..Len(m) /\ Before(n, v, m, all)
  BY <1>3 DEF Before
<1> QED
  BY <1>4, <1>5, <1>6

LEMMA CreateReleaseCommitKeeps ==
  ASSUME ReleaseInv, CreateReleaseCommit
  PROVE  ReleaseInv'
<1> USE DEF rest, cloneVars
<1>1. ci.pc = "commit" /\ UNCHANGED <<tags, clone, ownTags, local, cutShort>>
  BY DEF CreateReleaseCommit
<1>2. CASE main # ci.head
  <2>1. ci' = Idle /\ UNCHANGED <<main, stale>>
    BY <1>2 DEF CreateReleaseCommit
  <2> QED
    BY <1>1, <2>1, CiOver
<1>3. CASE main = ci.head
  <2> DEFINE sections == Last(ci.checkout).sections \cup {Section(ci.version, ci.lists)}
  <2>1. /\ main' = ReleaseCommit(main, "release", ci.version, sections)
        /\ ci' = [pc |-> "tag", version |-> ci.version, commit |-> main']
        /\ stale' = (stale \/ ci.checkout # main \/ ~ci.fresh)
    BY <1>3 DEF CreateReleaseCommit
  <2>2. ReleaseTyped /\ IsHistory(main) /\ Checked(ci, main) /\ AreTags(tags)
    BY <1>1 DEF ReleaseInv, ReleaseTyped, Idle, CiRun
  <2>3. IsHistory(ci.checkout) /\ Len(ci.checkout) <= Len(main) /\ Len(ci.checkout) \in Nat
        /\ Len(main) \in Nat /\ ci.version \in Version /\ ci.lists \subseteq 1..Len(ci.checkout)
        /\ ci.fresh \in BOOLEAN
    BY <2>2 DEF Checked, IsHistory, IsPrefix
  <2>4. AreSections(sections, Len(main) + 1)
    <3>1. \A s \in Last(ci.checkout).sections :
            s = Section(s.version, s.lists) /\ s.lists \subseteq 1..Len(ci.checkout)
      BY <2>3, LastCommit
    <3>2. ASSUME NEW s \in {Section(ci.version, ci.lists)}
          PROVE  s = Section(s.version, s.lists) /\ s.lists \subseteq 1..Len(ci.checkout)
      BY <2>3 DEF Section
    <3>3. \A i \in 1..Len(ci.checkout) : i \in 1..Len(main) + 1
      BY <2>3
    <3>4. \A s \in sections : s = Section(s.version, s.lists) /\ s.lists \subseteq 1..Len(ci.checkout)
      BY <3>1, <3>2
    <3> HIDE DEF sections
    <3> QED
      BY <3>3, <3>4 DEF AreSections
  <2> HIDE DEF sections
  <2>5. /\ IsHistory(main') /\ Len(main') = Len(main) + 1 /\ IsPrefix(main, main')
        /\ Last(main').pkg = ci.version
    <3> DEFINE kind == "release"
               v == ci.version
               h == main
    <3>1. IsHistory(h) /\ v \in Version /\ AreSections(sections, Len(h) + 1)
      BY <2>2, <2>3, <2>4
    <3> HIDE DEF kind, v, h
    <3>2. /\ IsHistory(ReleaseCommit(h, kind, v, sections))
          /\ Len(ReleaseCommit(h, kind, v, sections)) = Len(h) + 1
          /\ IsPrefix(h, ReleaseCommit(h, kind, v, sections))
      BY ONLY <3>1, ReleaseCommitIs
    <3>3. Last(ReleaseCommit(h, kind, v, sections)).pkg = v
      BY ONLY <3>1, ReleaseCommitLast
    <3> QED
      BY <2>1, <3>2, <3>3 DEF kind, v, h
  <2>6. ci'.pc = "tag" /\ ci'.version = ci.version /\ ci'.commit = main'
    BY <2>1
  <2>7. ReleaseTyped'
    <3>1. CiRun(ci', main')
      <4>1. IsPrefix(main', main')
        BY <2>5, PrefixOrder
      <4> QED
        BY <2>1, <2>5, <2>6, <4>1 DEF CiRun
    <3>2. stale' \in BOOLEAN
      BY <2>1, <2>2, <2>3 DEF ReleaseTyped
    <3> QED
      BY <1>1, <2>2, <2>5, <3>1, <3>2 DEF ReleaseTyped
  <2>8. ASSUME ~cutShort' PROVE LineKept(main', tags', clone', ownTags', local')
    BY <1>1, <2>2, <2>5, <2>8, LineOn DEF ReleaseInv, ReleaseTyped
  <2>9. ASSUME ~cutShort', ~stale' PROVE Versioned'
    <3>1. ~stale /\ ci.checkout = main /\ ci.fresh
      BY <2>1, <2>9
    <3>2. Versioned /\ LineKept(main, tags, clone, ownTags, local)
      BY <1>1, <2>9, <3>1 DEF ReleaseInv
    <3>3. /\ TaggedReleases(main, tags) /\ IsNewerParts(ci.version, Last(main).pkg)
          /\ \A n \in ci.lists : n > Len(tags[Last(main).pkg])
      BY <1>1, <3>1, <3>2 DEF Versioned, CiChose
    <3>4. Grows(main) /\ Announces(main, tags) /\ \A w \in DOMAIN tags : IsPrefix(tags[w], main)
      BY <3>2 DEF Versioned, LineKept
    <3>5. ci.lists \subseteq 1..Len(main)
      BY <2>3, <3>1
    <3>6. /\ \A t \in Last(main).sections : ci.version # t.version /\ ci.lists \cap t.lists = {}
          /\ \A n \in ci.lists : n \in 1..Len(main) /\ Before(n, ci.version, main, tags)
      BY <2>2, <2>3, <3>3, <3>4, <3>5, CiListsAreNew
    <3> DEFINE said == TRUE
    <3>7. main' = ReleaseCommit(main, "release", ci.version,
                    Last(main).sections \cup (IF said THEN {Section(ci.version, ci.lists)} ELSE {}))
      BY <2>1, <3>1 DEF sections
    <3>8. said \in BOOLEAN
      OBVIOUS
    <3> HIDE DEF said
    <3>9. Grows(main') /\ Announces(main', tags)
      BY <2>2, <2>3, <3>3, <3>4, <3>6, <3>7, <3>8, ReleaseInOrder
    <3>10. CiChose(ci', main', tags)
      BY <2>6 DEF CiChose
    <3> QED
      BY <1>1, <3>2, <3>9, <3>10 DEF Versioned
  <2> QED
    BY <2>7, <2>8, <2>9 DEF ReleaseInv
<1> QED
  BY <1>2, <1>3

LEMMA CreateTagRefKeeps ==
  ASSUME ReleaseInv, CreateTagRef
  PROVE  ReleaseInv'
<1> USE DEF rest, cloneVars
<1>1. ci.pc = "tag" /\ ci' = Idle /\ UNCHANGED <<main, clone, ownTags, local, stale, cutShort>>
  BY DEF CreateTagRef
<1>2. ReleaseTyped /\ AreTags(tags) /\ IsHistory(main) /\ IsHistory(ci.commit)
      /\ IsPrefix(ci.commit, main) /\ Last(ci.commit).pkg = ci.version
  BY <1>1 DEF ReleaseInv, ReleaseTyped, Idle, CiRun
<1>3. /\ tags' = [v \in DOMAIN tags' |-> tags'[v]]
      /\ \A v \in DOMAIN tags : v \in DOMAIN tags' /\ tags'[v] = tags[v]
      /\ \A v \in DOMAIN tags' : \/ v \in DOMAIN tags /\ tags'[v] = tags[v]
                                 \/ v = ci.version /\ tags'[v] = ci.commit
  <2>1. CASE ci.version \in DOMAIN tags
    <3>1. tags' = tags
      BY <2>1 DEF CreateTagRef
    <3> QED
      BY <1>2, <3>1 DEF AreTags
  <2>2. CASE ci.version \notin DOMAIN tags
    <3>1. tags' = [v \in DOMAIN tags \cup {ci.version} |-> IF v = ci.version THEN ci.commit ELSE tags[v]]
      BY <2>2 DEF CreateTagRef
    <3> QED
      BY <2>2, <3>1
  <2> QED
    BY <2>1, <2>2
<1>4. AreTags(tags')
  BY <1>2, <1>3 DEF AreTags
<1>5. ReleaseTyped'
  BY <1>1, <1>2, <1>4 DEF ReleaseTyped
<1>6. ASSUME ~cutShort' PROVE LineKept(main', tags', clone', ownTags', local')
  <2>1. LineKept(main, tags, clone, ownTags, local)
    BY <1>1, <1>6 DEF ReleaseInv
  <2>2. \A v \in DOMAIN tags' : IsPrefix(tags'[v], main)
    BY <1>2, <1>3, <2>1 DEF LineKept
  <2> QED
    BY <1>1, <1>3, <2>1, <2>2 DEF LineKept
<1>7. ASSUME ~cutShort', ~stale' PROVE Versioned'
  <2>1. Versioned
    BY <1>1, <1>7 DEF ReleaseInv
  <2>2. Announces(main, tags') /\ Announces(clone, tags')
    BY <1>3, <2>1, MoreTags DEF Versioned
  <2>3. CiChose(ci', main, tags')
    BY <1>1 DEF CiChose, Idle
  <2> QED
    BY <1>1, <2>1, <2>2, <2>3 DEF Versioned
<1> QED
  BY <1>5, <1>6, <1>7 DEF ReleaseInv


LEMMA ReleaseStart == ReleaseInit => ReleaseInv
<1> SUFFICES ASSUME ReleaseInit PROVE ReleaseInv
  OBVIOUS
<1> DEFINE first == [type |-> "release", pkg |-> FirstVersion, sections |-> {Section(FirstVersion, {})}]
<1>1. /\ main = <<first>> /\ tags = [v \in {FirstVersion} |-> main]
      /\ clone = main /\ ownTags = tags /\ local = Idle /\ ci = Idle
      /\ cutShort = FALSE /\ stale = FALSE
  BY DEF ReleaseInit
<1>2. local.pc = "idle" /\ ci.pc = "idle"
  BY <1>1 DEF Idle
<1>3. FirstVersion \in Version
  BY DEF FirstVersion, Version
<1>4. /\ first.pkg = FirstVersion /\ first = [type |-> first.type, pkg |-> first.pkg, sections |-> first.sections]
      /\ first.sections = {Section(FirstVersion, {})}
  OBVIOUS
<1>5. \A s \in first.sections : s.version = FirstVersion /\ s.lists = {} /\ s = Section(s.version, s.lists)
  BY <1>4 DEF Section
<1> HIDE DEF first
<1>6. IsCommit(first)
  BY <1>3, <1>4, <1>5 DEF IsCommit
<1>7. Len(main) = 1 /\ main[1] = first /\ main = [p \in 1..1 |-> main[p]]
  BY <1>1
<1>8. IsHistory(main)
  BY <1>5, <1>6, <1>7 DEF IsHistory
<1>9. Last(main) = first
  BY <1>7 DEF Last
<1>10. AreTags(tags)
  BY <1>1, <1>4, <1>8, <1>9 DEF AreTags
<1>11. ReleaseTyped
  BY <1>1, <1>2, <1>8, <1>10 DEF ReleaseTyped, LocalAgrees
<1>12. LineKept(main, tags, clone, ownTags, local)
  <2>1. IsPrefix(main, main)
    BY <1>8, PrefixOrder
  <2> QED
    BY <1>1, <2>1 DEF LineKept
<1>13. Grows(main)
  <2>1. ~IsNewerParts(FirstVersion, FirstVersion)
    BY <1>3, NewerOrder
  <2>2. \A p \in 1..Len(main) : main[p].pkg = FirstVersion
    BY <1>4, <1>7
  <2> QED
    BY <2>1, <2>2 DEF Grows
<1>14. Announces(main, tags)
  <2>1. ASSUME NEW s \in Last(main).sections
        PROVE  /\ \E p \in 1..Len(main) : main[p].pkg = s.version
               /\ \A n \in s.lists : Before(n, s.version, main, tags)
    <3>1. 1 \in 1..Len(main) /\ main[1].pkg = s.version /\ s.lists = {}
      BY <1>4, <1>5, <1>7, <1>9
    <3> QED
      BY <3>1
  <2>2. \A s, t \in Last(main).sections : s = t
    BY <1>4, <1>9
  <2> QED
    BY <2>1, <2>2 DEF Announces
<1>15. LocalChose(local, clone, ownTags) /\ CiChose(ci, main, tags)
  BY <1>2 DEF LocalChose, CiChose
<1> QED
  BY <1>1, <1>11, <1>12, <1>13, <1>14, <1>15 DEF ReleaseInv, Versioned

LEMMA ReleaseSteps == ReleaseInv /\ [ReleaseNext]_releaseVars => ReleaseInv'
<1> SUFFICES ASSUME ReleaseInv, [ReleaseNext]_releaseVars PROVE ReleaseInv'
  OBVIOUS
<1>1. CASE PushWork \/ Pull \/ Discard
  BY <1>1, PushWorkKeeps, PullKeeps, DiscardKeeps
<1>2. CASE \E bump \in 0..3 : StartLocal(bump)
  BY <1>2, StartLocalKeeps
<1>3. CASE WriteFiles \/ Commit \/ CreateTag \/ PushMain \/ PushTag \/ CreateRelease \/ LocalDies
  BY <1>3, WriteFilesKeeps, CommitKeeps, CreateTagKeeps, PushMainKeeps, PushTagKeeps, LocalEndKeeps
<1>4. CASE \E n \in 1..Len(main) : StartCi(SubSeq(main, 1, n))
  BY <1>4, StartCiKeeps
<1>5. CASE TagThere \/ ReadHead \/ CreateReleaseCommit \/ CreateTagRef \/ CiDies
  BY <1>5, CiEndKeeps, ReadHeadKeeps, CreateReleaseCommitKeeps, CreateTagRefKeeps
<1>6. CASE UNCHANGED releaseVars
  BY <1>6 DEF releaseVars, originVars, cloneVars, ReleaseInv, ReleaseTyped, Versioned
<1> QED
  BY <1>1, <1>2, <1>3, <1>4, <1>5, <1>6 DEF ReleaseNext

LEMMA ReleasesKept == ReleaseInv => ReleasesSound
<1> SUFFICES ASSUME ReleaseInv PROVE ReleasesSound
  OBVIOUS
<1>1. IsHistory(main) /\ AreTags(tags)
  BY DEF ReleaseInv, ReleaseTyped
<1>2. \A v \in DOMAIN tags : Last(tags[v]).pkg = v
  BY <1>1 DEF AreTags
<1>3. ~cutShort => \A v \in DOMAIN tags : VerifyReleaseTag(v)
  BY DEF ReleaseInv, LineKept, VerifyReleaseTag
<1>4. ASSUME ~cutShort, ~stale
      PROVE  /\ \A p \in 2..Len(main) : ~IsNewerParts(main[p - 1].pkg, main[p].pkg)
             /\ \A p \in 1..Len(main) : Cardinality(Releases(main, main[p].pkg)) <= 1
             /\ \A s, t \in Last(main).sections : s # t => s.lists \cap t.lists = {}
  <2>1. Grows(main) /\ Announces(main, tags)
    BY <1>4 DEF ReleaseInv, Versioned
  <2>2. ASSUME NEW p \in 2..Len(main) PROVE ~IsNewerParts(main[p - 1].pkg, main[p].pkg)
    <3>1. p - 1 \in 1..Len(main) /\ p \in 1..Len(main) /\ p - 1 <= p
      BY <1>1 DEF IsHistory
    <3> QED
      BY <2>1, <3>1 DEF Grows
  <2>3. \A p \in 1..Len(main) : Cardinality(Releases(main, main[p].pkg)) <= 1
    BY <1>1, <2>1, OneRelease
  <2> QED
    BY <2>1, <2>2, <2>3 DEF Announces
<1>5. \A s \in Last(main).sections :
        LET groups == GroupChangelog(main, s.lists) IN
        \A p \in s.lists : \E i \in 1..Len(groups) : p \in groups[i] /\ \A j \in 1..Len(groups) : p \in groups[j] => i = j
  BY Grouped
<1> QED
  BY <1>2, <1>3, <1>4, <1>5 DEF ReleasesSound

-----------------------------------------------------------------------------
(* The parts of MCParts. *)

\* A step of the whole is one of the part that runs.
LEMMA StreamParts ==
  ASSUME [Next]_vars
  PROVE  /\ part' = part
         /\ part = "merge" => [MergeNext]_mergeVars
         /\ part = "debounce" => [DebounceNext]_debounceVars
         /\ part \notin {"merge", "debounce"} => UNCHANGED queueVars
<1>1. CASE UNCHANGED vars
  BY <1>1 DEF vars, ownMerge, ownDebounce, mergeVars, debounceVars
<1>2. CASE Next
  <2>1. part' = part
    BY <1>2 DEF Next, Only
  <2>2. part = "merge" => MergeNext
    BY <1>2, Zenon DEF Next, Only
  <2>3. part = "debounce" => DebounceNext
    BY <1>2, Zenon DEF Next, Only
  <2>4. part \notin {"merge", "debounce"} => UNCHANGED queueVars
    BY <1>2 DEF Next, Only
  <2> QED
    BY <2>1, <2>2, <2>3, <2>4
<1> QED
  BY <1>1, <1>2

\* For any number of sources and values, whoever stops first: merge asks each source one
\* value ahead, keeps its order, and leaves none open; debounce replaces a value by a later
\* one only, delivers the last, and leaves no timer behind (createAsyncQueue, pull, stop,
\* onNext, onFail, cancel).
THEOREM StreamsAreFaithful == Spec => []StreamsFaithful
<1> DEFINE StreamsInv ==
             /\ QueueTypeOK
             /\ part = "merge" => MergeInv
             /\ part = "debounce" => PumpInv
<1>1. Init => StreamsInv
  <2>1. MergeInv => QueueTypeOK
    BY DEF MergeInv, MergeTyped, QueueOf
  <2> QED
    BY <2>1, MergeStart, PumpStart DEF Init
<1>2. StreamsInv /\ [Next]_vars => StreamsInv'
  <2> SUFFICES ASSUME StreamsInv, [Next]_vars PROVE StreamsInv'
    OBVIOUS
  <2>0. MergeInv' \/ PumpInv' => QueueTypeOK'
    BY DEF MergeInv, MergeTyped, PumpInv, PumpTyped, QueueOf
  <2>1. CASE part = "merge"
    BY <2>0, <2>1, StreamParts, MergeSteps
  <2>2. CASE part = "debounce"
    BY <2>0, <2>2, StreamParts, PumpSteps
  <2>3. CASE part \notin {"merge", "debounce"}
    <3>1. part' = part /\ UNCHANGED queueVars
      BY <2>3, StreamParts
    <3> QED
      BY <2>3, <3>1 DEF QueueTypeOK, queueVars
  <2> QED
    BY <2>1, <2>2, <2>3
<1>3. StreamsInv => StreamsFaithful
  BY MergeFaithful, PumpFaithful DEF StreamsFaithful
<1> QED
  BY <1>1, <1>2, <1>3, PTL DEF Spec

\* For any calendar, schedules and dates: what next answers is the first minute that matches
\* says yes to, and the runner calls its handler once in every minute that matches, unless it
\* is started again in it, or the minute has the number of the one fired in before
\* (nextOccurrence, tick).
THEOREM CronIsKept == Spec => []CronKeepsSchedule
<1>1. Init => RunnerInv
  BY RunnerStart DEF Init
<1>2. RunnerInv /\ [Next]_vars => RunnerInv'
  <2> SUFFICES ASSUME RunnerInv, [Next]_vars PROVE RunnerInv'
    OBVIOUS
  <2>1. CASE UNCHANGED vars
    BY <2>1, RunnerSteps DEF vars
  <2>2. CASE Next
    <3>1. RunnerNext \/ UNCHANGED runnerVars
      BY <2>2, Zenon DEF Next, Only
    <3> QED
      BY <3>1, RunnerSteps
  <2> QED
    BY <2>1, <2>2
<1>3. NextIsFirstMatch
  <2>1. \A after \in Starts : after \in Nat
    BY CalendarAssumption
  <2> QED
    BY <2>1, FindsTheFirst DEF NextIsFirstMatch
<1>4. RunnerInv => CronKeepsSchedule
  BY <1>3, RunnerFires DEF CronKeepsSchedule
<1> QED
  BY <1>1, <1>2, <1>4, PTL DEF Spec

LEMMA AddRouteKeeps ==
  ASSUME routes \in Seq(RouteOf), [AddRoute]_routes
  PROVE  (routes \in Seq(RouteOf))'
<1>1. CASE AddRoute
  <2>1. PICK verb \in Verb, pattern \in Pattern :
          routes' = Append(routes, [method |-> verb, pattern |-> pattern])
    BY <1>1 DEF AddRoute
  <2>2. [method |-> verb, pattern |-> pattern] \in RouteOf
    BY DEF RouteOf
  <2> HIDE DEF RouteOf
  <2>3. routes' \in Seq(RouteOf)
    BY <2>1, <2>2
  <2> QED
    BY <2>3 DEF RouteOf
<1> QED
  BY <1>1 DEF RouteOf

\* For any segments, methods and number of routes: a request is answered by the latest route of
\* its shape and method that fits it, its own method's before ALL, static before parameter
\* before wildcard at the first segment where they part; 404 and 405 say what they mean
\* (insertRoute, buildTrie, matchRoute, matchLeaf, matchWildcard, resolveHandler).
THEOREM RequestsRoutedByTable == Spec => []RoutedByTable
<1> DEFINE Table == routes \in Seq(RouteOf)
<1>1. Init => Table
  BY EmptySeq DEF Init, RouterInit
<1>2. Table /\ [Next]_vars => Table'
  <2> SUFFICES ASSUME Table, [Next]_vars PROVE Table'
    OBVIOUS
  <2>1. [AddRoute]_routes
    BY Zenon DEF Next, Only, vars
  <2> QED
    BY <2>1, AddRouteKeeps
<1>3. Table => RoutedByTable
  BY Routed
<1> QED
  BY <1>1, <1>2, <1>3, PTL DEF Spec

\* For any types of work and bounds: a tag stands at a commit of its version, in main's history
\* unless a local run was cut short; and unless a run committed above what it should not, versions
\* grow along main, one commit makes each, no work is announced in two sections, and each
\* commit of a section is in one group (release.mjs, release-ci.mjs, computeNextVersion,
\* latestSemverTag, groupChangelog, verifyReleaseTag).
THEOREM ReleasesAreSound == Spec => []ReleasesSound
<1>1. Init => ReleaseInv
  BY ReleaseStart DEF Init
<1>2. ReleaseInv /\ [Next]_vars => ReleaseInv'
  <2> SUFFICES ASSUME ReleaseInv, [Next]_vars PROVE ReleaseInv'
    OBVIOUS
  <2>1. ReleaseNext \/ UNCHANGED releaseVars
    BY Zenon DEF Next, Only, vars
  <2> QED
    BY <2>1, ReleaseSteps
<1>3. ReleaseInv => ReleasesSound
  BY ReleasesKept
<1> QED
  BY <1>1, <1>2, <1>3, PTL DEF Spec
=============================================================================
