---------------------------- MODULE AsyncProofs ----------------------------
(***************************************************************************)
(* Proofs about two parts of src/src/async that share no state.            *)
(*                                                                         *)
(* Operators, for every supply of elements, every pair of stages and every *)
(* amount: what a stage has yielded is what its operator promises of what  *)
(* it has read.  The invariant ties the locals of each loop to the two;    *)
(* one turn of a loop keeps it (LoopKeeps), and the end of what it reads   *)
(* leaves the promise kept (LoopEnded).                                    *)
(*                                                                         *)
(* Semaphore, for any number of calls and permits: its invariants, that no *)
(* wake-up is lost, and that it implements Turnstile.                      *)
(***************************************************************************)
EXTENDS Semaphore, Operators, QueueLemmas

-----------------------------------------------------------------------------
(* The operators of a stream: the invariant. *)

\* What the locals of an operator's loop hold of the elements read and those yielded.
Remembers(op, xs, m, ys) ==
  LET n == Len(Oks(xs))
  IN  CASE op = "take"     -> /\ ys = xs /\ m = n
                              /\ m = Amount => IF m = 0 THEN xs = <<>> ELSE xs # <<>> /\ xs[Len(xs)].ok
        [] op = "drop"     -> m = Least(Amount, n)
        [] op = "takeWhile"-> ys = xs
        [] op = "chunk"    -> LET d == Len(Oks(ys)) * BatchSize
                              IN  m = ValuesOf(SubSeq(Oks(xs), d + 1, n))
        [] op = "window"   -> m = ValuesOf(SubSeq(Oks(xs), (n + 1) - Least(BatchSize - 1, n), n))
        [] op = "scan"     -> m = FlattenSeq(ValuesOf(Oks(xs)))
        [] op = "distinct" -> m = IF n = 0 THEN <<>> ELSE Oks(xs)[n].v
        [] op = "throttle" -> \E K \in SUBSET (1..Len(xs)) :
                                /\ Spaced(xs, K) /\ ys = Picked(xs, K)
                                /\ \/ m = 0 /\ \A j \in K : ~xs[j].ok
                                   \/ \E j \in K : /\ xs[j].ok /\ m = TimeOf(j)
                                                   /\ \A i \in K : xs[i].ok => i <= j
        [] op = "zip"      -> m = Len(ys) /\ Len(ys) = Len(xs)
        [] OTHER           -> TRUE

Behind(op, xs, m, ys) == Promised(op, xs, ys, FALSE) /\ Remembers(op, xs, m, ys)

\* The variables' types, as far as the proof needs them.
OperatorsTyped ==
  /\ supply \in Seq(Element) /\ drawn \in 0..Len(supply)
  /\ chain[2] \notin {"throttle", "zip"}
  /\ DOMAIN memory = {1, 2} /\ DOMAIN toYield = 1..2 /\ DOMAIN broken = 1..2 /\ DOMAIN emitted = 1..2
  /\ toYield[1] \in Seq(Element) /\ toYield[2] \in Seq(Element)
  /\ emitted[1] \in Seq(Element) /\ emitted[2] \in Seq(Element)
  /\ broken[1] \in BOOLEAN /\ broken[2] \in BOOLEAN
  /\ given \in Seq(Element)

\* While a stage's loop runs it is behind what it has read, and once it is over its promise
\* is kept.
StagesBehind ==
  /\ IF broken[1] THEN Promised(chain[1], Drawn, emitted[1], source = "exhausted")
                  ELSE Behind(chain[1], Drawn, memory[1], emitted[1])
  /\ ~broken[2] => /\ emitted[1] = Taken \o toYield[1]
                   /\ Behind(chain[2], Taken, memory[2], emitted[2])
  /\ broken[2] /\ source = "exhausted" => Promised(chain[2], emitted[1], emitted[2], TRUE)
  /\ chain[1] = "take" => drawn <= Len(emitted[1]) + 1

\* Where the source and the consumer stand.
EndsTogether ==
  /\ demanded => outcome = "running"
  /\ broken[2] => broken[1]
  /\ ~broken[1] => source # "exhausted"
  /\ (broken[1] \/ outcome # "running") /\ chain[1] # "zip" => source # "open"
  /\ outcome = "thrown" => toYield[2] = <<>>
  /\ outcome = "done" /\ terminal # "first" => broken[2] /\ toYield[2] = <<>>

Consumed ==
  /\ emitted[2] = given \o toYield[2]
  /\ acc = IF terminal = "groupBy" THEN Grouped(ValuesOf(Oks(given))) ELSE ValuesOf(Oks(given))

OperatorsInv == OperatorsTyped /\ StagesBehind /\ EndsTogether /\ Consumed

-----------------------------------------------------------------------------
(* Picked of a sequence that grows at its end. *)

Places(xs) == [i \in DOMAIN xs |-> i]

\* The places of a sequence, with one more.
LEMMA PlacesAppend ==
  ASSUME NEW S, NEW xs \in Seq(S), NEW r \in S
  PROVE  /\ Places(xs) \in Seq(Nat) /\ Len(Places(xs)) = Len(xs)
         /\ Places(Append(xs, r)) = Append(Places(xs), Len(xs) + 1)
<1> DEFINE n == Len(xs)
           p == Places(xs)
           q == Places(Append(xs, r))
<1>1. /\ n \in Nat /\ DOMAIN xs = 1 .. n /\ Append(xs, r) \in Seq(S)
      /\ Len(Append(xs, r)) = n + 1 /\ DOMAIN Append(xs, r) = 1 .. n + 1
  OBVIOUS
<1>2. p \in Seq(Nat) /\ Len(p) = n /\ \A i \in 1 .. n : p[i] = i
  BY <1>1 DEF Places
<1>3. q \in Seq(Nat) /\ Len(q) = n + 1 /\ \A i \in 1 .. n + 1 : q[i] = i
  BY <1>1 DEF Places
<1> HIDE DEF n, p, q
<1>4. /\ Append(p, n + 1) \in Seq(Nat) /\ Len(Append(p, n + 1)) = n + 1
      /\ \A i \in 1 .. n + 1 : Append(p, n + 1)[i] = i
  BY <1>1, <1>2
<1>5. q = Append(p, n + 1)
  BY <1>1, <1>3, <1>4, SeqEqual
<1> QED
  BY <1>2, <1>5 DEF n, p, q

\* Of nothing, nothing is picked.
LEMMA PickedEmpty == ASSUME NEW S PROVE Picked(<<>>, S) = <<>>
<1>1. [i \in DOMAIN <<>> |-> i] = <<>>
  OBVIOUS
<1>2. Remaining(<<>>, DOMAIN <<>> \ S) = <<>>
  BY RemainingEmpty
<1> QED
  BY <1>1, <1>2 DEF Picked

\* Picked by the places that remain.
KeptPlaces(xs, S) == Remaining(Places(xs), DOMAIN xs \ S)

\* Picked by its places.
LEMMA PickedPlaces ==
  ASSUME NEW E, NEW xs \in Seq(E), NEW S
  PROVE  /\ KeptPlaces(xs, S) \in Seq(Nat)
         /\ \A i \in 1 .. Len(KeptPlaces(xs, S)) : KeptPlaces(xs, S)[i] \in 1 .. Len(xs)
         /\ Picked(xs, S) = [i \in 1 .. Len(KeptPlaces(xs, S)) |-> xs[KeptPlaces(xs, S)[i]]]
<1> DEFINE p == Places(xs)
           at == Remaining(p, DOMAIN xs \ S)
<1>1. p \in Seq(Nat) /\ Range(p) \subseteq 1 .. Len(xs)
  <2>1. p \in Seq(Nat) /\ DOMAIN p = 1 .. Len(xs) /\ \A i \in 1 .. Len(xs) : p[i] = i
    BY DEF Places
  <2> QED
    BY <2>1 DEF Range
<1> HIDE DEF p
<1>2. at \in Seq(Nat) /\ Range(at) \subseteq Range(p)
  BY <1>1, RemainingQueue
<1>3. Picked(xs, S) = [i \in DOMAIN at |-> xs[at[i]]]
  BY DEF Picked, Places, p
<1> HIDE DEF at
<1>4. DOMAIN at = 1 .. Len(at)
  BY <1>2
<1>5. \A i \in 1 .. Len(at) : at[i] \in 1 .. Len(xs)
  <2> SUFFICES ASSUME NEW i \in 1 .. Len(at) PROVE at[i] \in 1 .. Len(xs)
    OBVIOUS
  <2>1. at[i] \in Range(at)
    BY <1>4 DEF Range
  <2> QED
    BY <1>1, <1>2, <2>1
<1> QED
  BY <1>2, <1>3, <1>4, <1>5 DEF at, p, KeptPlaces

\* What is picked is of the sequence.
LEMMA PickedType ==
  ASSUME NEW E, NEW xs \in Seq(E), NEW S
  PROVE  Picked(xs, S) \in Seq(E)
<1> DEFINE at == KeptPlaces(xs, S)
<1>1. /\ at \in Seq(Nat) /\ \A i \in 1 .. Len(at) : at[i] \in 1 .. Len(xs)
      /\ Picked(xs, S) = [i \in 1 .. Len(at) |-> xs[at[i]]]
  BY PickedPlaces
<1> HIDE DEF at
<1>2. \A i \in 1 .. Len(at) : xs[at[i]] \in E
  BY <1>1
<1>3. Len(at) \in Nat
  BY <1>1
<1>4. [i \in 1 .. Len(at) |-> xs[at[i]]] \in Seq(E)
  BY <1>2, <1>3
<1> QED
  BY <1>1, <1>4

\* The places up to Len(xs) are picked as they were; the new one is last.
LEMMA PickedAppend ==
  ASSUME NEW E, NEW xs \in Seq(E), NEW r \in E, NEW S, NEW T,
         \A i \in 1 .. Len(xs) : i \in T <=> i \in S
  PROVE  Picked(Append(xs, r), T) = IF Len(xs) + 1 \in T THEN Append(Picked(xs, S), r)
                                                         ELSE Picked(xs, S)
<1> DEFINE n == Len(xs)
           zs == Append(xs, r)
           A == (1 .. n + 1) \ T
           B == (1 .. n) \ S
           p == Places(xs)
           at == KeptPlaces(xs, S)
           to == KeptPlaces(zs, T)
<1>1. /\ zs \in Seq(E) /\ Len(zs) = n + 1 /\ n \in Nat /\ zs[n + 1] = r
      /\ DOMAIN zs = 1 .. n + 1 /\ DOMAIN xs = 1 .. n /\ \A i \in 1 .. n : zs[i] = xs[i]
  OBVIOUS
<1>2. p \in Seq(Nat) /\ Len(p) = n /\ Places(zs) = Append(p, n + 1) /\ \A i \in 1 .. n : p[i] = i
  BY PlacesAppend DEF Places
<1>3. /\ at \in Seq(Nat) /\ \A i \in 1 .. Len(at) : at[i] \in 1 .. n
      /\ Picked(xs, S) = [i \in 1 .. Len(at) |-> xs[at[i]]]
  BY PickedPlaces
<1>4. to \in Seq(Nat) /\ Picked(zs, T) = [i \in 1 .. Len(to) |-> zs[to[i]]]
  <2> HIDE DEF zs, to
  <2> QED
    BY <1>1, PickedPlaces DEF to
<1>0. at = Remaining(p, B) /\ to = Remaining(Append(p, n + 1), A)
  BY <1>1, <1>2, Zenon DEF KeptPlaces
<1>5. Remaining(p, A) = at
  <2>1. \A i \in 1 .. Len(p) : p[i] \in A <=> p[i] \in B
    BY <1>1, <1>2
  <2> HIDE DEF p, A, B, at
  <2> QED
    BY <1>0, <1>2, <2>1, RemainingSame
<1>6. to = IF n + 1 \in A THEN at ELSE Append(at, n + 1)
  <2>1. n + 1 \in Nat
    BY <1>1
  <2>2. p \in Seq(Nat)
    BY <1>2
  <2> HIDE DEF A, p, n, at, to
  <2>3. \A k \in Nat : Remaining(Append(p, k), A) =
                        IF k \in A THEN Remaining(p, A) ELSE Append(Remaining(p, A), k)
    BY <2>2, RemainingAppend
  <2> QED
    BY <1>0, <1>5, <2>1, <2>3, Zenon
<1>7. n + 1 \in A <=> n + 1 \notin T
  BY <1>1
<1> HIDE DEF to, at, A, B, p, zs
<1>8. CASE n + 1 \in T
  <2> DEFINE k == Len(at)
             ys == Picked(xs, S)
             us == Picked(zs, T)
  <2>1. to = Append(at, n + 1)
    BY <1>6, <1>7, <1>8
  <2>2. Len(to) = k + 1 /\ k \in Nat /\ to[k + 1] = n + 1 /\ \A i \in 1 .. k : to[i] = at[i]
    BY <1>1, <1>3, <2>1
  <2>3. ys \in Seq(E) /\ Len(ys) = k /\ \A i \in 1 .. k : ys[i] = xs[at[i]]
    <3>1. ys \in Seq(E)
      BY PickedType
    <3> QED
      BY <1>3, <2>2, <3>1
  <2>4. us \in Seq(E) /\ Len(us) = k + 1 /\ \A i \in 1 .. k + 1 : us[i] = zs[to[i]]
    <3>1. us \in Seq(E)
      BY <1>1, PickedType
    <3> QED
      BY <1>4, <2>2, <3>1
  <2> HIDE DEF ys, us, k
  <2>5. us[k + 1] = r /\ \A i \in 1 .. k : us[i] = ys[i]
    <3>1. k + 1 \in 1 .. k + 1
      BY <2>2
    <3>2. us[k + 1] = r
      BY <1>1, <2>2, <2>4, <3>1
    <3>3. ASSUME NEW i \in 1 .. k PROVE us[i] = ys[i]
      <4>1. i \in 1 .. k + 1
        BY <2>2
      <4>2. us[i] = zs[at[i]] /\ at[i] \in 1 .. n
        BY <1>3, <2>2, <2>4, <4>1 DEF k
      <4> QED
        BY <1>1, <2>3, <4>2
    <3> QED
      BY <3>2, <3>3
  <2>6. us = Append(ys, r)
    <3>1. /\ Append(ys, r) \in Seq(E) /\ Len(Append(ys, r)) = k + 1 /\ Append(ys, r)[k + 1] = r
          /\ \A i \in 1 .. k : Append(ys, r)[i] = ys[i]
      BY <2>3
    <3>2. \A i \in 1 .. k + 1 : us[i] = Append(ys, r)[i]
      BY <2>2, <2>5, <3>1
    <3> QED
      BY <2>4, <3>1, <3>2, SeqEqual
  <2> QED
    BY <1>8, <2>6 DEF us, ys, zs
<1>9. CASE n + 1 \notin T
  <2>1. to = at
    BY <1>6, <1>7, <1>9
  <2>2. [i \in 1 .. Len(at) |-> zs[at[i]]] = [i \in 1 .. Len(at) |-> xs[at[i]]]
    BY <1>1, <1>3
  <2>3. Picked(zs, T) = Picked(xs, S)
    BY <1>3, <1>4, <2>1, <2>2
  <2> QED
    BY <1>9, <2>3 DEF zs
<1> QED
  BY <1>8, <1>9

\* Nothing has no Oks and no Errs.
LEMMA OksEmpty == Oks(<<>>) = <<>> /\ Errs(<<>>) = <<>>
BY PickedEmpty DEF Oks, Errs

\* The Oks, with one more element.
LEMMA OksAppend ==
  ASSUME NEW E, NEW xs \in Seq(E), NEW r \in E
  PROVE  Oks(Append(xs, r)) = IF r.ok THEN Append(Oks(xs), r) ELSE Oks(xs)
<1> DEFINE n == Len(xs)
           zs == Append(xs, r)
           S == {i \in DOMAIN xs : xs[i].ok}
           T == {i \in DOMAIN zs : zs[i].ok}
<1>1. /\ DOMAIN zs = 1 .. n + 1 /\ DOMAIN xs = 1 .. n /\ n \in Nat /\ zs[n + 1] = r
      /\ \A i \in 1 .. n : zs[i] = xs[i]
  OBVIOUS
<1> HIDE DEF zs, n
<1>2. \A i \in 1 .. n : i \in T <=> i \in S
  <2> SUFFICES ASSUME NEW i \in 1 .. n PROVE i \in T <=> i \in S
    OBVIOUS
  <2>1. i \in 1 .. n + 1 /\ zs[i] = xs[i]
    BY <1>1
  <2> QED
    BY <1>1, <2>1
<1>3. n + 1 \in T <=> r.ok
  <2>1. n + 1 \in 1 .. n + 1
    BY <1>1
  <2> QED
    BY <1>1, <2>1
<1> HIDE DEF S, T
<1>4. Picked(zs, T) = IF n + 1 \in T THEN Append(Picked(xs, S), r) ELSE Picked(xs, S)
  BY <1>2, PickedAppend DEF zs, n
<1> QED
  BY <1>3, <1>4 DEF Oks, S, T, zs

\* The Errs, with one more element.
LEMMA ErrsAppend ==
  ASSUME NEW E, NEW xs \in Seq(E), NEW r \in E
  PROVE  Errs(Append(xs, r)) = IF r.ok THEN Errs(xs) ELSE Append(Errs(xs), r)
<1> DEFINE n == Len(xs)
           zs == Append(xs, r)
           S == {i \in DOMAIN xs : ~xs[i].ok}
           T == {i \in DOMAIN zs : ~zs[i].ok}
<1>1. /\ DOMAIN zs = 1 .. n + 1 /\ DOMAIN xs = 1 .. n /\ n \in Nat /\ zs[n + 1] = r
      /\ \A i \in 1 .. n : zs[i] = xs[i]
  OBVIOUS
<1> HIDE DEF zs, n
<1>2. \A i \in 1 .. n : i \in T <=> i \in S
  <2> SUFFICES ASSUME NEW i \in 1 .. n PROVE i \in T <=> i \in S
    OBVIOUS
  <2>1. i \in 1 .. n + 1 /\ zs[i] = xs[i]
    BY <1>1
  <2> QED
    BY <1>1, <2>1
<1>3. n + 1 \in T <=> ~r.ok
  <2>1. n + 1 \in 1 .. n + 1
    BY <1>1
  <2> QED
    BY <1>1, <2>1
<1> HIDE DEF S, T
<1>4. Picked(zs, T) = IF n + 1 \in T THEN Append(Picked(xs, S), r) ELSE Picked(xs, S)
  BY <1>2, PickedAppend DEF zs, n
<1> QED
  BY <1>3, <1>4 DEF Errs, S, T, zs

-----------------------------------------------------------------------------
(* Parts of sequences that grow at their ends. *)

\* A part that ends before the new element is what it was.
LEMMA PartOfAppend ==
  ASSUME NEW E, NEW xs \in Seq(E), NEW r \in E, NEW i \in Nat \ {0}, NEW j \in Int, j <= Len(xs)
  PROVE  SubSeq(Append(xs, r), i, j) = SubSeq(xs, i, j)
<1> DEFINE zs == Append(xs, r)
<1>1. \A k \in i .. j : zs[k] = xs[k] /\ xs[k] \in E
  OBVIOUS
<1> HIDE DEF zs
<1>2. /\ SubSeq(xs, i, j) \in Seq(E) /\ Len(SubSeq(xs, i, j)) = IF i <= j THEN j - i + 1 ELSE 0
      /\ \A k \in 1 .. j - i + 1 : SubSeq(xs, i, j)[k] = xs[i + k - 1]
  BY <1>1, SubSeqProperties
<1>3. \A k \in i .. j : zs[k] \in E
  BY <1>1
<1>4. /\ SubSeq(zs, i, j) \in Seq(E) /\ Len(SubSeq(zs, i, j)) = IF i <= j THEN j - i + 1 ELSE 0
      /\ \A k \in 1 .. j - i + 1 : SubSeq(zs, i, j)[k] = zs[i + k - 1]
  BY <1>3, SubSeqProperties
<1>5. Len(SubSeq(xs, i, j)) = Len(SubSeq(zs, i, j))
  BY <1>2, <1>4
<1>6. \A k \in 1 .. Len(SubSeq(xs, i, j)) : SubSeq(xs, i, j)[k] = SubSeq(zs, i, j)[k]
  <2> SUFFICES ASSUME NEW k \in 1 .. Len(SubSeq(xs, i, j)) PROVE SubSeq(xs, i, j)[k] = SubSeq(zs, i, j)[k]
    OBVIOUS
  <2>1. k \in 1 .. j - i + 1 /\ i + k - 1 \in i .. j
    BY <1>2
  <2> QED
    BY <1>1, <1>2, <1>4, <2>1
<1>7. SubSeq(xs, i, j) = SubSeq(zs, i, j)
  BY <1>2, <1>4, <1>5, <1>6, SeqEqual
<1> QED
  BY <1>7 DEF zs

\* One that ends with it has it at its end.
LEMMA PartWithLast ==
  ASSUME NEW E, NEW xs \in Seq(E), NEW r \in E, NEW i \in 1 .. Len(xs) + 1
  PROVE  SubSeq(Append(xs, r), i, Len(xs) + 1) = Append(SubSeq(xs, i, Len(xs)), r)
<1> DEFINE zs == Append(xs, r)
           n == Len(xs)
<1>1. /\ zs \in Seq(E) /\ Len(zs) = n + 1 /\ n \in Nat /\ zs[n + 1] = r
      /\ i \in 1 .. Len(zs) /\ n + 1 \in i .. Len(zs) /\ (n + 1) - 1 = n
  OBVIOUS
<1>2. SubSeq(zs, i, n + 1) = SubSeq(zs, i, (n + 1) - 1) \o <<zs[n + 1]>>
  <2> HIDE DEF zs, n
  <2> QED
    BY <1>1, SubSeqRecursiveSecond
<1>3. SubSeq(zs, i, n) = SubSeq(xs, i, n)
  BY PartOfAppend
<1>4. SubSeq(xs, i, n) \in Seq(E)
  <2>1. \A k \in i .. n : xs[k] \in E
    OBVIOUS
  <2> QED
    BY <2>1, SubSeqProperties
<1>5. SubSeq(xs, i, n) \o <<r>> = Append(SubSeq(xs, i, n), r)
  BY <1>4, AppendIsConcat
<1> HIDE DEF zs, n
<1>6. SubSeq(zs, i, n + 1) = Append(SubSeq(xs, i, n), r)
  BY <1>1, <1>2, <1>3, <1>5
<1> QED
  BY <1>6 DEF zs, n

\* What a part is made of.
LEMMA PartType ==
  ASSUME NEW E, NEW xs \in Seq(E), NEW i \in Nat \ {0}, NEW j \in Int, j <= Len(xs)
  PROVE  /\ SubSeq(xs, i, j) \in Seq(E)
         /\ Len(SubSeq(xs, i, j)) = IF i <= j THEN j - i + 1 ELSE 0
         /\ \A k \in 1 .. j - i + 1 : SubSeq(xs, i, j)[k] = xs[i + k - 1]
<1>1. \A k \in i .. j : xs[k] \in E
  OBVIOUS
<1> QED
  BY <1>1, SubSeqProperties

\* A sequence with one element more.
LEMMA AppendLast ==
  ASSUME NEW S, NEW s \in Seq(S), NEW x \in S
  PROVE  Append(s, x) \in Seq(S) /\ Append(s, x) # <<>> /\ Append(s, x)[Len(Append(s, x))] = x
BY AppendProperties

\* A sequence without its first element.
LEMMA TailElements ==
  ASSUME NEW S, NEW s \in Seq(S), s # <<>>
  PROVE  /\ Tail(s) \in Seq(S) /\ Len(Tail(s)) = Len(s) - 1 /\ Len(s) \in Nat \ {0}
         /\ \A i \in 1 .. Len(s) - 1 : Tail(s)[i] = s[i + 1]
BY HeadTailProperties, EmptySeq

\* A sequence that has one element more than another.
LEMMA LastAdded ==
  ASSUME NEW E, NEW ys \in Seq(E), NEW f \in Seq(E), NEW x \in E, Len(f) = Len(ys) + 1,
         \A i \in 1 .. Len(ys) : f[i] = ys[i], f[Len(ys) + 1] = x
  PROVE  f = Append(ys, x)
<1>1. /\ Append(ys, x) \in Seq(E) /\ Len(Append(ys, x)) = Len(ys) + 1 /\ Append(ys, x)[Len(ys) + 1] = x
      /\ \A i \in 1 .. Len(ys) : Append(ys, x)[i] = ys[i]
  OBVIOUS
<1>2. \A i \in 1 .. Len(f) : f[i] = Append(ys, x)[i]
  BY <1>1
<1> QED
  BY <1>1, <1>2, SeqEqual

\* A sequence is a prefix of what extends it.
LEMMA PrefixOfLonger ==
  ASSUME NEW E, NEW xs \in Seq(E), NEW us \in Seq(E)
  PROVE  IsPrefix(xs, xs \o us)
<1>1. xs \o us \in Seq(E) /\ Len(xs \o us) = Len(xs) + Len(us) /\ Len(us) \in Nat /\ Len(xs) \in Nat
  BY ConcatProperties
<1>2. SubSeq(xs \o us, 1, Len(xs)) = SubSeq(xs, 1, Len(xs))
  <2>1. CASE Len(xs) = 0
    BY <2>1, SubSeqEmpty
  <2>2. CASE Len(xs) # 0
    <3>1. 1 \in 1 .. Len(xs) /\ Len(xs) \in 1 .. Len(xs)
      BY <2>2
    <3> QED
      BY <3>1, SubSeqOfConcat1
  <2> QED
    BY <2>1, <2>2
<1> QED
  BY <1>1, <1>2 DEF IsPrefix

\* And of itself.
LEMMA PrefixItself ==
  ASSUME NEW E, NEW xs \in Seq(E)
  PROVE  IsPrefix(xs, xs)
BY DEF IsPrefix

-----------------------------------------------------------------------------
(* Elements, and what is inside them. *)

Values == Seq(Int) \ {<<>>}
OkElement == {r \in Element : r.ok}

\* What an element is made of.
LEMMA ElementFacts ==
  /\ \A r \in Element : r.ok \in BOOLEAN /\ r.v \in Seq(Int) /\ (r.ok => r.v \in Values /\ r = Okay(r.v))
  /\ \A v \in Values : Okay(v) \in OkElement /\ Okay(v).ok /\ Okay(v).v = v
<1>1. ASSUME NEW r \in Element
      PROVE  r.ok \in BOOLEAN /\ r.v \in Seq(Int) /\ (r.ok => r.v \in Values /\ r = Okay(r.v))
  <2>1. CASE r \in [ok : {TRUE}, v : Seq(Int) \ {<<>>}]
    BY <2>1 DEF Okay, Values
  <2>2. CASE r \in [ok : {FALSE}, v : Seq(Int)]
    BY <2>2
  <2> QED
    BY <2>1, <2>2 DEF Element
<1>2. ASSUME NEW v \in Values PROVE Okay(v) \in OkElement /\ Okay(v).ok /\ Okay(v).v = v
  BY DEF Element, Okay, Values, OkElement
<1> QED
  BY <1>1, <1>2

\* The values inside.
LEMMA InsideType ==
  ASSUME NEW xs \in Seq(Element)
  PROVE  ValuesOf(xs) \in Seq(Seq(Int)) /\ Len(ValuesOf(xs)) = Len(xs)
<1>1. \A i \in 1 .. Len(xs) : xs[i].v \in Seq(Int)
  BY ElementFacts
<1>2. Len(xs) \in Nat /\ DOMAIN xs = 1 .. Len(xs)
  OBVIOUS
<1> QED
  BY <1>1, <1>2 DEF ValuesOf

\* Nothing is inside nothing.
LEMMA InsideEmpty == ValuesOf(<<>>) = <<>>
BY DEF ValuesOf

\* One value more.
LEMMA InsideAppend ==
  ASSUME NEW xs \in Seq(Element), NEW r \in Element
  PROVE  ValuesOf(Append(xs, r)) = Append(ValuesOf(xs), r.v)
<1> DEFINE n == Len(xs)
           zs == Append(xs, r)
<1>1. /\ zs \in Seq(Element) /\ Len(zs) = n + 1 /\ n \in Nat /\ zs[n + 1] = r
      /\ DOMAIN zs = 1 .. n + 1 /\ DOMAIN xs = 1 .. n /\ \A i \in 1 .. n : zs[i] = xs[i]
  OBVIOUS
<1> HIDE DEF zs, n
<1>2. ValuesOf(xs) \in Seq(Seq(Int)) /\ Len(ValuesOf(xs)) = n /\ r.v \in Seq(Int)
  BY InsideType, ElementFacts DEF n
<1>3. ValuesOf(zs) \in Seq(Seq(Int)) /\ Len(ValuesOf(zs)) = n + 1
  BY <1>1, InsideType
<1>5. (\A i \in 1 .. n : ValuesOf(zs)[i] = ValuesOf(xs)[i]) /\ ValuesOf(zs)[n + 1] = r.v
  BY <1>1 DEF ValuesOf
<1>4. ValuesOf(zs) = Append(ValuesOf(xs), r.v)
  <2> DEFINE f == ValuesOf(zs)
             ys == ValuesOf(xs)
             x == r.v
             V == Seq(Int)
  <2>1. f \in Seq(V) /\ ys \in Seq(V) /\ x \in V /\ Len(f) = Len(ys) + 1
    BY <1>2, <1>3
  <2>2. (\A i \in 1 .. Len(ys) : f[i] = ys[i]) /\ f[Len(ys) + 1] = x
    BY <1>2, <1>5
  <2> HIDE DEF f, ys, x, V
  <2>3. f = Append(ys, x)
    BY <2>1, <2>2, LastAdded
  <2> QED
    BY <2>3 DEF f, ys, x
<1> QED
  BY <1>4 DEF zs

\* Oks and Errs are elements.
LEMMA OksType ==
  ASSUME NEW xs \in Seq(Element)
  PROVE  Oks(xs) \in Seq(OkElement) /\ Oks(xs) \in Seq(Element) /\ Errs(xs) \in Seq(Element)
<1> DEFINE P == {t \in Seq(Element) : Oks(t) \in Seq(OkElement)}
<1>1. <<>> \in P
  BY OksEmpty, EmptySeq
<1>2. ASSUME NEW t \in Seq(Element), NEW r \in Element, t \in P PROVE Append(t, r) \in P
  <2>1. Append(t, r) \in Seq(Element) /\ Oks(t) \in Seq(OkElement)
    BY <1>2
  <2>2. Oks(Append(t, r)) = IF r.ok THEN Append(Oks(t), r) ELSE Oks(t)
    BY OksAppend
  <2>3. r.ok => r \in OkElement
    BY DEF OkElement
  <2> QED
    <3>1. CASE r.ok
      <4>1. Oks(Append(t, r)) = Append(Oks(t), r)
        BY <2>2, <3>1
      <4>2. Append(Oks(t), r) \in Seq(OkElement)
        BY <2>1, <2>3, <3>1, AppendProperties, Zenon
      <4> QED
        BY <2>1, <4>1, <4>2, Zenon
    <3>2. CASE ~r.ok
      BY <2>1, <2>2, <3>2
    <3> QED
      BY <3>1, <3>2
<1>3. \A t \in Seq(Element) : t \in P
  <2> HIDE DEF P
  <2> QED
    BY <1>1, <1>2, SeqSetInduction
<1> QED
  BY <1>3, PickedType DEF Oks, Errs

\* A longer sequence has no fewer Oks.
LEMMA OksLonger ==
  ASSUME NEW xs \in Seq(Element)
  PROVE  \A us \in Seq(Element) : Len(Oks(xs)) <= Len(Oks(xs \o us))
<1> DEFINE P == {us \in Seq(Element) : Len(Oks(xs)) <= Len(Oks(xs \o us))}
<1>1. <<>> \in P
  <2>1. xs \o <<>> = xs /\ Len(Oks(xs)) \in Nat
    BY OksType
  <2> QED
    BY <2>1
<1>2. ASSUME NEW us \in Seq(Element), NEW r \in Element, us \in P PROVE Append(us, r) \in P
  <2> DEFINE zs == xs \o us
  <2>1. zs \in Seq(Element) /\ xs \o Append(us, r) = Append(zs, r)
    BY ConcatAppend, ConcatProperties
  <2> HIDE DEF zs
  <2>2. Oks(Append(zs, r)) = IF r.ok THEN Append(Oks(zs), r) ELSE Oks(zs)
    BY <2>1, OksAppend
  <2>3. Oks(zs) \in Seq(Element) /\ Oks(xs) \in Seq(Element)
    BY <2>1, OksType
  <2>4. Len(Oks(zs)) \in Nat /\ Len(Oks(xs)) \in Nat /\ Len(Append(Oks(zs), r)) = Len(Oks(zs)) + 1
    BY <2>3
  <2>5. Len(Oks(xs)) <= Len(Oks(zs))
    BY <1>2 DEF zs
  <2>6. Len(Oks(xs)) <= Len(Oks(Append(zs, r)))
    BY <2>2, <2>4, <2>5
  <2>7. Append(us, r) \in Seq(Element)
    OBVIOUS
  <2> QED
    BY <2>1, <2>6, <2>7
<1>3. \A us \in Seq(Element) : us \in P
  <2> HIDE DEF P
  <2> QED
    BY <1>1, <1>2, SeqSetInduction
<1> QED
  BY <1>3

\* A value made of values is not empty.
LEMMA TogetherType ==
  ASSUME NEW m \in Seq(Seq(Int)), NEW v \in Values
  PROVE  FlattenSeq(Append(m, v)) \in Values
<1>1. FlattenSeq(m) \in Seq(Int) /\ v \in Seq(Int) /\ v # <<>>
  BY FlattenType DEF Values
<1>2. FlattenSeq(Append(m, v)) = FlattenSeq(m) \o v
  BY <1>1, FlattenAppend
<1>3. FlattenSeq(m) \o v \in Seq(Int) /\ FlattenSeq(m) \o v # <<>>
  BY <1>1, ConcatProperties, ConcatSimplifications
<1> QED
  BY <1>2, <1>3 DEF Values

-----------------------------------------------------------------------------
(* One turn of each loop. *)

\* What a turn of op's loop does to what the loop has done: it keeps Behind, or leaves the
\* loop with the promise kept whatever is still to come.
TurnKeeps(op, xs, m, ys, r) ==
  LET t == Step(op, m, r)
  IN  /\ t.out \in Seq(Element) /\ t.stop \in BOOLEAN
      /\ ~t.stop => Behind(op, Append(xs, r), t.mem, ys \o t.out)
      /\ t.stop => /\ t.out = <<>>
                   /\ \A ws \in Seq(Element), over \in BOOLEAN :
                        Promised(op, Append(xs, r) \o ws, ys, over)

\* A turn that yields x.
LEMMA TurnYields ==
  ASSUME NEW op, NEW xs, NEW m, NEW k, NEW ys \in Seq(Element), NEW r, NEW x \in Element,
         Step(op, m, r) = Yield(k, x), Behind(op, Append(xs, r), k, Append(ys, x))
  PROVE  TurnKeeps(op, xs, m, ys, r)
<1> DEFINE t == Step(op, m, r)
<1>1. t.out = <<x>> /\ t.stop = FALSE /\ t.mem = k
  BY DEF Yield, Turn
<1>2. ys \o <<x>> = Append(ys, x) /\ <<x>> \in Seq(Element)
  BY AppendIsConcat
<1> HIDE DEF t
<1>3. Behind(op, Append(xs, r), t.mem, ys \o t.out)
  BY <1>1, <1>2
<1> QED
  BY <1>1, <1>2, <1>3 DEF TurnKeeps, t

\* A turn that yields nothing.
LEMMA TurnSkips ==
  ASSUME NEW op, NEW xs, NEW m, NEW k, NEW ys \in Seq(Element), NEW r,
         Step(op, m, r) = Skip(k), Behind(op, Append(xs, r), k, ys)
  PROVE  TurnKeeps(op, xs, m, ys, r)
<1> DEFINE t == Step(op, m, r)
<1>1. t.out = <<>> /\ t.stop = FALSE /\ t.mem = k
  BY DEF Skip, Turn
<1>2. ys \o <<>> = ys /\ <<>> \in Seq(Element)
  BY ConcatEmptySeq, EmptySeq
<1> HIDE DEF t
<1>3. Behind(op, Append(xs, r), t.mem, ys \o t.out)
  BY <1>1, <1>2
<1> QED
  BY <1>1, <1>2, <1>3 DEF TurnKeeps, t

\* A turn that leaves the loop.
LEMMA TurnStops ==
  ASSUME NEW op, NEW xs, NEW m, NEW ys, NEW r,
         Step(op, m, r) = Turn(m, <<>>, TRUE),
         \A ws \in Seq(Element), over \in BOOLEAN : Promised(op, Append(xs, r) \o ws, ys, over)
  PROVE  TurnKeeps(op, xs, m, ys, r)
<1> DEFINE t == Step(op, m, r)
<1>1. t.out = <<>> /\ t.stop = TRUE
  BY DEF Turn
<1>2. <<>> \in Seq(Element)
  BY EmptySeq
<1> HIDE DEF t
<1> QED
  BY <1>1, <1>2 DEF TurnKeeps, t

-----------------------------------------------------------------------------

\* map.
LEMMA MapKeeps ==
  ASSUME NEW xs \in Seq(Element), NEW ys \in Seq(Element), NEW m, NEW r \in Element,
         Behind("map", xs, m, ys)
  PROVE  TurnKeeps("map", xs, m, ys, r)
<1> DEFINE F(e) == IF e.ok THEN Okay(Mapped(e.v)) ELSE e
           zs == Append(xs, r)
           n == Len(xs)
           f == [i \in DOMAIN zs |-> F(zs[i])]
<1>1. ASSUME NEW e \in Element PROVE F(e) \in Element
  <2>1. CASE e.ok
    <3>1. e.v \in Seq(Int) /\ e.v # <<>>
      BY <2>1, ElementFacts DEF Values
    <3>2. e.v[1] \in Int
      BY <3>1
    <3>3. <<e.v[1] + 2>> \in Values
      BY <3>2 DEF Values
    <3>4. Okay(Mapped(e.v)) \in Element
      BY <3>3, ElementFacts DEF Mapped, OkElement
    <3> QED
      BY <2>1, <3>4
  <2>2. CASE ~e.ok
    BY <2>2
  <2> QED
    BY <2>1, <2>2
<1>2. /\ zs \in Seq(Element) /\ Len(zs) = n + 1 /\ n \in Nat /\ zs[n + 1] = r
      /\ DOMAIN zs = 1 .. n + 1 /\ DOMAIN xs = 1 .. n /\ \A i \in 1 .. n : zs[i] = xs[i]
  OBVIOUS
<1>3. ys = [i \in DOMAIN xs |-> F(xs[i])]
  BY DEF Behind, Promised
<1> HIDE DEF F, zs, n
<1>4. Len(ys) = n /\ \A i \in 1 .. n : ys[i] = F(xs[i])
  BY <1>2, <1>3
<1>5. f \in Seq(Element) /\ Len(f) = n + 1 /\ f[n + 1] = F(r) /\ \A i \in 1 .. n : f[i] = ys[i]
  <2>1. \A i \in 1 .. n + 1 : zs[i] \in Element
    BY <1>2
  <2>2. \A i \in 1 .. n + 1 : F(zs[i]) \in Element
    BY <1>1, <2>1
  <2>3. f \in Seq(Element) /\ Len(f) = n + 1
    BY <1>2, <2>2
  <2>4. f[n + 1] = F(r)
    BY <1>2
  <2>5. \A i \in 1 .. n : f[i] = ys[i]
    BY <1>2, <1>4
  <2> QED
    BY <2>3, <2>4, <2>5
<1>6. F(r) \in Element
  BY <1>1
<1>7. f = Append(ys, F(r))
  <2> DEFINE x == F(r)
  <2> HIDE DEF f, x
  <2>1. f[Len(ys) + 1] = x /\ x \in Element /\ Len(f) = Len(ys) + 1 /\ \A i \in 1 .. Len(ys) : f[i] = ys[i]
    BY <1>4, <1>5, <1>6 DEF x
  <2>2. f = Append(ys, x)
    BY <1>5, <2>1, LastAdded
  <2> QED
    BY <2>2 DEF x
<1>8. Step("map", m, r) = Yield(m, F(r))
  BY DEF Step, MapTurn, F
<1>9. Behind("map", zs, m, Append(ys, F(r)))
  BY <1>7 DEF Behind, Promised, Remembers, F
<1> QED
  BY <1>6, <1>8, <1>9, TurnYields DEF zs

\* filter.
LEMMA FilterKeeps ==
  ASSUME NEW xs \in Seq(Element), NEW ys \in Seq(Element), NEW m, NEW r \in Element,
         Behind("filter", xs, m, ys)
  PROVE  TurnKeeps("filter", xs, m, ys, r)
<1> DEFINE F(e) == ~e.ok \/ Accepts(e.v)
           zs == Append(xs, r)
           n == Len(xs)
           S == {i \in DOMAIN xs : F(xs[i])}
           T == {i \in DOMAIN zs : F(zs[i])}
<1>1. /\ DOMAIN zs = 1 .. n + 1 /\ DOMAIN xs = 1 .. n /\ n \in Nat /\ zs[n + 1] = r
      /\ \A i \in 1 .. n : zs[i] = xs[i] /\ i \in 1 .. n + 1
      /\ n + 1 \in 1 .. n + 1
  OBVIOUS
<1>2. ys = Picked(xs, S)
  BY DEF Behind, Promised
<1> HIDE DEF F, zs, n
<1>3. (\A i \in 1 .. n : i \in T <=> i \in S) /\ (n + 1 \in T <=> F(r))
  BY <1>1
<1> HIDE DEF S, T
<1>4. Picked(zs, T) = IF F(r) THEN Append(ys, r) ELSE ys
  BY <1>2, <1>3, PickedAppend DEF zs, n
<1>5. Step("filter", m, r) = IF F(r) THEN Yield(m, r) ELSE Skip(m)
  BY DEF Step, FilterTurn, F
<1>6. Behind("filter", zs, m, Picked(zs, T))
  BY DEF Behind, Promised, Remembers, T, F
<1> QED
  BY <1>4, <1>5, <1>6, TurnYields, TurnSkips DEF zs

\* take.
LEMMA TakeKeeps ==
  ASSUME NEW xs \in Seq(Element), NEW ys \in Seq(Element), NEW m, NEW r \in Element,
         Behind("take", xs, m, ys)
  PROVE  TurnKeeps("take", xs, m, ys, r)
<1> DEFINE zs == Append(xs, r)
           n == Len(Oks(xs))
<1>1. /\ ys = xs /\ m = n
      /\ m = Amount => IF m = 0 THEN xs = <<>> ELSE xs # <<>> /\ xs[Len(xs)].ok
  BY DEF Behind, Remembers
<1>2. n = Least(Amount, n)
  BY <1>1 DEF Behind, Promised
<1>3. n \in Nat /\ Amount \in Nat /\ Oks(xs) \in Seq(Element)
  BY OksType, OperatorsAssumption
<1>4. n <= Amount
  BY <1>2, <1>3 DEF Least
<1>5. zs \in Seq(Element) /\ zs # <<>> /\ zs[Len(zs)] = r
  BY AppendLast
<1>6. CASE m < Amount
  <2> DEFINE k == IF r.ok THEN m + 1 ELSE m
  <2>1. Step("take", m, r) = Yield(k, r)
    <3>1. ~(m >= Amount)
      BY <1>1, <1>3, <1>6
    <3>2. Step("take", m, r) = TakeTurn(m, r)
      BY DEF Step
    <3> QED
      BY <3>1, <3>2, Zenon DEF TakeTurn
  <2>2. k = Len(Oks(zs)) /\ k <= Amount /\ k \in Nat
    <3>1. Oks(zs) = IF r.ok THEN Append(Oks(xs), r) ELSE Oks(xs)
      BY OksAppend
    <3>2. Len(Append(Oks(xs), r)) = n + 1
      BY <1>3
    <3> QED
      BY <1>1, <1>3, <1>6, <3>1, <3>2
  <2>3. k = Amount => k # 0 /\ r.ok
    BY <1>1, <1>3, <1>6
  <2> HIDE DEF k, zs
  <2>4. Promised("take", zs, zs, FALSE)
    BY <1>3, <1>5, <2>2, PrefixItself DEF Promised, Least
  <2>5. Remembers("take", zs, k, zs)
    BY <1>5, <2>2, <2>3 DEF Remembers
  <2>6. Behind("take", zs, k, zs)
    BY <2>4, <2>5 DEF Behind
  <2> QED
    BY <1>1, <2>1, <2>6, TurnYields DEF zs
<1>7. CASE m >= Amount
  <2>1. Step("take", m, r) = Turn(m, <<>>, TRUE)
    BY <1>1, <1>3, <1>7 DEF Step, TakeTurn
  <2>2. m = Amount
    BY <1>1, <1>3, <1>4, <1>7
  <2>3. ASSUME NEW ws \in Seq(Element), NEW over \in BOOLEAN
        PROVE  Promised("take", zs \o ws, xs, over)
    <3> DEFINE us == <<r>> \o ws
    <3>1. us \in Seq(Element) /\ zs \o ws = xs \o us
      <4>1. zs = xs \o <<r>> /\ <<r>> \in Seq(Element)
        BY AppendIsConcat
      <4> HIDE DEF zs
      <4> QED
        BY <4>1, ConcatAssociative, ConcatProperties
    <3> HIDE DEF zs, us
    <3>2. IsPrefix(xs, xs \o us)
      BY <3>1, PrefixOfLonger
    <3>3. n <= Len(Oks(xs \o us)) /\ Len(Oks(xs \o us)) \in Nat
      <4>1. xs \o us \in Seq(Element)
        BY <3>1, ConcatProperties
      <4>2. Oks(xs \o us) \in Seq(Element)
        BY <4>1, OksType
      <4> QED
        BY <3>1, <4>2, OksLonger
    <3>4. n = Least(Amount, Len(Oks(xs \o us)))
      BY <1>1, <1>3, <2>2, <3>3 DEF Least
    <3>5. \/ xs = <<>> /\ Amount = 0
          \/ xs # <<>> /\ xs[Len(xs)].ok /\ Len(Oks(xs)) = Amount
      BY <1>1, <2>2
    <3> QED
      BY <3>1, <3>2, <3>4, <3>5 DEF Promised
  <2> QED
    BY <1>1, <2>1, <2>3, TurnStops
<1> QED
  BY <1>1, <1>3, <1>6, <1>7

\* The Oks before an element are the same in a longer sequence.
LEMMA BeforeAppend ==
  ASSUME NEW xs \in Seq(Element), NEW r \in Element
  PROVE  /\ \A i \in 1 .. Len(xs) : OksBefore(Append(xs, r), i) = OksBefore(xs, i)
         /\ OksBefore(Append(xs, r), Len(xs) + 1) = Oks(xs)
<1> DEFINE zs == Append(xs, r)
           n == Len(xs)
<1>1. n \in Nat
  OBVIOUS
<1>2. ASSUME NEW i \in 1 .. n PROVE OksBefore(zs, i) = OksBefore(xs, i)
  <2>1. i - 1 \in Int /\ i - 1 <= Len(xs) /\ 1 \in Nat \ {0}
    BY <1>1
  <2>2. SubSeq(zs, 1, i - 1) = SubSeq(xs, 1, i - 1)
    BY <2>1, PartOfAppend
  <2> QED
    BY <2>2 DEF OksBefore
<1>3. OksBefore(zs, n + 1) = Oks(xs)
  <2>1. (n + 1) - 1 = n /\ n \in Int /\ n <= Len(xs)
    BY <1>1
  <2>2. SubSeq(zs, 1, n) = SubSeq(xs, 1, n)
    BY <2>1, PartOfAppend
  <2>3. SubSeq(xs, 1, n) = xs
    BY SubSeqFull
  <2> QED
    BY <2>1, <2>2, <2>3 DEF OksBefore
<1> QED
  BY <1>2, <1>3

\* drop.
LEMMA DropKeeps ==
  ASSUME NEW xs \in Seq(Element), NEW ys \in Seq(Element), NEW m, NEW r \in Element,
         Behind("drop", xs, m, ys)
  PROVE  TurnKeeps("drop", xs, m, ys, r)
<1> DEFINE F(us, i) == ~us[i].ok \/ Len(OksBefore(us, i)) >= Amount
           zs == Append(xs, r)
           n == Len(xs)
           c == Len(Oks(xs))
           S == {i \in DOMAIN xs : F(xs, i)}
           T == {i \in DOMAIN zs : F(zs, i)}
<1>1. /\ DOMAIN zs = 1 .. n + 1 /\ DOMAIN xs = 1 .. n /\ n \in Nat /\ zs[n + 1] = r
      /\ \A i \in 1 .. n : zs[i] = xs[i] /\ i \in 1 .. n + 1
      /\ n + 1 \in 1 .. n + 1
  OBVIOUS
<1>2. ys = Picked(xs, S)
  BY DEF Behind, Promised
<1>3. m = Least(Amount, c)
  BY DEF Behind, Remembers
<1>4. c \in Nat /\ Amount \in Nat /\ Oks(xs) \in Seq(Element) /\ Oks(zs) = IF r.ok THEN Append(Oks(xs), r) ELSE Oks(xs)
  BY OksType, OksAppend, OperatorsAssumption
<1>5. Len(Oks(zs)) = IF r.ok THEN c + 1 ELSE c
  BY <1>4
<1>6. /\ \A i \in 1 .. n : OksBefore(zs, i) = OksBefore(xs, i)
      /\ OksBefore(zs, n + 1) = Oks(xs)
  BY BeforeAppend
<1> HIDE DEF zs, n
<1>7. (\A i \in 1 .. n : i \in T <=> i \in S) /\ (n + 1 \in T <=> ~r.ok \/ c >= Amount)
  BY <1>1, <1>6
<1>9. ASSUME NEW k, k = Least(Amount, Len(Oks(zs))) PROVE Behind("drop", zs, k, Picked(zs, T))
  BY <1>9 DEF Behind, Promised, Remembers
<1> HIDE DEF S, T
<1>8. Picked(zs, T) = IF ~r.ok \/ c >= Amount THEN Append(ys, r) ELSE ys
  BY <1>2, <1>7, PickedAppend DEF zs, n
<1>10. Step("drop", m, r) = DropTurn(m, r)
  BY DEF Step
<1> HIDE DEF c
<1>11. CASE r.ok /\ c < Amount
  <2>1. m < Amount /\ m + 1 = Least(Amount, Len(Oks(zs))) /\ ~(c >= Amount)
    BY <1>3, <1>4, <1>5, <1>11 DEF Least
  <2>2. DropTurn(m, r) = Skip(m + 1)
    BY <1>11, <2>1 DEF DropTurn
  <2>3. Behind("drop", zs, m + 1, ys)
    BY <1>8, <1>9, <1>11, <2>1
  <2> QED
    BY <1>10, <2>2, <2>3, TurnSkips DEF zs
<1>12. CASE ~(r.ok /\ c < Amount)
  <2>1. ~(r.ok /\ m < Amount) /\ m = Least(Amount, Len(Oks(zs))) /\ (~r.ok \/ c >= Amount)
    BY <1>3, <1>4, <1>5, <1>12 DEF Least
  <2>2. DropTurn(m, r) = Yield(m, r)
    BY <2>1 DEF DropTurn
  <2>3. Behind("drop", zs, m, Append(ys, r))
    BY <1>8, <1>9, <2>1
  <2> QED
    BY <1>10, <2>2, <2>3, TurnYields DEF zs
<1> QED
  BY <1>11, <1>12

\* takeWhile.
LEMMA TakeWhileKeeps ==
  ASSUME NEW xs \in Seq(Element), NEW ys \in Seq(Element), NEW m, NEW r \in Element,
         Behind("takeWhile", xs, m, ys)
  PROVE  TurnKeeps("takeWhile", xs, m, ys, r)
<1> DEFINE zs == Append(xs, r)
           n == Len(xs)
<1>1. ys = xs /\ \A i \in DOMAIN xs : xs[i].ok => Accepts(xs[i].v)
  BY DEF Behind, Promised, Remembers
<1>2. /\ DOMAIN zs = 1 .. n + 1 /\ DOMAIN xs = 1 .. n /\ n \in Nat /\ zs[n + 1] = r
      /\ zs \in Seq(Element) /\ \A i \in 1 .. n : zs[i] = xs[i]
  OBVIOUS
<1>3. Step("takeWhile", m, r) = TakeWhileTurn(m, r)
  BY DEF Step
<1>4. CASE r.ok /\ ~Accepts(r.v)
  <2>1. TakeWhileTurn(m, r) = Turn(m, <<>>, TRUE)
    BY <1>4 DEF TakeWhileTurn
  <2>2. ASSUME NEW ws \in Seq(Element), NEW over \in BOOLEAN
        PROVE  Promised("takeWhile", zs \o ws, xs, over)
    <3> DEFINE us == <<r>> \o ws
    <3>1. us \in Seq(Element) /\ zs \o ws = xs \o us
      <4>1. zs = xs \o <<r>> /\ <<r>> \in Seq(Element)
        BY AppendIsConcat
      <4> HIDE DEF zs
      <4> QED
        BY <4>1, ConcatAssociative, ConcatProperties
    <3>2. (zs \o ws)[n + 1] = r
      <4>1. n + 1 \in 1 .. Len(zs) + Len(ws) /\ n + 1 <= Len(zs)
        BY <1>2
      <4> HIDE DEF zs, n
      <4> QED
        BY <1>2, <4>1, ConcatProperties
    <3> HIDE DEF zs, us
    <3>3. IsPrefix(xs, zs \o ws)
      BY <3>1, PrefixOfLonger
    <3> QED
      BY <1>1, <1>4, <3>2, <3>3 DEF Promised
  <2> QED
    BY <1>1, <1>3, <2>1, <2>2, TurnStops
<1>5. CASE ~(r.ok /\ ~Accepts(r.v))
  <2>1. TakeWhileTurn(m, r) = Yield(m, r)
    BY <1>5 DEF TakeWhileTurn
  <2> HIDE DEF zs, n
  <2>2. IsPrefix(zs, zs)
    BY <1>2, PrefixItself
  <2>3. \A i \in DOMAIN zs : zs[i].ok => Accepts(zs[i].v)
    <3> SUFFICES ASSUME NEW i \in 1 .. n + 1, zs[i].ok PROVE Accepts(zs[i].v)
      BY <1>2
    <3>1. i = n + 1 \/ i \in 1 .. n
      BY <1>2
    <3> QED
      BY <1>1, <1>2, <1>5, <3>1
  <2>4. Behind("takeWhile", zs, m, zs)
    BY <2>2, <2>3 DEF Behind, Promised, Remembers
  <2> QED
    BY <1>1, <1>3, <2>1, <2>4, TurnYields DEF zs
<1> QED
  BY <1>4, <1>5

\* distinctUntilChanged.
LEMMA DistinctKeeps ==
  ASSUME NEW xs \in Seq(Element), NEW ys \in Seq(Element), NEW m, NEW r \in Element,
         Behind("distinct", xs, m, ys)
  PROVE  TurnKeeps("distinct", xs, m, ys, r)
<1> DEFINE F(us, i) == \/ ~us[i].ok \/ OksBefore(us, i) = <<>>
                       \/ us[i] # OksBefore(us, i)[Len(OksBefore(us, i))]
           zs == Append(xs, r)
           n == Len(xs)
           c == Len(Oks(xs))
           S == {i \in DOMAIN xs : F(xs, i)}
           T == {i \in DOMAIN zs : F(zs, i)}
<1>1. /\ DOMAIN zs = 1 .. n + 1 /\ DOMAIN xs = 1 .. n /\ n \in Nat /\ zs[n + 1] = r
      /\ \A i \in 1 .. n : zs[i] = xs[i] /\ i \in 1 .. n + 1
      /\ n + 1 \in 1 .. n + 1
  OBVIOUS
<1>2. ys = Picked(xs, S)
  BY DEF Behind, Promised
<1>3. m = IF c = 0 THEN <<>> ELSE Oks(xs)[c].v
  BY DEF Behind, Remembers
<1>4. c \in Nat /\ Oks(xs) \in Seq(OkElement) /\ Oks(zs) = IF r.ok THEN Append(Oks(xs), r) ELSE Oks(xs)
  BY OksType, OksAppend
<1>6. /\ \A i \in 1 .. n : OksBefore(zs, i) = OksBefore(xs, i)
      /\ OksBefore(zs, n + 1) = Oks(xs)
  BY BeforeAppend
<1> HIDE DEF zs, n
<1>7. (\A i \in 1 .. n : i \in T <=> i \in S) /\ (n + 1 \in T <=> ~r.ok \/ Oks(xs) = <<>> \/ r # Oks(xs)[c])
  BY <1>1, <1>6
<1>8. ASSUME NEW k, k = IF Len(Oks(zs)) = 0 THEN <<>> ELSE Oks(zs)[Len(Oks(zs))].v
      PROVE  Behind("distinct", zs, k, Picked(zs, T))
  BY <1>8 DEF Behind, Promised, Remembers
<1> HIDE DEF S, T
<1>9. Picked(zs, T) = IF ~r.ok \/ Oks(xs) = <<>> \/ r # Oks(xs)[c] THEN Append(ys, r) ELSE ys
  BY <1>2, <1>7, PickedAppend DEF zs, n
<1>10. Step("distinct", m, r) = DistinctTurn(m, r)
  BY DEF Step
<1>11. r.ok => (m = r.v <=> ~(Oks(xs) = <<>> \/ r # Oks(xs)[c]))
  <2> SUFFICES ASSUME r.ok PROVE m = r.v <=> ~(Oks(xs) = <<>> \/ r # Oks(xs)[c])
    OBVIOUS
  <2>1. r = Okay(r.v) /\ r.v \in Values
    BY ElementFacts
  <2>2. CASE c = 0
    <3>1. Oks(xs) = <<>> /\ m = <<>>
      BY <1>3, <1>4, <2>2
    <3> QED
      BY <2>1, <3>1 DEF Values
  <2>3. CASE c # 0
    <3> DEFINE o == Oks(xs)[c]
    <3>1. o \in OkElement /\ Oks(xs) # <<>>
      BY <1>4, <2>3
    <3>2. o \in Element /\ o.ok
      BY <3>1 DEF OkElement
    <3>3. o = Okay(o.v)
      BY <3>2, ElementFacts
    <3>4. m = o.v
      BY <1>3, <2>3
    <3> HIDE DEF o
    <3>5. m = r.v <=> r = o
      BY <2>1, <3>3, <3>4
    <3> QED
      BY <3>1, <3>5 DEF o
  <2> QED
    BY <2>2, <2>3
<1>12. CASE ~r.ok
  <2>1. DistinctTurn(m, r) = Yield(m, r)
    BY <1>12 DEF DistinctTurn
  <2>2. Behind("distinct", zs, m, Append(ys, r))
    BY <1>3, <1>4, <1>8, <1>9, <1>12
  <2> QED
    BY <1>10, <2>1, <2>2, TurnYields DEF zs
<1>13. CASE r.ok
  <2>1. Len(Oks(zs)) # 0 /\ Oks(zs)[Len(Oks(zs))] = r
    <3>1. Oks(zs) = Append(Oks(xs), r)
      BY <1>4, <1>13
    <3>2. Len(Append(Oks(xs), r)) = c + 1 /\ Append(Oks(xs), r)[c + 1] = r
      BY <1>4
    <3> QED
      BY <1>4, <3>1, <3>2
  <2>2. Behind("distinct", zs, r.v, Picked(zs, T))
    BY <1>8, <2>1
  <2>3. CASE m = r.v
    <3>1. DistinctTurn(m, r) = Skip(m)
      BY <1>13, <2>3 DEF DistinctTurn
    <3>2. Behind("distinct", zs, m, ys)
      BY <1>9, <1>11, <1>13, <2>2, <2>3
    <3> QED
      BY <1>10, <3>1, <3>2, TurnSkips DEF zs
  <2>4. CASE m # r.v
    <3>1. DistinctTurn(m, r) = Yield(r.v, r)
      BY <1>13, <2>4 DEF DistinctTurn
    <3>2. Behind("distinct", zs, r.v, Append(ys, r))
      BY <1>9, <1>11, <1>13, <2>2, <2>4
    <3> QED
      BY <1>10, <3>1, <3>2, TurnYields DEF zs
  <2> QED
    BY <2>3, <2>4
<1> QED
  BY <1>12, <1>13

\* A turn that yields several elements.
LEMMA TurnGoesOn ==
  ASSUME NEW op, NEW xs, NEW m, NEW k, NEW ys, NEW r, NEW o \in Seq(Element),
         Step(op, m, r) = Turn(k, o, FALSE), Behind(op, Append(xs, r), k, ys \o o)
  PROVE  TurnKeeps(op, xs, m, ys, r)
<1> DEFINE t == Step(op, m, r)
<1>1. t.out = o /\ t.stop = FALSE /\ t.mem = k
  BY DEF Turn
<1> HIDE DEF t
<1> QED
  BY <1>1 DEF TurnKeeps, t

\* An Err without a value is an element.
LEMMA FailureType == Failure \in Element
<1>1. <<>> \in Seq(Int)
  BY EmptySeq
<1>2. Failure \in [ok : {FALSE}, v : Seq(Int)]
  BY <1>1 DEF Failure
<1> QED
  BY <1>2 DEF Element

\* So is what flatMap yields of a value.
LEMMA AcceptedType ==
  ASSUME NEW r \in Element
  PROVE  (IF r.ok THEN SubStream(r.v) ELSE <<r>>) \in Seq(Element)
<1>1. CASE r.ok
  <2>1. Okay(r.v) \in Element /\ Failure \in Element
    BY <1>1, ElementFacts, FailureType DEF OkElement
  <2>2. <<Okay(r.v), Okay(r.v)>> \in Seq(Element) /\ <<Okay(r.v), Failure>> \in Seq(Element)
    BY <2>1
  <2> QED
    BY <1>1, <2>2 DEF SubStream
<1>2. CASE ~r.ok
  BY <1>2
<1> QED
  BY <1>1, <1>2

\* flatMap.
LEMMA FlatMapKeeps ==
  ASSUME NEW xs \in Seq(Element), NEW ys \in Seq(Element), NEW m, NEW r \in Element,
         Behind("flatMap", xs, m, ys)
  PROVE  TurnKeeps("flatMap", xs, m, ys, r)
<1> DEFINE F(e) == IF e.ok THEN SubStream(e.v) ELSE <<e>>
           zs == Append(xs, r)
           n == Len(xs)
           f == [i \in DOMAIN xs |-> F(xs[i])]
           g == [i \in DOMAIN zs |-> F(zs[i])]
           V == Seq(Element)
<1>1. /\ DOMAIN zs = 1 .. n + 1 /\ DOMAIN xs = 1 .. n /\ n \in Nat /\ zs[n + 1] = r
      /\ zs \in Seq(Element) /\ \A i \in 1 .. n : zs[i] = xs[i] /\ xs[i] \in Element
  OBVIOUS
<1>2. \A e \in Element : F(e) \in V
  BY AcceptedType
<1>3. ys = FlattenSeq(f)
  BY DEF Behind, Promised
<1>4. Step("flatMap", m, r) = Turn(m, F(r), FALSE)
  BY DEF Step, FlatMapTurn
<1>5. ASSUME NEW us, us = FlattenSeq(g) PROVE Behind("flatMap", zs, m, us)
  BY <1>5 DEF Behind, Promised, Remembers
<1> HIDE DEF zs, n, F, V
<1>6. f \in Seq(V) /\ Len(f) = n /\ \A i \in 1 .. n : f[i] = F(xs[i])
  BY <1>1, <1>2
<1>7. g \in Seq(V) /\ Len(g) = n + 1 /\ g[n + 1] = F(r) /\ \A i \in 1 .. n : g[i] = F(xs[i])
  <2>1. \A i \in 1 .. n + 1 : F(zs[i]) \in V
    BY <1>1, <1>2
  <2>2. g \in Seq(V) /\ Len(g) = n + 1
    BY <1>1, <2>1
  <2> QED
    BY <1>1, <2>2
<1>8. F(r) \in V
  BY <1>2
<1> HIDE DEF f, g
<1>9. g = Append(f, F(r))
  <2> DEFINE x == F(r)
  <2>1. x \in V /\ g[Len(f) + 1] = x /\ Len(g) = Len(f) + 1 /\ \A i \in 1 .. Len(f) : g[i] = f[i]
    BY <1>6, <1>7, <1>8
  <2> HIDE DEF x
  <2>2. g = Append(f, x)
    BY <1>6, <1>7, <2>1, LastAdded
  <2> QED
    BY <2>2 DEF x
<1>10. FlattenSeq(g) = ys \o F(r)
  <2> DEFINE x == F(r)
  <2>1. f \in Seq(Seq(Element)) /\ x \in Seq(Element) /\ g = Append(f, x)
    BY <1>6, <1>8, <1>9 DEF V
  <2> HIDE DEF x
  <2> QED
    BY <1>3, <2>1, FlattenAppend DEF x
<1>11. Behind("flatMap", zs, m, ys \o F(r))
  BY <1>5, <1>10
<1>12. F(r) \in Seq(Element)
  BY <1>8 DEF V
<1> QED
  BY <1>4, <1>11, <1>12, TurnGoesOn DEF zs

\* scan.
LEMMA ScanKeeps ==
  ASSUME NEW xs \in Seq(Element), NEW ys \in Seq(Element), NEW m, NEW r \in Element,
         Behind("scan", xs, m, ys)
  PROVE  TurnKeeps("scan", xs, m, ys, r)
<1> DEFINE G(us) == FlattenSeq(ValuesOf(Oks(us)))
           F(us, i) == IF us[i].ok THEN Okay(G(SubSeq(us, 1, i))) ELSE us[i]
           zs == Append(xs, r)
           n == Len(xs)
           x == F(zs, n + 1)
           f == [i \in DOMAIN zs |-> F(zs, i)]
<1>1. /\ DOMAIN zs = 1 .. n + 1 /\ DOMAIN xs = 1 .. n /\ n \in Nat /\ zs[n + 1] = r
      /\ zs \in Seq(Element) /\ Len(zs) = n + 1 /\ \A i \in 1 .. n : zs[i] = xs[i] /\ i <= n
  OBVIOUS
<1>2. ys = [i \in DOMAIN xs |-> F(xs, i)] /\ m = G(xs)
  BY DEF Behind, Promised, Remembers
<1>3. m \in Seq(Int) /\ G(zs) = IF r.ok THEN m \o r.v ELSE m
  <2>1. /\ Oks(xs) \in Seq(Element) /\ Oks(zs) = IF r.ok THEN Append(Oks(xs), r) ELSE Oks(xs)
    BY OksType, OksAppend
  <2>2. ValuesOf(Oks(xs)) \in Seq(Seq(Int)) /\ ValuesOf(Append(Oks(xs), r)) = Append(ValuesOf(Oks(xs)), r.v) /\ r.v \in Seq(Int)
    BY <2>1, InsideType, InsideAppend, ElementFacts
  <2>3. FlattenSeq(Append(ValuesOf(Oks(xs)), r.v)) = FlattenSeq(ValuesOf(Oks(xs))) \o r.v
    <3> DEFINE s == ValuesOf(Oks(xs))
               y == r.v
    <3> HIDE DEF s, y
    <3>1. s \in Seq(Seq(Int)) /\ y \in Seq(Int)
      BY <2>2 DEF s, y
    <3>2. FlattenSeq(Append(s, y)) = FlattenSeq(s) \o y
      BY <3>1, FlattenAppend
    <3> QED
      BY <3>2 DEF s, y
  <2>4. FlattenSeq(ValuesOf(Oks(xs))) \in Seq(Int)
    BY <2>2, FlattenType
  <2> HIDE DEF zs
  <2> QED
    BY <1>2, <2>1, <2>2, <2>3, <2>4
<1>4. G(SubSeq(zs, 1, n + 1)) = G(zs)
  <2>1. SubSeq(zs, 1, n + 1) = zs
    BY <1>1, SubSeqFull
  <2> QED
    BY <2>1
<1>5. \A i \in 1 .. n : SubSeq(zs, 1, i) = SubSeq(xs, 1, i)
  BY <1>1, PartOfAppend
<1>6. Step("scan", m, r) = ScanTurn(m, r)
  BY DEF Step
<1>7. ASSUME NEW k, k = G(zs) PROVE Behind("scan", zs, k, f)
  BY <1>7 DEF Behind, Promised, Remembers
<1>8. x = IF r.ok THEN Okay(m \o r.v) ELSE r
  BY <1>1, <1>3, <1>4
<1>9. x \in Element
  <2>1. CASE r.ok
    <3>1. r.v \in Seq(Int) /\ r.v # <<>>
      BY <2>1, ElementFacts DEF Values
    <3>2. m \o r.v \in Seq(Int) /\ m \o r.v # <<>>
      BY <1>3, <3>1, ConcatProperties, ConcatSimplifications
    <3> QED
      BY <1>8, <2>1, <3>2, ElementFacts DEF Values, OkElement
  <2>2. CASE ~r.ok
    BY <1>8, <2>2
  <2> QED
    BY <2>1, <2>2
<1> HIDE DEF zs, n, G
<1>10. Len(ys) = n /\ \A i \in 1 .. n : ys[i] = F(xs, i)
  BY <1>1, <1>2
<1>11. \A i \in 1 .. n : F(zs, i) = ys[i]
  BY <1>1, <1>5, <1>10
<1> HIDE DEF F
<1>12. f \in Seq(Element) /\ Len(f) = n + 1 /\ f[n + 1] = x /\ \A i \in 1 .. n : f[i] = ys[i]
  <2>1. \A i \in 1 .. n + 1 : F(zs, i) \in Element
    <3> SUFFICES ASSUME NEW i \in 1 .. n + 1 PROVE F(zs, i) \in Element
      OBVIOUS
    <3>1. CASE i = n + 1
      BY <1>9, <3>1
    <3>2. CASE i \in 1 .. n
      BY <1>10, <1>11, <3>2
    <3> QED
      BY <1>1, <3>1, <3>2
  <2>2. f \in Seq(Element) /\ Len(f) = n + 1
    BY <1>1, <2>1, SMTT(30)
  <2> QED
    BY <1>1, <1>11, <2>2
<1> HIDE DEF f, x
<1>13. f = Append(ys, x)
  BY <1>9, <1>10, <1>12, LastAdded
<1>14. CASE r.ok
  <2>1. ScanTurn(m, r) = Yield(m \o r.v, x)
    BY <1>8, <1>14 DEF ScanTurn
  <2>2. Behind("scan", zs, m \o r.v, Append(ys, x))
    BY <1>3, <1>7, <1>13, <1>14
  <2> QED
    BY <1>6, <1>9, <2>1, <2>2, TurnYields DEF zs
<1>15. CASE ~r.ok
  <2>1. ScanTurn(m, r) = Yield(m, x)
    BY <1>8, <1>15 DEF ScanTurn
  <2>2. Behind("scan", zs, m, Append(ys, x))
    BY <1>3, <1>7, <1>13, <1>15
  <2> QED
    BY <1>6, <1>9, <2>1, <2>2, TurnYields DEF zs
<1> QED
  BY <1>14, <1>15

\* zip.
LEMMA ZipKeeps ==
  ASSUME NEW xs \in Seq(Element), NEW ys \in Seq(Element), NEW m, NEW r \in Element,
         Behind("zip", xs, m, ys)
  PROVE  TurnKeeps("zip", xs, m, ys, r)
<1> DEFINE zs == Append(xs, r)
           n == Len(xs)
           F(us, vs, i) == IF us[i].ok /\ Other[i].ok THEN vs[i] = Okay(us[i].v \o Other[i].v) ELSE ~vs[i].ok
<1>1. /\ m = n /\ Len(ys) = n /\ n = Least(n, Len(Other)) /\ \A i \in DOMAIN ys : F(xs, ys, i)
  BY DEF Behind, Promised, Remembers
<1>2. /\ DOMAIN zs = 1 .. n + 1 /\ DOMAIN xs = 1 .. n /\ n \in Nat /\ zs[n + 1] = r
      /\ zs \in Seq(Element) /\ Len(zs) = n + 1 /\ \A i \in 1 .. n : zs[i] = xs[i]
  OBVIOUS
<1>3. /\ Len(Other) = 2 /\ Other[1] = Okay(<<7>>) /\ Other[2] = Failure
      /\ Other[1] \in Element /\ Other[2] \in Element
  <2>1. Len(Other) = 2 /\ Other[1] = Okay(<<7>>) /\ Other[2] = Failure
    BY DEF Other
  <2>2. <<7>> \in Values
    BY DEF Values
  <2>3. Okay(<<7>>) \in Element /\ Failure \in Element
    BY <2>2, ElementFacts, FailureType DEF OkElement
  <2> QED
    BY <2>1, <2>3
<1>4. n <= 2
  BY <1>1, <1>2, <1>3 DEF Least
<1>5. Step("zip", m, r) = ZipTurn(m, r)
  BY DEF Step
<1>6. CASE m = 2
  <2>1. ZipTurn(m, r) = Turn(m, <<>>, TRUE)
    BY <1>3, <1>6 DEF ZipTurn
  <2>2. ASSUME NEW ws \in Seq(Element), NEW over \in BOOLEAN
        PROVE  Promised("zip", zs \o ws, ys, over)
    <3> DEFINE us == zs \o ws
    <3>1. /\ Len(us) = (n + 1) + Len(ws) /\ Len(ws) \in Nat
          /\ \A i \in 1 .. n : us[i] = zs[i]
      <4> HIDE DEF zs
      <4>1. /\ Len(zs \o ws) = Len(zs) + Len(ws) /\ Len(ws) \in Nat
            /\ \A i \in 1 .. Len(zs) + Len(ws) : (zs \o ws)[i] = IF i <= Len(zs) THEN zs[i] ELSE ws[i - Len(zs)]
        <5>1. zs \in Seq(Element)
          BY <1>2
        <5> QED
          BY <5>1, ConcatProperties
      <4> QED
        BY <1>2, <4>1
    <3> HIDE DEF us, zs
    <3>2. Len(ys) = Least(Len(us), Len(Other))
      <4>1. Len(ys) = 2 /\ Len(Other) = 2 /\ n = 2
        BY <1>1, <1>3, <1>6
      <4>2. Len(us) \in Nat /\ ~(Len(us) < 2)
        BY <3>1, <4>1
      <4> QED
        BY <4>1, <4>2 DEF Least
    <3>3. \A i \in DOMAIN ys : F(us, ys, i)
      <4>1. DOMAIN ys = 1 .. n /\ \A i \in 1 .. n : us[i] = xs[i]
        BY <1>1, <1>2, <3>1
      <4> QED
        BY <1>1, <4>1
    <3> QED
      BY <3>2, <3>3 DEF Promised, us
  <2> QED
    BY <1>5, <2>1, <2>2, TurnStops
<1>7. CASE m # 2
  <2> DEFINE o == Other[m + 1]
             x == IF ~r.ok THEN r ELSE IF ~o.ok THEN o ELSE Okay(r.v \o o.v)
             vs == Append(ys, x)
  <2>1. ZipTurn(m, r) = Yield(m + 1, x)
    BY <1>3, <1>7 DEF ZipTurn
  <2>2. o \in Element
    <3>1. m + 1 = 1 \/ m + 1 = 2
      BY <1>1, <1>2, <1>4, <1>7
    <3> QED
      BY <1>3, <3>1
  <2>3. x \in Element
    <3>1. CASE r.ok /\ o.ok
      <4> HIDE DEF o
      <4>1. r.v \in Seq(Int) /\ r.v # <<>> /\ o.v \in Seq(Int)
        BY <2>2, <3>1, ElementFacts DEF Values
      <4>2. r.v \o o.v \in Seq(Int) /\ r.v \o o.v # <<>>
        BY <4>1, ConcatProperties, ConcatSimplifications
      <4>3. Okay(r.v \o o.v) \in Element
        BY <4>2, ElementFacts DEF Values, OkElement
      <4> QED
        BY <3>1, <4>3
    <3>2. CASE ~(r.ok /\ o.ok)
      BY <2>2, <3>2
    <3> QED
      BY <3>1, <3>2
  <2>4. IF r.ok /\ o.ok THEN x = Okay(r.v \o o.v) ELSE ~x.ok
    OBVIOUS
  <2> HIDE DEF x, o
  <2>5. /\ vs \in Seq(Element) /\ Len(vs) = n + 1 /\ vs[n + 1] = x /\ DOMAIN vs = 1 .. n + 1
        /\ \A i \in 1 .. n : vs[i] = ys[i]
    BY <1>1, <1>2, <2>3
  <2> HIDE DEF vs, zs, n
  <2>6. \A i \in DOMAIN vs : F(zs, vs, i)
    <3> SUFFICES ASSUME NEW i \in 1 .. n + 1 PROVE F(zs, vs, i)
      BY <2>5
    <3>1. CASE i = n + 1
      BY <1>1, <1>2, <2>4, <2>5, <3>1 DEF o
    <3>2. CASE i \in 1 .. n
      <4>1. F(xs, ys, i)
        <5>1. i \in DOMAIN ys
          BY <1>1, <3>2
        <5> QED
          BY <1>1, <5>1
      <4> QED
        BY <1>2, <2>5, <3>2, <4>1
    <3> QED
      BY <1>2, <3>1, <3>2
  <2>7. Len(vs) = Least(Len(zs), Len(Other)) /\ m + 1 = Len(vs) /\ Len(vs) = Len(zs)
    BY <1>1, <1>2, <1>3, <1>4, <1>7, <2>5 DEF Least
  <2>8. Behind("zip", zs, m + 1, vs)
    BY <2>6, <2>7 DEF Behind, Promised, Remembers
  <2> QED
    BY <1>5, <2>1, <2>3, <2>8, TurnYields DEF zs, vs
<1> QED
  BY <1>6, <1>7

\* throttle: element i is drawn at TimeOf(i).
LEMMA ThrottleKeeps ==
  ASSUME NEW xs \in Seq(Element), NEW ys \in Seq(Element), NEW m, NEW r \in Element,
         Behind("throttle", xs, m, ys), drawn = Len(xs)
  PROVE  TurnKeeps("throttle", xs, m, ys, r)
<1> DEFINE zs == Append(xs, r)
           n == Len(xs)
           Newest(us, K, k) == \/ k = 0 /\ \A j \in K : ~us[j].ok
                             \/ \E j \in K : us[j].ok /\ k = TimeOf(j) /\ \A i \in K : us[i].ok => i <= j
<1>1. PICK K \in SUBSET (1 .. n) : Spaced(xs, K) /\ ys = Picked(xs, K) /\ Newest(xs, K, m)
  BY DEF Behind, Remembers
<1>2. /\ DOMAIN zs = 1 .. n + 1 /\ Len(zs) = n + 1 /\ n \in Nat /\ zs[n + 1] = r
      /\ zs \in Seq(Element) /\ \A i \in 1 .. n : zs[i] = xs[i] /\ i \in 1 .. n + 1 /\ i < n + 1
      /\ n + 1 \in 1 .. n + 1 /\ Amount \in Nat
  BY OperatorsAssumption
<1>3. \A i \in 1 .. n : i \in K <=> (~xs[i].ok \/ ~\E j \in K : j < i /\ xs[j].ok /\ i - j < Amount)
  BY <1>1 DEF Spaced
<1>4. Step("throttle", m, r) = ThrottleTurn(m, r) /\ TimeOf(drawn + 1) = Amount + (n + 1)
  BY DEF Step, TimeOf
<1>5. ASSUME NEW L \in SUBSET (1 .. n + 1), NEW k, Spaced(zs, L), Newest(zs, L, k)
      PROVE  Behind("throttle", zs, k, Picked(zs, L))
  <2>1. L \in SUBSET (1 .. Len(zs))
    BY <1>2
  <2> HIDE DEF zs
  <2> QED
    BY <1>5, <2>1 DEF Behind, Promised, Remembers
<1>6. ASSUME NEW L \in SUBSET (1 .. n + 1), \A i \in 1 .. n : i \in L <=> i \in K
      PROVE  Picked(zs, L) = IF n + 1 \in L THEN Append(ys, r) ELSE ys
  BY <1>1, <1>6, PickedAppend
<1> DEFINE Near == \E j \in K : j < n + 1 /\ xs[j].ok /\ (n + 1) - j < Amount
<1>7. ASSUME NEW L \in SUBSET (1 .. n + 1), \A i \in 1 .. n : i \in L <=> i \in K,
             n + 1 \in L <=> ~r.ok \/ ~Near
      PROVE  Spaced(zs, L)
  <2> SUFFICES ASSUME NEW i \in 1 .. n + 1
               PROVE  i \in L <=> (~zs[i].ok \/ ~\E j \in L : j < i /\ zs[j].ok /\ i - j < Amount)
    BY <1>2 DEF Spaced
  <2> HIDE DEF zs, n
  <2>1. \A j \in L : j < i => j \in 1 .. n /\ j \in K /\ zs[j] = xs[j]
    BY <1>2, <1>7
  <2>2. \A j \in K : j \in L /\ j \in 1 .. n /\ zs[j] = xs[j]
    BY <1>1, <1>2, <1>7
  <2>3. CASE i = n + 1
    BY <1>2, <1>7, <2>1, <2>2, <2>3
  <2>4. CASE i \in 1 .. n
    BY <1>2, <1>3, <1>7, <2>1, <2>2, <2>4
  <2> QED
    BY <1>2, <2>3, <2>4
<1> HIDE DEF zs, n
<1>8. CASE ~r.ok
  <2> DEFINE L == K \cup {n + 1}
  <2>1. L \in SUBSET (1 .. n + 1) /\ n + 1 \in L /\ \A i \in 1 .. n : i \in L <=> i \in K
    BY <1>1, <1>2
  <2>2. Spaced(zs, L)
    BY <1>7, <1>8, <2>1
  <2>3. Newest(zs, L, m)
    <3>1. \A j \in K : zs[j] = xs[j] /\ j \in L
      BY <1>1, <1>2
    <3>2. \A j \in L : j \in K \/ j = n + 1
      OBVIOUS
    <3> QED
      BY <1>1, <1>2, <1>8, <3>1, <3>2
  <2>4. ThrottleTurn(m, r) = Yield(m, r)
    BY <1>8 DEF ThrottleTurn
  <2>5. Behind("throttle", zs, m, Append(ys, r))
    BY <1>5, <1>6, <2>1, <2>2, <2>3
  <2> QED
    BY <1>4, <2>4, <2>5, TurnYields DEF zs
<1>9. CASE r.ok /\ (Amount + (n + 1)) - m >= Amount
  <2> DEFINE L == K \cup {n + 1}
  <2>1. L \in SUBSET (1 .. n + 1) /\ n + 1 \in L /\ \A i \in 1 .. n : i \in L <=> i \in K
    BY <1>1, <1>2
  <2>2. ~Near
    <3> SUFFICES ASSUME NEW j \in K, xs[j].ok, (n + 1) - j < Amount PROVE FALSE
      OBVIOUS
    <3>1. PICK l \in K : xs[l].ok /\ m = TimeOf(l) /\ \A i \in K : xs[i].ok => i <= l
      BY <1>1
    <3>2. j <= l /\ l \in Nat /\ j \in Nat /\ m = Amount + l
      BY <1>1, <1>2, <3>1 DEF TimeOf
    <3>3. (Amount + (n + 1)) - m >= Amount /\ n \in Nat /\ Amount \in Nat
      BY <1>2, <1>9
    <3> HIDE DEF n
    <3> QED
      BY <3>2, <3>3
  <2>3. Spaced(zs, L)
    BY <1>7, <2>1, <2>2
  <2>4. Newest(zs, L, TimeOf(n + 1))
    <3>1. zs[n + 1].ok /\ \A i \in L : i <= n + 1
      BY <1>2, <1>9, <2>1
    <3> QED
      BY <2>1, <3>1
  <2>5. ThrottleTurn(m, r) = Yield(TimeOf(n + 1), r)
    <3>1. TimeOf(drawn + 1) = TimeOf(n + 1) /\ TimeOf(drawn + 1) - m >= Amount
      BY <1>4, <1>9 DEF n
    <3> QED
      BY <1>9, <3>1, Zenon DEF ThrottleTurn
  <2>6. Behind("throttle", zs, TimeOf(n + 1), Append(ys, r))
    BY <1>5, <1>6, <2>1, <2>3, <2>4
  <2> QED
    BY <1>4, <2>5, <2>6, TurnYields DEF zs
<1>10. CASE r.ok /\ ~((Amount + (n + 1)) - m >= Amount)
  <2>1. K \in SUBSET (1 .. n + 1) /\ n + 1 \notin K
    BY <1>1, <1>2
  <2>2. PICK l \in K : xs[l].ok /\ m = TimeOf(l) /\ \A i \in K : xs[i].ok => i <= l
    BY <1>1, <1>2, <1>10
  <2>3. l \in 1 .. n /\ m = Amount + l /\ (n + 1) - l < Amount
    BY <1>1, <1>2, <1>10, <2>2 DEF TimeOf
  <2>4. Near
    BY <1>2, <2>2, <2>3
  <2>5. Spaced(zs, K)
    BY <1>7, <1>10, <2>1, <2>4
  <2>6. Newest(zs, K, m)
    <3>1. \A j \in K : zs[j] = xs[j]
      BY <1>1, <1>2
    <3> QED
      BY <2>2, <3>1
  <2>7. ThrottleTurn(m, r) = Skip(m)
    <3>1. ~(TimeOf(drawn + 1) - m >= Amount)
      BY <1>4, <1>10
    <3> QED
      BY <1>10, <3>1, Zenon DEF ThrottleTurn
  <2>8. Behind("throttle", zs, m, ys)
    BY <1>5, <1>6, <2>1, <2>5, <2>6
  <2> QED
    BY <1>4, <2>7, <2>8, TurnSkips DEF zs
<1> QED
  BY <1>8, <1>9, <1>10

\* Values put together of a longer sequence.
LEMMA TogetherAppend ==
  ASSUME NEW xs \in Seq(Element), NEW r \in Element, NEW i \in Nat \ {0}, NEW j \in Int, j <= Len(xs)
  PROVE  Together(Append(xs, r), i, j) = Together(xs, i, j)
BY PartOfAppend DEF Together

\* The values of the last Oks, with one more.
LEMMA InsideLast ==
  ASSUME NEW xs \in Seq(Element), NEW r \in Element, r.ok, NEW i \in 1 .. Len(xs) + 1
  PROVE  LET m == ValuesOf(SubSeq(xs, i, Len(xs)))
             zs == Append(xs, r)
         IN  /\ m \in Seq(Seq(Int)) /\ Len(m) = Len(xs) - i + 1
             /\ Append(m, r.v) = ValuesOf(SubSeq(zs, i, Len(xs) + 1))
             /\ Okay(FlattenSeq(Append(m, r.v))) = Together(zs, i, Len(xs) + 1)
             /\ Okay(FlattenSeq(Append(m, r.v))) \in OkElement
<1> DEFINE n == Len(xs)
           s == SubSeq(xs, i, n)
           m == ValuesOf(s)
           zs == Append(xs, r)
<1>1. n \in Nat /\ i \in Nat \ {0} /\ n \in Int /\ n <= Len(xs)
  OBVIOUS
<1>2. s \in Seq(Element) /\ Len(s) = n - i + 1
  <2>1. s \in Seq(Element) /\ Len(s) = IF i <= n THEN n - i + 1 ELSE 0
    BY <1>1, PartType
  <2> QED
    BY <1>1, <2>1
<1>3. SubSeq(zs, i, n + 1) = Append(s, r)
  BY PartWithLast
<1> HIDE DEF s, n, zs
<1>4. m \in Seq(Seq(Int)) /\ Len(m) = n - i + 1
  BY <1>2, InsideType
<1>5. ValuesOf(Append(s, r)) = Append(m, r.v)
  BY <1>2, InsideAppend
<1>6. FlattenSeq(Append(m, r.v)) \in Values
  <2>1. r.v \in Values
    BY ElementFacts
  <2> HIDE DEF m
  <2> QED
    BY <1>4, <2>1, TogetherType
<1>7. Together(zs, i, n + 1) = Okay(FlattenSeq(Append(m, r.v)))
  BY <1>3, <1>5 DEF Together
<1>8. Okay(FlattenSeq(Append(m, r.v))) \in OkElement
  BY <1>6, ElementFacts
<1> QED
  BY <1>3, <1>4, <1>5, <1>7, <1>8 DEF s, n, zs

\* The size of a chunk or a window.
LEMMA SizeType == BatchSize \in Nat \ {0} /\ (Amount # 0 => BatchSize = Amount) /\ (Amount = 0 => BatchSize = 1) /\ Amount \in Nat
BY OperatorsAssumption DEF BatchSize

\* An Err goes past the buffer of chunk and window.
LEMMA ErrPasses ==
  ASSUME NEW xs \in Seq(Element), NEW ys \in Seq(Element), NEW r \in Element, ~r.ok, Errs(ys) = Errs(xs)
  PROVE  /\ Oks(Append(xs, r)) = Oks(xs) /\ Oks(Append(ys, r)) = Oks(ys)
         /\ Errs(Append(ys, r)) = Errs(Append(xs, r))
BY OksAppend, ErrsAppend

\* An Ok read and an Ok yielded, for chunk and window.
LEMMA OkAdded ==
  ASSUME NEW xs \in Seq(Element), NEW ys \in Seq(Element), NEW r \in Element, r.ok,
         NEW x \in OkElement, Errs(ys) = Errs(xs)
  PROVE  /\ Oks(Append(xs, r)) = Append(Oks(xs), r) /\ Oks(Append(ys, x)) = Append(Oks(ys), x)
         /\ Errs(Append(ys, x)) = Errs(Append(xs, r)) /\ Errs(ys) = Errs(Append(xs, r))
<1>1. x \in Element /\ x.ok
  BY DEF OkElement
<1> QED
  BY <1>1, OksAppend, ErrsAppend

\* Chunk's promise, without the end of the stream.
Chunked(os, cs) ==
  /\ Len(os) \in Len(cs) * BatchSize..(Len(cs) + 1) * BatchSize - 1
  /\ \A j \in 1..Len(cs) : cs[j] = Together(os, (j - 1) * BatchSize + 1, Least(j * BatchSize, Len(os)))

\* A chunk loop that is behind, in those words.
LEMMA ChunkBehind ==
  ASSUME NEW xs, NEW ys, NEW m
  PROVE  Behind("chunk", xs, m, ys) <=>
           /\ Errs(ys) = Errs(xs) /\ Chunked(Oks(xs), Oks(ys))
           /\ m = ValuesOf(SubSeq(Oks(xs), Len(Oks(ys)) * BatchSize + 1, Len(Oks(xs))))
BY DEF Behind, Promised, Remembers, Chunked

\* The chunks there were, with one more Ok.
LEMMA ChunksStay ==
  ASSUME NEW os \in Seq(Element), NEW cs \in Seq(Element), NEW r \in Element, Chunked(os, cs),
         NEW j \in 1..Len(cs)
  PROVE  cs[j] = Together(Append(os, r), (j - 1) * BatchSize + 1, Least(j * BatchSize, Len(os) + 1))
<1> DEFINE n == Len(os)
           k == Len(cs)
           a == (j - 1) * BatchSize + 1
           b == j * BatchSize
<1>1. n \in Nat /\ k \in Nat /\ j \in Nat /\ j - 1 \in Nat /\ j <= k /\ BatchSize \in Nat
  BY SizeType
<1>2. b <= k * BatchSize /\ 0 <= (j - 1) * BatchSize
  BY <1>1, TimesMonotone
<1>3. k * BatchSize <= n
  BY <1>1 DEF Chunked
<1>4. a \in Nat \ {0} /\ b \in Int
  BY <1>1, <1>2
<1>5. cs[j] = Together(os, a, Least(b, n))
  BY DEF Chunked
<1> HIDE DEF a, b, n, k
<1>7. k * BatchSize \in Int
  BY <1>1
<1>6. Least(b, n) = b /\ Least(b, n + 1) = b /\ b <= n
  BY <1>1, <1>2, <1>3, <1>4, <1>7 DEF Least
<1>8. Together(Append(os, r), a, b) = Together(os, a, b)
  BY <1>4, <1>6, TogetherAppend DEF n
<1> QED
  BY <1>5, <1>6, <1>8 DEF a, b, n

\* chunk.
LEMMA ChunkKeeps ==
  ASSUME NEW xs \in Seq(Element), NEW ys \in Seq(Element), NEW m, NEW r \in Element,
         Behind("chunk", xs, m, ys)
  PROVE  TurnKeeps("chunk", xs, m, ys, r)
<1> DEFINE os == Oks(xs)
           cs == Oks(ys)
           zs == Append(xs, r)
           n == Len(os)
           k == Len(cs)
<1>1. Errs(ys) = Errs(xs) /\ Chunked(os, cs) /\ m = ValuesOf(SubSeq(os, k * BatchSize + 1, n))
  BY ChunkBehind
<1>2. os \in Seq(Element) /\ cs \in Seq(Element) /\ n \in Nat /\ k \in Nat
  BY OksType
<1>3. BatchSize \in Nat \ {0} /\ (Amount # 0 => BatchSize = Amount) /\ (Amount = 0 => BatchSize = 1) /\ Amount \in Nat
  BY SizeType
<1>4. Step("chunk", m, r) = ChunkTurn(m, r)
  BY DEF Step
<1>5. CASE ~r.ok
  <2>1. ChunkTurn(m, r) = Yield(m, r)
    BY <1>5 DEF ChunkTurn
  <2>2. Oks(zs) = os /\ Oks(Append(ys, r)) = cs /\ Errs(Append(ys, r)) = Errs(zs)
    BY <1>1, <1>5, ErrPasses
  <2> HIDE DEF os, cs, zs
  <2>3. Behind("chunk", zs, m, Append(ys, r))
    BY <1>1, <2>2, ChunkBehind
  <2> QED
    BY <1>4, <2>1, <2>3, TurnYields DEF zs
<1>6. CASE r.ok
  <2> DEFINE d == k * BatchSize
             ps == Append(os, r)
             M == Append(m, r.v)
             x == Okay(FlattenSeq(M))
  <2>1. d \in Nat /\ d <= n /\ n < d + BatchSize /\ (k + 1) * BatchSize = d + BatchSize
    <3>1. d >= 0 /\ d \in Int
      BY <1>2, <1>3, TimesMonotone
    <3>2. (k + 1) * BatchSize = d + BatchSize
      BY <1>2, <1>3
    <3>3. n \in d .. (k + 1) * BatchSize - 1
      BY <1>1 DEF Chunked
    <3> QED
      BY <1>2, <1>3, <3>1, <3>2, <3>3
  <2>2. d + 1 \in 1 .. Len(os) + 1
    BY <1>2, <2>1
  <2>3. /\ m \in Seq(Seq(Int)) /\ Len(m) = n - d
        /\ M = ValuesOf(SubSeq(ps, d + 1, n + 1))
        /\ x = Together(ps, d + 1, n + 1) /\ x \in OkElement
    <3>1. Len(os) - (d + 1) + 1 = n - d
      BY <1>2, <2>1
    <3> HIDE DEF os, d
    <3> QED
      BY <1>1, <1>2, <1>6, <2>2, <3>1, InsideLast DEF d
  <2>4. /\ Oks(zs) = ps /\ Oks(Append(ys, x)) = Append(cs, x)
        /\ Errs(Append(ys, x)) = Errs(zs) /\ Errs(ys) = Errs(zs)
    <3> HIDE DEF x
    <3> QED
      BY <1>1, <1>6, <2>3, OkAdded
  <2>5. Len(ps) = n + 1
    BY <1>2
  <2>6. \A j \in 1 .. k : cs[j] = Together(ps, (j - 1) * BatchSize + 1, Least(j * BatchSize, n + 1))
    <3> HIDE DEF os, cs
    <3> QED
      BY <1>1, <1>2, ChunksStay
  <2>7. CASE Len(m) + 1 >= Amount
    <3>1. n + 1 = d + BatchSize
      BY <1>2, <1>3, <2>1, <2>3, <2>7
    <3>2. ChunkTurn(m, r) = Yield(<<>>, x)
      BY <1>6, <2>7 DEF ChunkTurn
    <3> DEFINE us == Append(cs, x)
    <3>3. us \in Seq(Element) /\ Len(us) = k + 1 /\ us[k + 1] = x /\ \A j \in 1 .. k : us[j] = cs[j]
      <4>1. x \in Element
        BY <2>3 DEF OkElement
      <4> HIDE DEF x
      <4> QED
        BY <1>2, <4>1
    <3> HIDE DEF us, x, ps, cs, os, M
    <3>4. us[k + 1] = Together(ps, ((k + 1) - 1) * BatchSize + 1, Least((k + 1) * BatchSize, n + 1))
      <4>1. (k + 1) - 1 = k /\ Least((k + 1) * BatchSize, n + 1) = n + 1
        BY <1>2, <2>1, <3>1 DEF Least
      <4> QED
        BY <2>3, <3>3, <4>1
    <3>5. Len(ps) \in Len(us) * BatchSize .. (Len(us) + 1) * BatchSize - 1
      <4>1. ((k + 1) + 1) * BatchSize = (d + BatchSize) + BatchSize
        BY <1>2, <1>3, <2>1
      <4> HIDE DEF d
      <4> QED
        BY <1>2, <1>3, <2>1, <2>5, <3>1, <3>3, <4>1
    <3>6. Chunked(ps, us)
      <4>1. ASSUME NEW j \in 1 .. k + 1
            PROVE  us[j] = Together(ps, (j - 1) * BatchSize + 1, Least(j * BatchSize, n + 1))
        <5>1. j = k + 1 \/ j \in 1 .. k
          BY <1>2
        <5> QED
          BY <2>6, <3>3, <3>4, <5>1
      <4> QED
        BY <2>5, <3>3, <3>5, <4>1 DEF Chunked
    <3>7. ValuesOf(SubSeq(ps, Len(us) * BatchSize + 1, Len(ps))) = <<>>
      <4>1. Len(us) * BatchSize + 1 \in Int /\ Len(ps) \in Int /\ Len(ps) < Len(us) * BatchSize + 1
        BY <1>2, <1>3, <2>1, <2>5, <3>1, <3>3
      <4>2. SubSeq(ps, Len(us) * BatchSize + 1, Len(ps)) = <<>>
        BY <4>1, SubSeqEmpty
      <4> QED
        BY <4>2, InsideEmpty
    <3>8. Behind("chunk", zs, <<>>, Append(ys, x))
      BY <2>4, <3>6, <3>7, ChunkBehind DEF us
    <3>9. x \in Element
      BY <2>3 DEF OkElement
    <3> QED
      BY <1>4, <3>2, <3>8, <3>9, TurnYields
  <2>8. CASE ~(Len(m) + 1 >= Amount)
    <3>1. n + 1 < d + BatchSize
      BY <1>2, <1>3, <2>1, <2>3, <2>8
    <3>2. ChunkTurn(m, r) = Skip(M)
      BY <1>6, <2>8 DEF ChunkTurn
    <3>3. Chunked(ps, cs)
      <4>1. Len(ps) \in k * BatchSize .. (k + 1) * BatchSize - 1
        BY <1>2, <1>3, <2>1, <2>5, <3>1
      <4> QED
        BY <2>5, <2>6, <4>1 DEF Chunked
    <3>4. M = ValuesOf(SubSeq(ps, k * BatchSize + 1, Len(ps)))
      BY <2>3, <2>5
    <3> HIDE DEF M, ps, cs, os
    <3>5. Behind("chunk", zs, M, ys)
      BY <2>4, <3>3, <3>4, ChunkBehind DEF cs
    <3> QED
      BY <1>4, <3>2, <3>5, TurnSkips
  <2> QED
    BY <2>7, <2>8
<1> QED
  BY <1>5, <1>6

-----------------------------------------------------------------------------

Windowed(os, cs) ==
  /\ Len(cs) = (Len(os) + 1) - Least(BatchSize, Len(os) + 1)
  /\ \A j \in 1..Len(cs) : cs[j] = Together(os, j, j + BatchSize - 1)

WindowStart(n) == (n + 1) - Least(BatchSize - 1, n)

\* How many windows there are, and where the next one starts.
LEMMA WindowNumbers ==
  ASSUME NEW n \in Nat
  PROVE  /\ WindowStart(n) \in 1 .. n + 1 /\ n - WindowStart(n) + 1 = Least(BatchSize - 1, n)
         /\ n >= BatchSize - 1 => /\ Least(BatchSize - 1, n) = BatchSize - 1
                             /\ WindowStart(n) = n - BatchSize + 2 /\ WindowStart(n + 1) = n - BatchSize + 3
                             /\ (n + 1) - Least(BatchSize, n + 1) = n + 1 - BatchSize
                             /\ ((n + 1) + 1) - Least(BatchSize, (n + 1) + 1) = n + 2 - BatchSize
         /\ n < BatchSize - 1 => /\ Least(BatchSize - 1, n) = n
                            /\ WindowStart(n) = 1 /\ WindowStart(n + 1) = 1
                            /\ (n + 1) - Least(BatchSize, n + 1) = 0
                            /\ ((n + 1) + 1) - Least(BatchSize, (n + 1) + 1) = 0
<1>1. BatchSize \in Nat \ {0}
  BY SizeType
<1>2. CASE n < BatchSize - 1
  <2>1. Least(BatchSize - 1, n) = n /\ Least(BatchSize, n + 1) = n + 1
    BY <1>1, <1>2 DEF Least
  <2>2. Least(BatchSize - 1, n + 1) = n + 1 /\ Least(BatchSize, (n + 1) + 1) = (n + 1) + 1
    BY <1>1, <1>2 DEF Least
  <2> QED
    BY <1>1, <1>2, <2>1, <2>2 DEF WindowStart
<1>3. CASE n >= BatchSize - 1
  <2>1. Least(BatchSize - 1, n) = BatchSize - 1 /\ Least(BatchSize, n + 1) = BatchSize
    BY <1>1, <1>3 DEF Least
  <2>2. Least(BatchSize - 1, n + 1) = BatchSize - 1 /\ Least(BatchSize, (n + 1) + 1) = BatchSize
    BY <1>1, <1>3 DEF Least
  <2> QED
    BY <1>1, <1>3, <2>1, <2>2 DEF WindowStart
<1> QED
  BY <1>1, <1>2, <1>3

\* A window loop that is behind, in those words.
LEMMA WindowBehind ==
  ASSUME NEW xs, NEW ys, NEW m
  PROVE  Behind("window", xs, m, ys) <=>
           /\ Errs(ys) = Errs(xs) /\ Windowed(Oks(xs), Oks(ys))
           /\ m = ValuesOf(SubSeq(Oks(xs), WindowStart(Len(Oks(xs))), Len(Oks(xs))))
BY DEF Behind, Promised, Remembers, Windowed, WindowStart

\* The tail of the values is the values of the tail.
LEMMA TailInside ==
  ASSUME NEW s \in Seq(Element), s # <<>>
  PROVE  Tail(ValuesOf(s)) = ValuesOf(Tail(s))
<1>1. /\ Tail(s) \in Seq(Element) /\ Len(Tail(s)) = Len(s) - 1 /\ Len(s) \in Nat \ {0}
      /\ \A i \in 1 .. Len(s) - 1 : Tail(s)[i] = s[i + 1]
  BY TailElements, Zenon
<1>2. /\ ValuesOf(s) \in Seq(Seq(Int)) /\ Len(ValuesOf(s)) = Len(s)
      /\ ValuesOf(Tail(s)) \in Seq(Seq(Int)) /\ Len(ValuesOf(Tail(s))) = Len(s) - 1
  <2>1. ValuesOf(s) \in Seq(Seq(Int)) /\ Len(ValuesOf(s)) = Len(s)
    BY InsideType, Zenon
  <2>2. ValuesOf(Tail(s)) \in Seq(Seq(Int)) /\ Len(ValuesOf(Tail(s))) = Len(Tail(s))
    BY <1>1, InsideType, Zenon
  <2> QED
    BY <1>1, <2>1, <2>2, Zenon
<1>3. /\ \A i \in 1 .. Len(s) : ValuesOf(s)[i] = s[i].v
      /\ \A i \in 1 .. Len(s) - 1 : ValuesOf(Tail(s))[i] = s[i + 1].v
  <2>1. \A i \in 1 .. Len(s) : ValuesOf(s)[i] = s[i].v
    BY DEF ValuesOf
  <2>2. \A i \in 1 .. Len(s) - 1 : ValuesOf(Tail(s))[i] = Tail(s)[i].v
    BY <1>1 DEF ValuesOf
  <2> QED
    BY <1>1, <2>1, <2>2
<1> DEFINE u == ValuesOf(s)
           w == ValuesOf(Tail(s))
           V == Seq(Int)
<1> HIDE DEF u, w, V
<1>4. u \in Seq(V) /\ u # <<>> /\ Len(u) = Len(s) /\ w \in Seq(V) /\ Len(w) = Len(s) - 1
  <2>1. Len(u) \in Nat \ {0}
    BY <1>1, <1>2 DEF u
  <2>2. u # <<>>
    BY <2>1, EmptySeq
  <2> QED
    BY <1>2, <2>2 DEF u, w, V
<1>5. Tail(u) \in Seq(V) /\ Len(Tail(u)) = Len(s) - 1 /\ \A i \in 1 .. Len(s) - 1 : Tail(u)[i] = u[i + 1]
  BY <1>4
<1>6. \A i \in 1 .. Len(s) - 1 : Tail(u)[i] = w[i]
  BY <1>1, <1>3, <1>5 DEF u, w
<1>7. Tail(u) = w
  BY <1>4, <1>5, <1>6, SeqEqual
<1> QED
  BY <1>7 DEF u, w

\* The windows there were, with one more Ok.
LEMMA WindowsStay ==
  ASSUME NEW os \in Seq(Element), NEW cs \in Seq(Element), NEW r \in Element, Windowed(os, cs),
         NEW j \in 1..Len(cs)
  PROVE  cs[j] = Together(Append(os, r), j, j + BatchSize - 1)
<1> DEFINE n == Len(os)
<1>1. n \in Nat /\ BatchSize \in Nat \ {0} /\ j \in Nat \ {0} /\ j <= Len(cs)
  BY SizeType
<1>2. Len(cs) = (n + 1) - Least(BatchSize, n + 1) /\ cs[j] = Together(os, j, j + BatchSize - 1)
  BY DEF Windowed
<1>3. j + BatchSize - 1 \in Int /\ j + BatchSize - 1 <= n
  BY <1>1, <1>2 DEF Least
<1> QED
  BY <1>1, <1>2, <1>3, TogetherAppend

\* window.
LEMMA WindowKeeps ==
  ASSUME NEW xs \in Seq(Element), NEW ys \in Seq(Element), NEW m, NEW r \in Element,
         Behind("window", xs, m, ys)
  PROVE  TurnKeeps("window", xs, m, ys, r)
<1> DEFINE os == Oks(xs)
           cs == Oks(ys)
           zs == Append(xs, r)
           n == Len(os)
           k == Len(cs)
           a == WindowStart(n)
<1>1. Errs(ys) = Errs(xs) /\ Windowed(os, cs) /\ m = ValuesOf(SubSeq(os, a, n))
  BY WindowBehind
<1>2. os \in Seq(Element) /\ cs \in Seq(Element) /\ n \in Nat /\ k \in Nat
  BY OksType
<1>3. BatchSize \in Nat \ {0} /\ (Amount # 0 => BatchSize = Amount) /\ (Amount = 0 => BatchSize = 1) /\ Amount \in Nat
  BY SizeType
<1>4. Step("window", m, r) = WindowTurn(m, r)
  BY DEF Step
<1>5. CASE ~r.ok
  <2>1. WindowTurn(m, r) = Yield(m, r)
    BY <1>5 DEF WindowTurn
  <2>2. Oks(zs) = os /\ Oks(Append(ys, r)) = cs /\ Errs(Append(ys, r)) = Errs(zs)
    BY <1>1, <1>5, ErrPasses
  <2> HIDE DEF os, cs, zs
  <2>3. Behind("window", zs, m, Append(ys, r))
    BY <1>1, <2>2, WindowBehind
  <2> QED
    BY <1>4, <2>1, <2>3, TurnYields DEF zs
<1>6. CASE r.ok
  <2> DEFINE ps == Append(os, r)
             M == Append(m, r.v)
             x == Okay(FlattenSeq(M))
  <2>1. k = (n + 1) - Least(BatchSize, n + 1) /\ a = (n + 1) - Least(BatchSize - 1, n)
    BY <1>1 DEF Windowed, WindowStart
  <2>2. a \in 1 .. Len(os) + 1 /\ n - a + 1 = Least(BatchSize - 1, n)
    BY <1>2, WindowNumbers
  <2>3. /\ m \in Seq(Seq(Int)) /\ Len(m) = n - a + 1
        /\ M = ValuesOf(SubSeq(ps, a, n + 1))
        /\ x = Together(ps, a, n + 1) /\ x \in OkElement
    <3> HIDE DEF os, a
    <3> QED
      BY <1>1, <1>2, <1>6, <2>2, InsideLast
  <2>4. /\ Oks(zs) = ps /\ Oks(Append(ys, x)) = Append(cs, x)
        /\ Errs(Append(ys, x)) = Errs(zs) /\ Errs(ys) = Errs(zs)
    <3> HIDE DEF x
    <3> QED
      BY <1>1, <1>6, <2>3, OkAdded
  <2>5. Len(ps) = n + 1 /\ ps \in Seq(Element)
    BY <1>2
  <2>6. \A j \in 1 .. k : cs[j] = Together(ps, j, j + BatchSize - 1)
    <3> HIDE DEF os, cs
    <3> QED
      BY <1>1, <1>2, WindowsStay
  <2> HIDE DEF a
  <2>7. CASE Len(m) + 1 >= Amount
    <3>1. n + 1 >= BatchSize /\ a = n - BatchSize + 2 /\ k + 1 = a /\ WindowStart(n + 1) = a + 1
      <4>1. n >= BatchSize - 1
        <5>1. Least(BatchSize - 1, n) + 1 >= Amount
          BY <2>2, <2>3, <2>7
        <5>2. n < BatchSize - 1 => Least(BatchSize - 1, n) = n
          BY <1>2, WindowNumbers
        <5> HIDE DEF n
        <5> QED
          BY <1>2, <1>3, <5>1, <5>2
      <4>2. a = n - BatchSize + 2 /\ WindowStart(n + 1) = n - BatchSize + 3 /\ k = n + 1 - BatchSize
        BY <1>2, <2>1, <4>1, WindowNumbers DEF a
      <4> HIDE DEF n
      <4> QED
        BY <1>2, <1>3, <4>1, <4>2
    <3>2. WindowTurn(m, r) = Yield(Tail(M), x)
      BY <1>6, <2>7 DEF WindowTurn
    <3> DEFINE us == Append(cs, x)
    <3>3. us \in Seq(Element) /\ Len(us) = k + 1 /\ us[k + 1] = x /\ \A j \in 1 .. k : us[j] = cs[j]
      <4>1. x \in Element
        BY <2>3 DEF OkElement
      <4> HIDE DEF x
      <4> QED
        BY <1>2, <4>1
    <3> HIDE DEF us, x, ps, cs, os, M
    <3>4. us[k + 1] = Together(ps, k + 1, (k + 1) + BatchSize - 1)
      <4>1. (k + 1) + BatchSize - 1 = n + 1
        BY <1>2, <1>3, <3>1
      <4> QED
        BY <2>3, <3>1, <3>3, <4>1
    <3>5. Len(us) = (Len(ps) + 1) - Least(BatchSize, Len(ps) + 1)
      <4>1. n >= BatchSize - 1
        BY <1>2, <1>3, <3>1
      <4>2. ((n + 1) + 1) - Least(BatchSize, (n + 1) + 1) = n + 2 - BatchSize
        BY <1>2, <4>1, WindowNumbers
      <4> HIDE DEF n
      <4> QED
        BY <1>2, <1>3, <2>5, <3>1, <3>3, <4>2
    <3>6. Windowed(ps, us)
      <4>1. ASSUME NEW j \in 1 .. k + 1 PROVE us[j] = Together(ps, j, j + BatchSize - 1)
        <5>1. j = k + 1 \/ j \in 1 .. k
          BY <1>2
        <5> QED
          BY <2>6, <3>3, <3>4, <5>1
      <4> QED
        BY <3>3, <3>5, <4>1 DEF Windowed
    <3>7. Tail(M) = ValuesOf(SubSeq(ps, WindowStart(Len(ps)), Len(ps)))
      <4>1. a \in 1 .. Len(ps) /\ n + 1 \in a .. Len(ps)
        BY <1>2, <1>3, <2>2, <2>5, <3>1 DEF n
      <4>2. Tail(SubSeq(ps, a, n + 1)) = SubSeq(ps, a + 1, n + 1)
        BY <2>5, <4>1, HeadTailOfSubSeq
      <4>3. SubSeq(ps, a, n + 1) \in Seq(Element) /\ SubSeq(ps, a, n + 1) # <<>>
        <5>1. a \in Nat \ {0} /\ n + 1 \in Int /\ n + 1 <= Len(ps) /\ a <= n + 1
          BY <1>2, <2>5, <4>1
        <5>2. SubSeq(ps, a, n + 1) \in Seq(Element) /\ Len(SubSeq(ps, a, n + 1)) = (n + 1) - a + 1
          BY <2>5, <5>1, PartType
        <5> DEFINE w == SubSeq(ps, a, n + 1)
                   b == n + 1
        <5>3. b \in Int /\ a \in Nat /\ a <= b /\ Len(w) = b - a + 1 /\ w \in Seq(Element)
          BY <5>1, <5>2
        <5> HIDE DEF w, n, b, a
        <5>4. Len(w) # 0
          BY <5>3
        <5>5. w # <<>>
          BY <5>4
        <5> QED
          BY <5>3, <5>5 DEF w, b
      <4>4. Tail(M) = ValuesOf(Tail(SubSeq(ps, a, n + 1)))
        BY <2>3, <4>3, TailInside
      <4> QED
        BY <2>5, <3>1, <4>2, <4>4
    <3>8. Behind("window", zs, Tail(M), Append(ys, x))
      BY <2>4, <3>6, <3>7, WindowBehind DEF us
    <3>9. x \in Element
      BY <2>3 DEF OkElement
    <3> QED
      BY <1>4, <3>2, <3>8, <3>9, TurnYields
  <2>8. CASE ~(Len(m) + 1 >= Amount)
    <3>1. n + 1 < BatchSize /\ a = 1 /\ k = 0 /\ WindowStart(n + 1) = 1
      <4>1. n < BatchSize - 1
        <5>1. ~(Least(BatchSize - 1, n) + 1 >= Amount)
          BY <2>2, <2>3, <2>8
        <5>2. n >= BatchSize - 1 => Least(BatchSize - 1, n) = BatchSize - 1
          BY <1>2, WindowNumbers
        <5> HIDE DEF n
        <5> QED
          BY <1>2, <1>3, <5>1, <5>2
      <4> QED
        BY <1>2, <1>3, <2>1, <4>1, WindowNumbers DEF a
    <3>2. WindowTurn(m, r) = Skip(M)
      BY <1>6, <2>8 DEF WindowTurn
    <3>3. Windowed(ps, cs)
      <4>1. Len(cs) = (Len(ps) + 1) - Least(BatchSize, Len(ps) + 1)
        <5>1. n < BatchSize - 1
          BY <1>2, <1>3, <3>1
        <5>2. ((n + 1) + 1) - Least(BatchSize, (n + 1) + 1) = 0
          BY <1>2, <5>1, WindowNumbers
        <5> QED
          BY <2>5, <3>1, <5>2
      <4> QED
        BY <2>6, <4>1 DEF Windowed
    <3>4. M = ValuesOf(SubSeq(ps, WindowStart(Len(ps)), Len(ps)))
      BY <2>3, <2>5, <3>1
    <3> HIDE DEF M, ps, cs, os
    <3>5. Behind("window", zs, M, ys)
      BY <2>4, <3>3, <3>4, WindowBehind DEF cs
    <3> QED
      BY <1>4, <3>2, <3>5, TurnSkips
  <2> QED
    BY <2>7, <2>8
<1> QED
  BY <1>5, <1>6

Named == {"map", "flatMap", "filter", "take", "drop", "takeWhile", "chunk", "window", "scan",
          "distinct", "throttle", "zip"}

\* mapErr, tap, concat before its other stream, and no operator at all.
LEMMA OtherKeeps ==
  ASSUME NEW op, op \notin Named, NEW xs \in Seq(Element), NEW ys \in Seq(Element), NEW m,
         NEW r \in Element, Behind(op, xs, m, ys)
  PROVE  TurnKeeps(op, xs, m, ys, r)
<1>1. Step(op, m, r) = Yield(m, r)
  BY DEF Step, Named, MapErrTurn
<1>2. \A us, vs : Behind(op, us, m, vs) <=> vs = us
  BY DEF Behind, Promised, Remembers, Named
<1>3. Behind(op, Append(xs, r), m, Append(ys, r))
  BY <1>2
<1> QED
  BY <1>1, <1>3, TurnYields

\* A turn of any loop.
LEMMA LoopKeeps ==
  ASSUME NEW op, NEW xs \in Seq(Element), NEW ys \in Seq(Element), NEW m, NEW r \in Element,
         Behind(op, xs, m, ys), op = "throttle" => drawn = Len(xs)
  PROVE  TurnKeeps(op, xs, m, ys, r)
BY MapKeeps, FlatMapKeeps, FilterKeeps, TakeKeeps, DropKeeps, TakeWhileKeeps, ChunkKeeps, WindowKeeps,
   ScanKeeps, DistinctKeeps, ThrottleKeeps, ZipKeeps, OtherKeeps, Zenon DEF Named

\* Before its first turn a loop is behind nothing.
LEMMA LoopStarts ==
  ASSUME NEW op
  PROVE  Behind(op, <<>>, Locals(op), <<>>)
<1>1. Oks(<<>>) = <<>> /\ Errs(<<>>) = <<>> /\ Len(<<>>) = 0 /\ DOMAIN <<>> = {} /\ <<>> \in Seq(Element)
  BY OksEmpty
<1>2. BatchSize \in Nat \ {0} /\ Amount \in Nat
  BY SizeType
<1>3. \A S : Picked(<<>>, S) = <<>>
  BY PickedEmpty
<1>4. ValuesOf(<<>>) = <<>> /\ FlattenSeq(<<>>) = <<>> /\ IsPrefix(<<>>, <<>>)
  BY <1>1, InsideEmpty, FlattenEmpty, PrefixItself
<1>5. CASE op \in {"map", "flatMap", "filter", "scan"}
  <2>1. [i \in DOMAIN <<>> |-> IF <<>>[i].ok THEN Okay(Mapped(<<>>[i].v)) ELSE <<>>[i]] = <<>>
    OBVIOUS
  <2>2. [i \in DOMAIN <<>> |-> IF <<>>[i].ok THEN SubStream(<<>>[i].v) ELSE <<<<>>[i]>>] = <<>>
    OBVIOUS
  <2>3. [i \in DOMAIN <<>> |-> IF <<>>[i].ok THEN Okay(FlattenSeq(ValuesOf(Oks(SubSeq(<<>>, 1, i)))))
                                            ELSE <<>>[i]] = <<>>
    OBVIOUS
  <2>4. CASE op = "map"
    BY <2>1, <2>4 DEF Behind, Promised, Remembers
  <2>5. CASE op = "flatMap"
    BY <1>4, <2>2, <2>5 DEF Behind, Promised, Remembers
  <2>6. CASE op = "filter"
    BY <1>3, <2>6 DEF Behind, Promised, Remembers
  <2>7. CASE op = "scan"
    BY <1>1, <1>4, <2>3, <2>7 DEF Behind, Promised, Remembers, Locals
  <2> QED
    BY <1>5, <2>4, <2>5, <2>6, <2>7
<1>6. CASE op = "take"
  <2>1. Least(Amount, 0) = 0
    BY <1>2 DEF Least
  <2> QED
    BY <1>1, <1>4, <1>6, <2>1 DEF Behind, Promised, Remembers, Locals
<1>7. CASE op = "drop"
  <2>1. Least(Amount, 0) = 0
    BY <1>2 DEF Least
  <2> QED
    BY <1>1, <1>3, <1>7, <2>1 DEF Behind, Promised, Remembers, Locals
<1>8. CASE op = "takeWhile"
  BY <1>1, <1>4, <1>8 DEF Behind, Promised, Remembers
<1>9. CASE op = "chunk"
  <2>1. Chunked(<<>>, <<>>)
    <3>1. 0 \in 0 * BatchSize .. (0 + 1) * BatchSize - 1
      BY <1>2
    <3> QED
      BY <1>1, <3>1 DEF Chunked
  <2>2. SubSeq(<<>>, 0 * BatchSize + 1, 0) = <<>>
    <3>1. 0 * BatchSize + 1 = 1
      BY <1>2
    <3> QED
      BY <3>1, SubSeqEmpty
  <2>3. Behind("chunk", <<>>, <<>>, <<>>)
    <3>1. ValuesOf(SubSeq(<<>>, 0 * BatchSize + 1, 0)) = <<>>
      BY <1>4, <2>2
    <3>2. /\ Errs(<<>>) = Errs(<<>>) /\ Chunked(Oks(<<>>), Oks(<<>>))
          /\ <<>> = ValuesOf(SubSeq(Oks(<<>>), Len(Oks(<<>>)) * BatchSize + 1, Len(Oks(<<>>))))
      BY <1>1, <2>1, <3>1
    <3> QED
      BY <3>2, ChunkBehind, Zenon
  <2> QED
    BY <1>9, <2>3 DEF Locals
<1>10. CASE op = "window"
  <2>1. Least(BatchSize, 1) = 1 /\ WindowStart(0) = 1
    BY <1>2 DEF Least, WindowStart
  <2>2. Windowed(<<>>, <<>>)
    BY <1>1, <2>1 DEF Windowed
  <2>3. SubSeq(<<>>, WindowStart(0), 0) = <<>>
    BY <2>1, SubSeqEmpty
  <2>4. Behind("window", <<>>, <<>>, <<>>)
    <3>1. ValuesOf(SubSeq(<<>>, WindowStart(0), 0)) = <<>>
      BY <1>4, <2>3
    <3>2. /\ Errs(<<>>) = Errs(<<>>) /\ Windowed(Oks(<<>>), Oks(<<>>))
          /\ <<>> = ValuesOf(SubSeq(Oks(<<>>), WindowStart(Len(Oks(<<>>))), Len(Oks(<<>>))))
      BY <1>1, <2>2, <3>1
    <3> QED
      BY <3>2, WindowBehind, Zenon
  <2> QED
    BY <1>10, <2>4 DEF Locals
<1>11. CASE op = "distinct"
  BY <1>1, <1>3, <1>11 DEF Behind, Promised, Remembers, Locals
<1>12. CASE op = "throttle"
  <2>1. Spaced(<<>>, {}) /\ {} \in SUBSET (1 .. Len(<<>>))
    BY <1>1 DEF Spaced
  <2> QED
    BY <1>3, <1>12, <2>1 DEF Behind, Promised, Remembers, Locals
<1>13. CASE op = "zip"
  <2>1. Least(0, Len(Other)) = 0
    BY DEF Least, Other
  <2> QED
    BY <1>1, <1>13, <2>1 DEF Behind, Promised, Remembers, Locals
<1>14. CASE op \notin Named
  BY <1>14 DEF Behind, Promised, Remembers, Named
<1> QED
  BY <1>5, <1>6, <1>7, <1>8, <1>9, <1>10, <1>11, <1>12, <1>13, <1>14, Zenon DEF Named

\* At the end of what it reads a loop has kept its promise, with its rest.
LEMMA LoopEnded ==
  ASSUME NEW op, NEW xs \in Seq(Element), NEW ys \in Seq(Element), NEW m, Behind(op, xs, m, ys)
  PROVE  /\ Rest(op, m) \in Seq(Element)
         /\ Promised(op, xs, ys \o Rest(op, m), TRUE)
<1>0. ys \o <<>> = ys /\ <<>> \in Seq(Element)
  BY ConcatEmptySeq, EmptySeq
<1>1. CASE op = "concat"
  <2>1. ys = xs /\ Rest(op, m) = Other
    BY <1>1 DEF Behind, Promised, Rest
  <2>2. Other \in Seq(Element)
    <3>1. <<7>> \in Values
      BY DEF Values
    <3>2. Okay(<<7>>) \in Element
      BY <3>1, ElementFacts DEF OkElement
    <3> QED
      BY <3>2, FailureType DEF Other
  <2> QED
    BY <1>1, <2>1, <2>2 DEF Promised
<1>2. CASE op = "chunk"
  <2> DEFINE os == Oks(xs)
             cs == Oks(ys)
             n == Len(os)
             k == Len(cs)
             d == k * BatchSize
             x == Okay(FlattenSeq(m))
  <2>1. Errs(ys) = Errs(xs) /\ Chunked(os, cs) /\ m = ValuesOf(SubSeq(os, d + 1, n))
    BY <1>2, ChunkBehind
  <2>2. os \in Seq(Element) /\ os \in Seq(OkElement) /\ cs \in Seq(Element) /\ n \in Nat /\ k \in Nat
    BY OksType
  <2>3. BatchSize \in Nat \ {0}
    BY SizeType
  <2>4. d \in Nat /\ d <= n /\ n < d + BatchSize /\ (k + 1) * BatchSize = d + BatchSize /\ (k - 1) * BatchSize = d - BatchSize
    <3>1. d >= 0 /\ d \in Int
      BY <2>2, <2>3, TimesMonotone
    <3>2. (k + 1) * BatchSize = d + BatchSize /\ (k - 1) * BatchSize = d - BatchSize
      BY <2>2, <2>3
    <3>3. n \in d .. (k + 1) * BatchSize - 1
      BY <2>1 DEF Chunked
    <3> QED
      BY <2>2, <2>3, <3>1, <3>2, <3>3
  <2>5. \A j \in 1 .. k : cs[j] = Together(os, (j - 1) * BatchSize + 1, Least(j * BatchSize, n))
    BY <2>1 DEF Chunked
  <2>6. CASE n = d
    <3>1. m = <<>>
      <4>1. SubSeq(os, d + 1, n) = <<>>
        BY <2>2, <2>4, <2>6, SubSeqEmpty
      <4> QED
        BY <2>1, <4>1, InsideEmpty
    <3>2. Rest(op, m) = <<>>
      BY <1>2, <3>1 DEF Rest
    <3>3. n \in (k - 1) * BatchSize + 1 .. k * BatchSize
      BY <2>2, <2>3, <2>4, <2>6
    <3>4. Promised("chunk", xs, ys, TRUE)
      BY <2>1, <2>5, <3>3 DEF Promised
    <3> QED
      BY <1>0, <1>2, <3>2, <3>4
  <2>7. CASE n # d
    <3> DEFINE r == os[n]
               q == SubSeq(os, 1, n - 1)
    <3>1. n \in Nat \ {0} /\ r \in OkElement /\ r \in Element /\ r.ok
      BY <2>2, <2>4, <2>7 DEF OkElement
    <3>2. q \in Seq(Element) /\ Len(q) = n - 1 /\ os = Append(q, r)
      <4>0. 1 \in Nat \ {0} /\ n - 1 \in Int /\ n - 1 <= Len(os)
        BY <2>2
      <4>1. /\ q \in Seq(Element) /\ Len(q) = (IF 1 <= n - 1 THEN (n - 1) - 1 + 1 ELSE 0)
            /\ \A i \in 1 .. (n - 1) - 1 + 1 : q[i] = os[1 + i - 1]
        BY <2>2, <4>0, PartType
      <4>2. Len(q) = n - 1 /\ \A i \in 1 .. n - 1 : q[i] = os[i]
        <5> HIDE DEF q, os, n
        <5>1. Len(q) = n - 1
          BY <3>1, <4>1
        <5>2. \A i \in 1 .. n - 1 : i \in 1 .. (n - 1) - 1 + 1 /\ 1 + i - 1 = i
          BY <3>1
        <5> QED
          BY <4>1, <5>1, <5>2
      <4> HIDE DEF q
      <4>3. /\ Append(q, r) \in Seq(Element) /\ Len(Append(q, r)) = n /\ Append(q, r)[n] = r
            /\ \A i \in 1 .. n - 1 : Append(q, r)[i] = os[i]
        BY <3>1, <4>1, <4>2
      <4>4. os = Append(q, r)
        <5>1. \A i \in 1 .. n : Append(q, r)[i] = os[i]
          BY <3>1, <4>3
        <5> HIDE DEF os, r
        <5> QED
          BY <2>2, <4>3, <5>1, SeqEqual DEF n
      <4> QED
        BY <4>1, <4>2, <4>4
    <3> DEFINE p == ValuesOf(SubSeq(q, d + 1, Len(q)))
    <3>3. m = Append(p, r.v) /\ x = Together(os, d + 1, n) /\ x \in OkElement
      <4>1. d + 1 \in 1 .. Len(q) + 1 /\ Len(q) + 1 = n
        BY <2>2, <2>4, <2>7, <3>2
      <4> HIDE DEF q, r, d, n, os
      <4>2. /\ Append(p, r.v) = ValuesOf(SubSeq(os, d + 1, n))
            /\ Okay(FlattenSeq(Append(p, r.v))) = Together(os, d + 1, n)
            /\ Okay(FlattenSeq(Append(p, r.v))) \in OkElement
        BY <3>1, <3>2, <4>1, InsideLast
      <4> QED
        BY <2>1, <4>2
    <3>4. Rest(op, m) = <<x>>
      <4>1. m # <<>>
        <5>1. p \in Seq(Seq(Int))
          <6>1. d + 1 \in 1 .. Len(q) + 1
            BY <2>2, <2>4, <2>7, <3>2
          <6> HIDE DEF q, r, d
          <6> QED
            BY <3>1, <3>2, <6>1, InsideLast
        <5> HIDE DEF p
        <5>2. r.v \in Seq(Int)
          BY <3>1, ElementFacts
        <5> HIDE DEF r
        <5>3. Len(Append(p, r.v)) # 0
          BY <5>1, <5>2
        <5> QED
          BY <3>3, <5>3
      <4> QED
        BY <1>2, <4>1 DEF Rest
    <3>5. x \in Element /\ x.ok
      BY <3>3 DEF OkElement
    <3> HIDE DEF x, os, cs
    <3>6. Oks(Append(ys, x)) = Append(cs, x) /\ Errs(Append(ys, x)) = Errs(ys)
      BY <3>5, OksAppend, ErrsAppend DEF cs
    <3> DEFINE us == Append(cs, x)
    <3>7. Len(us) = k + 1 /\ us[k + 1] = x /\ \A j \in 1 .. k : us[j] = cs[j]
      BY <2>2, <3>5
    <3> HIDE DEF us
    <3>8. \A j \in 1 .. k + 1 : us[j] = Together(os, (j - 1) * BatchSize + 1, Least(j * BatchSize, n))
      <4> SUFFICES ASSUME NEW j \in 1 .. k + 1
                   PROVE  us[j] = Together(os, (j - 1) * BatchSize + 1, Least(j * BatchSize, n))
        OBVIOUS
      <4>1. CASE j = k + 1
        <5>1. (k + 1) - 1 = k /\ Least((k + 1) * BatchSize, n) = n
          BY <2>2, <2>3, <2>4 DEF Least
        <5> QED
          BY <3>3, <3>7, <4>1, <5>1
      <4>2. CASE j \in 1 .. k
        BY <2>5, <3>7, <4>2
      <4> QED
        BY <2>2, <4>1, <4>2
    <3>9. n \in ((k + 1) - 1) * BatchSize + 1 .. (k + 1) * BatchSize
      <4>1. (k + 1) - 1 = k
        BY <2>2
      <4> QED
        BY <2>2, <2>3, <2>4, <2>7, <4>1
    <3>10. Promised("chunk", xs, Append(ys, x), TRUE)
      BY <2>1, <3>6, <3>7, <3>8, <3>9 DEF Promised, us, os
    <3>11. ys \o <<x>> = Append(ys, x) /\ <<x>> \in Seq(Element)
      BY <3>5, AppendIsConcat
    <3> QED
      BY <1>2, <3>4, <3>10, <3>11
  <2> QED
    BY <2>6, <2>7
<1>3. CASE op \notin {"concat", "chunk"}
  <2>1. Rest(op, m) = <<>>
    BY <1>3 DEF Rest
  <2>2. Promised(op, xs, ys, TRUE)
    BY <1>3 DEF Behind, Promised
  <2> QED
    BY <1>0, <2>1, <2>2
<1> QED
  BY <1>1, <1>2, <1>3

-----------------------------------------------------------------------------
(* The pipeline of two stages. *)

\* What is left of p \o q without the last Len(q).
LEMMA FrontOfConcat ==
  ASSUME NEW E, NEW p \in Seq(E), NEW q \in Seq(E)
  PROVE  SubSeq(p \o q, 1, Len(p \o q) - Len(q)) = p
<1>1. Len(p \o q) = Len(p) + Len(q) /\ Len(p) \in Nat /\ Len(q) \in Nat /\ p \o q \in Seq(E)
  BY ConcatProperties
<1>2. Len(p \o q) - Len(q) = Len(p)
  BY <1>1
<1>3. SubSeq(p, 1, Len(p)) = p
  BY SubSeqFull
<1>4. SubSeq(p \o q, 1, Len(p)) = SubSeq(p, 1, Len(p))
  <2>1. CASE Len(p) = 0
    BY <2>1, SubSeqEmpty
  <2>2. CASE Len(p) # 0
    <3>1. 1 \in 1 .. Len(p) /\ Len(p) \in 1 .. Len(p)
      BY <1>1, <2>2
    <3> QED
      BY <3>1, SubSeqOfConcat1
  <2> QED
    BY <2>1, <2>2
<1> QED
  BY <1>2, <1>3, <1>4

\* What the second stage has taken is what the first one yielded and does not hold any more.
LEMMA TakenIs ==
  ASSUME NEW p \in Seq(Element), toYield[1] \in Seq(Element), emitted[1] = p \o toYield[1]
  PROVE  Taken = p
BY FrontOfConcat DEF Taken

\* And so after a step.
LEMMA TakenNext ==
  ASSUME NEW p \in Seq(Element), NEW q \in Seq(Element), toYield'[1] = q, emitted'[1] = p \o q
  PROVE  Taken' = p
<1>1. Taken' = SubSeq(emitted'[1], 1, Len(emitted'[1]) - Len(toYield'[1]))
  BY DEF Taken
<1> QED
  BY <1>1, FrontOfConcat

\* It is a sequence of elements.
LEMMA TakenType ==
  ASSUME OperatorsTyped, StagesBehind, ~broken[2]
  PROVE  Taken \in Seq(Element)
<1>1. Len(emitted[1]) - Len(toYield[1]) \in Int /\ Len(emitted[1]) - Len(toYield[1]) <= Len(emitted[1])
  BY DEF OperatorsTyped
<1>2. 1 \in Nat \ {0} /\ emitted[1] \in Seq(Element)
  BY DEF OperatorsTyped
<1> DEFINE e == emitted[1]
           k == Len(emitted[1]) - Len(toYield[1])
<1>3. Taken = SubSeq(e, 1, k)
  BY DEF Taken
<1> HIDE DEF k
<1>4. k \in Int /\ k <= Len(e)
  BY <1>1 DEF k
<1> HIDE DEF e
<1>5. e \in Seq(Element)
  BY <1>2 DEF e
<1> QED
  BY <1>2, <1>3, <1>4, <1>5, PartType

\* And so is what was drawn.
LEMMA DrawnType ==
  ASSUME OperatorsTyped
  PROVE  Drawn \in Seq(Element) /\ Len(Drawn) = drawn
<1>1. supply \in Seq(Element) /\ drawn \in 0 .. Len(supply)
  BY DEF OperatorsTyped
<1>2. 1 \in Nat \ {0} /\ drawn \in Int /\ drawn <= Len(supply)
  BY <1>1
<1>3. Drawn \in Seq(Element) /\ Len(Drawn) = IF 1 <= drawn THEN drawn - 1 + 1 ELSE 0
  BY <1>1, <1>2, PartType DEF Drawn
<1> QED
  BY <1>1, <1>3

\* One more element is drawn.
LEMMA DrawnMore ==
  ASSUME OperatorsTyped, drawn < Len(supply), drawn' = drawn + 1, supply' = supply
  PROVE  supply[drawn + 1] \in Element /\ Drawn' = Append(Drawn, supply[drawn + 1])
<1>1. supply \in Seq(Element) /\ drawn \in 0 .. Len(supply) /\ drawn + 1 \in 1 .. Len(supply)
      /\ 1 \in 1 .. Len(supply) /\ (drawn + 1) - 1 = drawn
  BY DEF OperatorsTyped
<1>2. supply[drawn + 1] \in Element
  BY <1>1
<1>3. SubSeq(supply, 1, drawn + 1) = SubSeq(supply, 1, (drawn + 1) - 1) \o <<supply[drawn + 1]>>
  BY <1>1, SubSeqRecursiveSecond
<1>4. Drawn' = Drawn \o <<supply[drawn + 1]>>
  BY <1>1, <1>3 DEF Drawn
<1>5. Drawn \in Seq(Element)
  BY DrawnType
<1> QED
  BY <1>2, <1>4, <1>5, AppendIsConcat

-----------------------------------------------------------------------------

\* A pipeline starts behind nothing.
LEMMA OperatorsStart == OperatorsInit => OperatorsInv
<1> SUFFICES ASSUME OperatorsInit PROVE OperatorsInv
  OBVIOUS
<1>0. <<>> \in Seq(Element) /\ Len(<<>>) = 0
  BY EmptySeq
<1>1. /\ supply \in Seq(Element) /\ chain[2] \notin {"throttle", "zip"}
      /\ drawn = 0 /\ drawn \in 0 .. Len(supply)
  BY OperatorsAssumption DEF OperatorsInit
<1>2. /\ DOMAIN memory = {1, 2} /\ memory[1] = Locals(chain[1]) /\ memory[2] = Locals(chain[2])
      /\ DOMAIN toYield = 1 .. 2 /\ toYield[1] = <<>> /\ toYield[2] = <<>>
      /\ DOMAIN emitted = 1 .. 2 /\ emitted[1] = <<>> /\ emitted[2] = <<>>
      /\ DOMAIN broken = 1 .. 2 /\ broken[1] = FALSE /\ broken[2] = FALSE
      /\ given = <<>> /\ demanded = FALSE /\ source = "open" /\ outcome = "running"
      /\ acc = StartValue(terminal)
  BY DEF OperatorsInit
<1>3. OperatorsTyped
  BY <1>0, <1>1, <1>2 DEF OperatorsTyped
<1>4. Drawn = <<>>
  BY <1>1, SubSeqEmpty DEF Drawn
<1>5. <<>> \o <<>> = <<>>
  BY <1>0, ConcatEmptySeq
<1>6. Taken = <<>>
  BY <1>0, <1>2, <1>5, TakenIs
<1>7. StagesBehind
  BY <1>0, <1>1, <1>2, <1>4, <1>5, <1>6, LoopStarts DEF StagesBehind
<1>8. EndsTogether
  BY <1>2 DEF EndsTogether
<1>9. acc = IF terminal = "groupBy" THEN Grouped(ValuesOf(Oks(given))) ELSE ValuesOf(Oks(given))
  <2>1. ValuesOf(Oks(given)) = <<>>
    BY <1>2, OksEmpty, InsideEmpty
  <2>2. Grouped(<<>>) = [k \in {} |-> <<>>]
    <3>1. {KeyOf(<<>>[i]) : i \in DOMAIN <<>>} = {}
      OBVIOUS
    <3> QED
      BY <3>1 DEF Grouped
  <2> QED
    BY <1>2, <2>1, <2>2 DEF StartValue
<1>10. Consumed
  BY <1>2, <1>5, <1>9 DEF Consumed
<1> QED
  BY <1>3, <1>7, <1>8, <1>10 DEF OperatorsInv

\* Each step keeps the invariant.
LEMMA AskNextKeeps == ASSUME OperatorsInv, AskNext PROVE OperatorsInv'
<1>1. /\ UNCHANGED <<supply, chain, terminal, drawn, memory, toYield, broken, emitted, given, acc, source, outcome>>
      /\ outcome = "running"
  BY DEF AskNext
<1>2. Drawn' = Drawn /\ Taken' = Taken
  BY <1>1 DEF Drawn, Taken
<1>3. OperatorsTyped'
  BY <1>1 DEF OperatorsInv, OperatorsTyped
<1>4. StagesBehind'
  BY <1>1, <1>2 DEF OperatorsInv, StagesBehind
<1>5. EndsTogether'
  BY <1>1 DEF OperatorsInv, EndsTogether
<1>6. Consumed'
  BY <1>1 DEF OperatorsInv, Consumed
<1> QED
  BY <1>3, <1>4, <1>5, <1>6 DEF OperatorsInv

LEMMA SecondTakesKeeps == ASSUME OperatorsInv, SecondTakes PROVE OperatorsInv'
<1> DEFINE r == Head(toYield[1])
           t == Step(chain[2], memory[2], r)
<1>0. OperatorsTyped /\ StagesBehind /\ EndsTogether /\ Consumed
  BY DEF OperatorsInv
<1>1. /\ demanded /\ toYield[2] = <<>> /\ ~broken[2] /\ toYield[1] # <<>>
      /\ UNCHANGED <<supply, chain, terminal, drawn, demanded, given, acc, outcome>>
      /\ memory' = [memory EXCEPT ![2] = t.mem]
      /\ emitted' = [emitted EXCEPT ![2] = @ \o t.out]
      /\ toYield' = <<IF t.stop THEN <<>> ELSE Tail(toYield[1]), t.out>>
      /\ broken' = <<broken[1] \/ t.stop, t.stop>>
      /\ source' = IF t.stop /\ source = "open" /\ chain[1] # "zip" THEN "returned" ELSE source
  BY DEF SecondTakes, Waits, Puts
<1>2. r \in Element /\ Tail(toYield[1]) \in Seq(Element) /\ Taken \in Seq(Element)
  BY <1>0, <1>1, TakenType, HeadTailProperties DEF OperatorsTyped
<1>3. TurnKeeps(chain[2], Taken, memory[2], emitted[2], r)
  BY <1>0, <1>1, <1>2, LoopKeeps DEF OperatorsTyped, StagesBehind
<1>4. t.out \in Seq(Element) /\ t.stop \in BOOLEAN
  BY <1>3 DEF TurnKeeps
<1>5. /\ emitted'[1] = emitted[1] /\ emitted'[2] = emitted[2] \o t.out /\ DOMAIN emitted' = 1 .. 2
      /\ memory'[1] = memory[1] /\ memory'[2] = t.mem /\ DOMAIN memory' = {1, 2}
  <2> HIDE DEF t, r
  <2>1. DOMAIN emitted = 1 .. 2 /\ DOMAIN memory = {1, 2}
    BY <1>0 DEF OperatorsTyped
  <2> QED
    BY <1>1, <2>1
<1>6. /\ toYield'[2] = t.out /\ toYield'[1] = (IF t.stop THEN <<>> ELSE Tail(toYield[1]))
      /\ DOMAIN toYield' = 1 .. 2 /\ DOMAIN broken' = 1 .. 2
      /\ broken'[1] = (broken[1] \/ t.stop) /\ broken'[2] = t.stop
  BY <1>1
<1> HIDE DEF t, r
<1>7. emitted'[2] \in Seq(Element) /\ toYield'[1] \in Seq(Element)
  BY <1>0, <1>2, <1>4, <1>5, <1>6, ConcatProperties, EmptySeq DEF OperatorsTyped
<1>8. OperatorsTyped'
  BY <1>0, <1>1, <1>4, <1>5, <1>6, <1>7 DEF OperatorsTyped
<1>9. Consumed'
  <2>1. emitted[2] = given
    BY <1>0, <1>1, ConcatEmptySeq DEF Consumed, OperatorsTyped
  <2> QED
    BY <1>0, <1>1, <1>5, <1>6, <2>1 DEF Consumed
<1>10. Drawn' = Drawn
  BY <1>1 DEF Drawn
<1>11. emitted[1] = Taken \o toYield[1]
  BY <1>0, <1>1 DEF StagesBehind
<1>12. Append(Taken, r) \o Tail(toYield[1]) = emitted[1]
  <2> DEFINE q == toYield[1]
             p == Taken
  <2>1. q \in Seq(Element) /\ q # <<>> /\ p \in Seq(Element) /\ r = Head(q)
    BY <1>0, <1>1, <1>2 DEF OperatorsTyped, r
  <2>2. emitted[1] = p \o q
    BY <1>11
  <2> HIDE DEF q, p
  <2>3. Append(p, Head(q)) \o Tail(q) = p \o q
    BY <2>1, ConcatMove
  <2> QED
    BY <2>1, <2>2, <2>3 DEF q, p
<1>13. source' = "exhausted" <=> source = "exhausted"
  BY <1>1
<1>14. CASE ~t.stop
  <2>1. broken'[1] = broken[1] /\ broken'[2] = broken[2] /\ source' = source /\ toYield'[1] = Tail(toYield[1])
    BY <1>0, <1>1, <1>4, <1>6, <1>14 DEF OperatorsTyped
  <2>2. Append(Taken, r) \in Seq(Element)
    BY <1>2
  <2>3. Taken' = Append(Taken, r)
    BY <1>2, <1>5, <1>12, <2>1, <2>2, TakenNext
  <2>4. Behind(chain[2], Append(Taken, r), t.mem, emitted[2] \o t.out)
    BY <1>3, <1>14 DEF TurnKeeps, t
  <2>5. StagesBehind'
    BY <1>0, <1>1, <1>5, <1>10, <1>12, <2>1, <2>3, <2>4 DEF StagesBehind
  <2>6. EndsTogether'
    BY <1>0, <1>1, <2>1 DEF EndsTogether
  <2> QED
    BY <1>8, <1>9, <2>5, <2>6 DEF OperatorsInv
<1>15. CASE t.stop
  <2>1. broken'[1] = TRUE /\ broken'[2] = TRUE
    BY <1>6, <1>15
  <2>2. t.out = <<>> /\ \A ws \in Seq(Element), over \in BOOLEAN :
                           Promised(chain[2], Append(Taken, r) \o ws, emitted[2], over)
    BY <1>3, <1>15 DEF TurnKeeps, t
  <2>3. emitted'[2] = emitted[2]
    BY <1>0, <1>5, <2>2, ConcatEmptySeq DEF OperatorsTyped
  <2>4. Promised(chain[2], emitted[1], emitted[2], TRUE)
    BY <1>2, <1>12, <2>2
  <2>5. Promised(chain[1], Drawn, emitted[1], source = "exhausted")
    <3>1. CASE broken[1]
      BY <1>0, <3>1 DEF StagesBehind
    <3>2. CASE ~broken[1]
      <4>1. (source = "exhausted") = FALSE
        BY <1>0, <3>2 DEF EndsTogether
      <4>2. Promised(chain[1], Drawn, emitted[1], FALSE)
        BY <1>0, <3>2 DEF StagesBehind, Behind
      <4> QED
        BY <4>1, <4>2
    <3> QED
      BY <3>1, <3>2
  <2>6. (source' = "exhausted") = (source = "exhausted")
    BY <1>13
  <2>7. StagesBehind'
    BY <1>0, <1>1, <1>5, <1>10, <2>1, <2>3, <2>4, <2>5, <2>6 DEF StagesBehind
  <2>8. EndsTogether'
    BY <1>0, <1>1, <1>6, <2>1, <2>2 DEF EndsTogether
  <2> QED
    BY <1>8, <1>9, <2>7, <2>8 DEF OperatorsInv
<1> QED
  BY <1>14, <1>15

\* What LoopEnds(i) leaves.
LEMMA LoopEndsIs ==
  ASSUME OperatorsTyped, NEW i \in {1, 2}, LoopEnds(i)
  PROVE  /\ DOMAIN broken' = 1 .. 2 /\ DOMAIN emitted' = 1 .. 2 /\ DOMAIN memory' = {1, 2}
         /\ broken'[i] = TRUE /\ emitted'[i] = emitted[i] \o Rest(chain[i], memory[i])
         /\ memory'[i] = memory[i]
         /\ \A j \in {1, 2} : j # i => broken'[j] = broken[j] /\ emitted'[j] = emitted[j] /\ memory'[j] = memory[j]
<1> DEFINE ws == Rest(chain[i], memory[i])
           k == memory[i]
<1>1. broken' = [broken EXCEPT ![i] = TRUE]
  BY DEF LoopEnds
<1>2. memory' = [memory EXCEPT ![i] = k] /\ emitted' = [emitted EXCEPT ![i] = @ \o ws]
  BY DEF LoopEnds, Puts, Turn
<1>3. DOMAIN memory = {1, 2} /\ DOMAIN broken = 1 .. 2 /\ DOMAIN emitted = 1 .. 2 /\ i \in 1 .. 2
  BY DEF OperatorsTyped
<1> HIDE DEF ws
<1>4. emitted'[i] = emitted[i] \o ws
  BY <1>2, <1>3
<1>5. broken'[i] = TRUE /\ memory'[i] = memory[i]
  BY <1>1, <1>2, <1>3
<1>6. DOMAIN broken' = 1 .. 2 /\ DOMAIN emitted' = 1 .. 2 /\ DOMAIN memory' = {1, 2}
  BY <1>1, <1>2, <1>3
<1>7. ASSUME NEW j \in {1, 2}, j # i
      PROVE  broken'[j] = broken[j] /\ emitted'[j] = emitted[j] /\ memory'[j] = memory[j]
  <2>1. j \in 1 .. 2
    OBVIOUS
  <2> QED
    BY <1>1, <1>2, <1>3, <1>7, <2>1
<1> QED
  BY <1>4, <1>5, <1>6, <1>7 DEF ws

LEMMA SecondEndsKeeps == ASSUME OperatorsInv, SecondEnds PROVE OperatorsInv'
<1> DEFINE ws == Rest(chain[2], memory[2])
<1>0. OperatorsTyped /\ StagesBehind /\ EndsTogether /\ Consumed
  BY DEF OperatorsInv
<1>1. /\ demanded /\ toYield[2] = <<>> /\ ~broken[2] /\ toYield[1] = <<>> /\ broken[1]
      /\ UNCHANGED <<supply, chain, terminal, drawn, demanded, given, acc, source, outcome>>
      /\ LoopEnds(2)
      /\ toYield' = [toYield EXCEPT ![2] = ws]
  BY DEF SecondEnds, Waits
<1>2. /\ DOMAIN broken' = 1 .. 2 /\ DOMAIN emitted' = 1 .. 2 /\ DOMAIN memory' = {1, 2}
      /\ broken'[2] = TRUE /\ emitted'[2] = emitted[2] \o ws
      /\ broken'[1] = broken[1] /\ emitted'[1] = emitted[1] /\ memory'[1] = memory[1]
  BY <1>0, <1>1, LoopEndsIs
<1>3. toYield'[1] = <<>> /\ toYield'[2] = ws /\ DOMAIN toYield' = 1 .. 2
  BY <1>0, <1>1 DEF OperatorsTyped
<1>4. emitted[1] \in Seq(Element) /\ emitted[2] \in Seq(Element) /\ given \in Seq(Element)
  BY <1>0 DEF OperatorsTyped
<1>5. Taken \in Seq(Element)
  BY <1>0, <1>1, TakenType
<1>6. emitted[1] = Taken
  BY <1>0, <1>1, <1>5, ConcatEmptySeq DEF StagesBehind
<1>7. Behind(chain[2], emitted[1], memory[2], emitted[2])
  BY <1>0, <1>1, <1>6 DEF StagesBehind
<1>8. ws \in Seq(Element) /\ Promised(chain[2], emitted[1], emitted[2] \o ws, TRUE)
  BY <1>4, <1>7, LoopEnded
<1> HIDE DEF ws
<1>9. emitted'[2] \in Seq(Element)
  BY <1>2, <1>4, <1>8, ConcatProperties
<1>10. OperatorsTyped'
  BY <1>0, <1>1, <1>2, <1>3, <1>8, <1>9 DEF OperatorsTyped
<1>11. Drawn' = Drawn
  BY <1>1 DEF Drawn
<1>12. StagesBehind'
  BY <1>0, <1>1, <1>2, <1>8, <1>11 DEF StagesBehind
<1>13. EndsTogether'
  BY <1>0, <1>1, <1>2 DEF EndsTogether
<1>14. Consumed'
  <2>1. emitted[2] = given
    BY <1>0, <1>1, <1>4, ConcatEmptySeq DEF Consumed
  <2> QED
    BY <1>0, <1>1, <1>2, <1>3, <2>1 DEF Consumed
<1> QED
  BY <1>10, <1>12, <1>13, <1>14 DEF OperatorsInv

LEMMA FirstDrawsKeeps == ASSUME OperatorsInv, FirstDraws PROVE OperatorsInv'
<1> DEFINE r == supply[drawn + 1]
           t == Step(chain[1], memory[1], r)
<1>0. OperatorsTyped /\ StagesBehind /\ EndsTogether /\ Consumed
  BY DEF OperatorsInv
<1>1. /\ demanded /\ toYield[2] = <<>> /\ ~broken[2] /\ toYield[1] = <<>> /\ ~broken[1]
      /\ drawn < Len(supply) /\ drawn' = drawn + 1
      /\ UNCHANGED <<supply, chain, terminal, demanded, given, acc, outcome>>
      /\ memory' = [memory EXCEPT ![1] = t.mem]
      /\ emitted' = [emitted EXCEPT ![1] = @ \o t.out]
      /\ toYield' = [toYield EXCEPT ![1] = t.out]
      /\ broken' = [broken EXCEPT ![1] = t.stop]
      /\ source' = IF t.stop /\ chain[1] # "zip" THEN "returned" ELSE source
  BY DEF FirstDraws, Waits, Puts
<1>2. r \in Element /\ Drawn' = Append(Drawn, r) /\ Drawn \in Seq(Element) /\ Len(Drawn) = drawn
  BY <1>0, <1>1, DrawnMore, DrawnType
<1>3. emitted[1] \in Seq(Element) /\ emitted[2] \in Seq(Element) /\ given \in Seq(Element)
  BY <1>0 DEF OperatorsTyped
<1>4. Behind(chain[1], Drawn, memory[1], emitted[1])
  BY <1>0, <1>1 DEF StagesBehind
<1>5. TurnKeeps(chain[1], Drawn, memory[1], emitted[1], r)
  BY <1>2, <1>3, <1>4, LoopKeeps
<1>6. t.out \in Seq(Element) /\ t.stop \in BOOLEAN
  BY <1>5 DEF TurnKeeps
<1>7. /\ emitted'[1] = emitted[1] \o t.out /\ emitted'[2] = emitted[2] /\ DOMAIN emitted' = 1 .. 2
      /\ memory'[2] = memory[2] /\ memory'[1] = t.mem /\ DOMAIN memory' = {1, 2}
      /\ toYield'[1] = t.out /\ toYield'[2] = <<>> /\ DOMAIN toYield' = 1 .. 2
      /\ broken'[1] = t.stop /\ broken'[2] = FALSE /\ DOMAIN broken' = 1 .. 2
  <2> HIDE DEF t, r
  <2>1. emitted'[1] = emitted[1] \o t.out /\ emitted'[2] = emitted[2] /\ DOMAIN emitted' = 1 .. 2
    BY <1>0, <1>1 DEF OperatorsTyped
  <2>2. memory'[2] = memory[2] /\ memory'[1] = t.mem /\ DOMAIN memory' = {1, 2}
    BY <1>0, <1>1 DEF OperatorsTyped
  <2>3. toYield'[1] = t.out /\ toYield'[2] = <<>> /\ DOMAIN toYield' = 1 .. 2
    BY <1>0, <1>1 DEF OperatorsTyped
  <2>4. broken'[1] = t.stop /\ broken'[2] = FALSE /\ DOMAIN broken' = 1 .. 2
    BY <1>0, <1>1 DEF OperatorsTyped
  <2> QED
    BY <2>1, <2>2, <2>3, <2>4
<1>8. /\ ~t.stop => Behind(chain[1], Append(Drawn, r), t.mem, emitted[1] \o t.out)
      /\ t.stop => /\ t.out = <<>>
                   /\ \A ws \in Seq(Element), over \in BOOLEAN :
                        Promised(chain[1], Append(Drawn, r) \o ws, emitted[1], over)
  BY <1>5 DEF TurnKeeps
<1> HIDE DEF t, r
<1>9. emitted'[1] \in Seq(Element) /\ drawn' \in 0 .. Len(supply) /\ Append(Drawn, r) \in Seq(Element)
  BY <1>0, <1>1, <1>2, <1>3, <1>6, <1>7, ConcatProperties DEF OperatorsTyped
<1>10. OperatorsTyped'
  BY <1>0, <1>1, <1>6, <1>7, <1>9 DEF OperatorsTyped
<1>11. Taken \in Seq(Element)
  BY <1>0, <1>1, TakenType
<1>12. emitted[1] = Taken
  BY <1>0, <1>1, <1>11, ConcatEmptySeq DEF StagesBehind
<1>13. Taken' = Taken
  BY <1>6, <1>7, <1>11, <1>12, TakenNext
<1>14. StagesBehind'
  <2>1. IF t.stop THEN Promised(chain[1], Append(Drawn, r), emitted'[1], (source = "exhausted")')
                  ELSE Behind(chain[1], Append(Drawn, r), t.mem, emitted'[1])
    <3>1. CASE t.stop
      <4>1. Append(Drawn, r) \o <<>> = Append(Drawn, r) /\ <<>> \in Seq(Element)
        BY <1>9, ConcatEmptySeq, EmptySeq
      <4>2. emitted'[1] = emitted[1]
        BY <1>3, <1>7, <1>8, <3>1, ConcatEmptySeq
      <4>3. \A over \in BOOLEAN : Promised(chain[1], Append(Drawn, r) \o <<>>, emitted[1], over)
        BY <1>8, <3>1, <4>1
      <4>4. (source' = "exhausted") \in BOOLEAN
        OBVIOUS
      <4>5. Promised(chain[1], Append(Drawn, r), emitted'[1], source' = "exhausted")
        BY <4>1, <4>2, <4>3, <4>4
      <4> QED
        BY <3>1, <4>5
    <3>2. CASE ~t.stop
      BY <1>7, <1>8, <3>2
    <3> QED
      BY <3>1, <3>2
  <2>2. emitted'[1] = Taken' \o toYield'[1] /\ Behind(chain[2], Taken', memory[2], emitted[2])
    BY <1>0, <1>1, <1>7, <1>12, <1>13 DEF StagesBehind
  <2>3. chain[1] = "take" => drawn' <= Len(emitted'[1]) + 1
    <3> SUFFICES ASSUME chain[1] = "take" PROVE drawn' <= Len(emitted'[1]) + 1
      OBVIOUS
    <3>1. emitted[1] = Drawn
      BY <1>4 DEF Behind, Remembers
    <3>2. Len(emitted'[1]) = Len(emitted[1]) + Len(t.out) /\ Len(t.out) \in Nat
      BY <1>3, <1>6, <1>7, ConcatProperties
    <3>3. Len(emitted[1]) = drawn
      BY <1>2, <3>1
    <3> QED
      BY <1>0, <1>1, <3>2, <3>3 DEF OperatorsTyped
  <2> QED
    BY <1>1, <1>2, <1>7, <2>1, <2>2, <2>3 DEF StagesBehind
<1>15. EndsTogether'
  <2>1. source # "exhausted" /\ outcome = "running"
    BY <1>0, <1>1 DEF EndsTogether
  <2> QED
    BY <1>0, <1>1, <1>6, <1>7, <2>1 DEF EndsTogether
<1>16. Consumed'
  BY <1>0, <1>1, <1>7 DEF Consumed
<1> QED
  BY <1>10, <1>14, <1>15, <1>16 DEF OperatorsInv

LEMMA SourceExhaustedKeeps == ASSUME OperatorsInv, SourceExhausted PROVE OperatorsInv'
<1> DEFINE ws == Rest(chain[1], memory[1])
<1>0. OperatorsTyped /\ StagesBehind /\ EndsTogether /\ Consumed
  BY DEF OperatorsInv
<1>1. /\ demanded /\ toYield[2] = <<>> /\ ~broken[2] /\ toYield[1] = <<>> /\ ~broken[1]
      /\ UNCHANGED <<supply, chain, terminal, drawn, demanded, given, acc, outcome>>
      /\ LoopEnds(1) /\ source' = "exhausted"
      /\ toYield' = [toYield EXCEPT ![1] = ws]
  BY DEF SourceExhausted, Waits
<1>2. /\ DOMAIN broken' = 1 .. 2 /\ DOMAIN emitted' = 1 .. 2 /\ DOMAIN memory' = {1, 2}
      /\ broken'[1] = TRUE /\ emitted'[1] = emitted[1] \o ws
      /\ broken'[2] = broken[2] /\ emitted'[2] = emitted[2] /\ memory'[2] = memory[2]
  <2> DEFINE i == 1
  <2>1. i \in {1, 2} /\ LoopEnds(i) /\ 2 # i /\ ws = Rest(chain[i], memory[i])
    BY <1>1
  <2> HIDE DEF i, ws
  <2>2. /\ DOMAIN broken' = 1 .. 2 /\ DOMAIN emitted' = 1 .. 2 /\ DOMAIN memory' = {1, 2}
        /\ broken'[i] = TRUE /\ emitted'[i] = emitted[i] \o ws
        /\ broken'[2] = broken[2] /\ emitted'[2] = emitted[2] /\ memory'[2] = memory[2]
    BY <1>0, <2>1, LoopEndsIs
  <2> QED
    BY <2>2 DEF i
<1>3. toYield'[1] = ws /\ toYield'[2] = <<>> /\ DOMAIN toYield' = 1 .. 2
  BY <1>0, <1>1 DEF OperatorsTyped
<1>4. emitted[1] \in Seq(Element) /\ emitted[2] \in Seq(Element) /\ Drawn \in Seq(Element) /\ Len(Drawn) = drawn
  BY <1>0, DrawnType DEF OperatorsTyped
<1>5. Behind(chain[1], Drawn, memory[1], emitted[1])
  BY <1>0, <1>1 DEF StagesBehind
<1>6. ws \in Seq(Element) /\ Promised(chain[1], Drawn, emitted[1] \o ws, TRUE)
  BY <1>4, <1>5, LoopEnded
<1> HIDE DEF ws
<1>7. emitted'[1] \in Seq(Element) /\ Len(emitted'[1]) = Len(emitted[1]) + Len(ws)
  BY <1>2, <1>4, <1>6, ConcatProperties
<1>8. OperatorsTyped'
  <2>1. toYield'[1] \in Seq(Element) /\ toYield'[2] \in Seq(Element)
    BY <1>3, <1>6, EmptySeq
  <2>2. emitted'[2] \in Seq(Element) /\ broken'[1] \in BOOLEAN /\ broken'[2] \in BOOLEAN
    BY <1>0, <1>2 DEF OperatorsTyped
  <2>3. UNCHANGED <<supply, chain, drawn, given>>
    BY <1>1
  <2> QED
    BY <1>0, <1>2, <1>3, <1>7, <2>1, <2>2, <2>3 DEF OperatorsTyped
<1>9. Drawn' = Drawn
  BY <1>1 DEF Drawn
<1>10. Taken \in Seq(Element)
  BY <1>0, <1>1, TakenType
<1>11. emitted[1] = Taken
  BY <1>0, <1>1, <1>10, ConcatEmptySeq DEF StagesBehind
<1>12. Taken' = Taken
  BY <1>2, <1>3, <1>6, <1>10, <1>11, TakenNext
<1>13. StagesBehind'
  <2>1. Behind(chain[2], Taken', memory[2], emitted[2])
    BY <1>0, <1>1, <1>12 DEF StagesBehind
  <2>2. (source = "exhausted")' = TRUE
    BY <1>1
  <2>3. chain[1] = "take" => drawn <= Len(emitted'[1]) + 1
    BY <1>0, <1>4, <1>6, <1>7 DEF StagesBehind, OperatorsTyped
  <2> QED
    BY <1>1, <1>2, <1>3, <1>6, <1>9, <1>11, <1>12, <2>1, <2>2, <2>3 DEF StagesBehind
<1>14. EndsTogether'
  BY <1>0, <1>1, <1>2 DEF EndsTogether
<1>15. Consumed'
  BY <1>0, <1>1, <1>2, <1>3 DEF Consumed
<1> QED
  BY <1>8, <1>13, <1>14, <1>15 DEF OperatorsInv

LEMMA SourceThrowsKeeps == ASSUME OperatorsInv, SourceThrows PROVE OperatorsInv'
<1>0. OperatorsTyped /\ StagesBehind /\ EndsTogether /\ Consumed
  BY DEF OperatorsInv
<1>1. /\ demanded /\ toYield[2] = <<>> /\ ~broken[1]
      /\ source' = "failed" /\ broken' = <<TRUE, TRUE>> /\ demanded' = FALSE /\ outcome' = "thrown"
      /\ UNCHANGED <<supply, chain, terminal, drawn, memory, toYield, emitted, given, acc>>
  BY DEF SourceThrows, Waits
<1>2. broken'[1] = TRUE /\ broken'[2] = TRUE /\ DOMAIN broken' = 1 .. 2 /\ (source = "exhausted")' = FALSE
  BY <1>1
<1>3. Drawn' = Drawn
  BY <1>1 DEF Drawn
<1>4. OperatorsTyped'
  BY <1>0, <1>1, <1>2 DEF OperatorsTyped
<1>5. Promised(chain[1], Drawn, emitted[1], FALSE)
  BY <1>0, <1>1 DEF StagesBehind, Behind
<1>6. StagesBehind'
  BY <1>0, <1>1, <1>2, <1>3, <1>5 DEF StagesBehind
<1>7. EndsTogether'
  BY <1>0, <1>1, <1>2 DEF EndsTogether
<1>8. Consumed'
  BY <1>0, <1>1 DEF Consumed
<1> QED
  BY <1>4, <1>6, <1>7, <1>8 DEF OperatorsInv

\* Nothing is picked by no place.
LEMMA PickedNone ==
  ASSUME NEW E, NEW xs \in Seq(E)
  PROVE  Picked(xs, {}) = <<>>
<1> DEFINE p == Places(xs)
           at == Remaining(p, DOMAIN xs \ {})
<1>1. p \in Seq(Nat) /\ \A i \in 1 .. Len(p) : p[i] \in DOMAIN xs \ {}
  BY DEF Places
<1> HIDE DEF p
<1>2. at = <<>>
  BY <1>1, RemainingNone
<1>3. Picked(xs, {}) = [i \in DOMAIN at |-> xs[at[i]]]
  BY DEF Picked, p, Places
<1> HIDE DEF at
<1> QED
  BY <1>2, <1>3

\* One value more joins its key's.
Joined(g, v) ==
  [k \in DOMAIN g \cup {KeyOf(v)} |->
     IF k # KeyOf(v) THEN g[k] ELSE IF k \in DOMAIN g THEN Append(g[k], v) ELSE <<v>>]

LEMMA GroupedAppend ==
  ASSUME NEW E, NEW vs \in Seq(E), NEW v \in E
  PROVE  Grouped(Append(vs, v)) = Joined(Grouped(vs), v)
<1> DEFINE n == Len(vs)
           zs == Append(vs, v)
           At(ws, k) == {i \in DOMAIN ws : KeyOf(ws[i]) = k}
           Keys(ws) == {KeyOf(ws[i]) : i \in DOMAIN ws}
           g == Grouped(vs)
           h == Joined(g, v)
<1>1. /\ n \in Nat /\ DOMAIN vs = 1 .. n /\ DOMAIN zs = 1 .. n + 1 /\ zs[n + 1] = v
      /\ \A i \in 1 .. n : zs[i] = vs[i]
  OBVIOUS
<1>2. \A ws : Grouped(ws) = [k \in Keys(ws) |-> Picked(ws, At(ws, k))]
  BY DEF Grouped
<1>3. \A k : Picked(zs, At(zs, k)) = IF KeyOf(v) = k THEN Append(Picked(vs, At(vs, k)), v)
                                                      ELSE Picked(vs, At(vs, k))
  <2> TAKE k
  <2> DEFINE S == At(vs, k)
             T == At(zs, k)
  <2>1. \A i \in 1 .. n : i \in T <=> i \in S
    <3> TAKE i \in 1 .. n
    <3>1. i \in 1 .. n + 1
      BY <1>1
    <3> QED
      BY <1>1, <3>1
  <2>2. n + 1 \in T <=> KeyOf(v) = k
    BY <1>1
  <2> HIDE DEF S, T
  <2>3. Picked(zs, T) = IF n + 1 \in T THEN Append(Picked(vs, S), v) ELSE Picked(vs, S)
    BY <2>1, PickedAppend
  <2>4. Picked(zs, T) = IF KeyOf(v) = k THEN Append(Picked(vs, S), v) ELSE Picked(vs, S)
    BY <2>2, <2>3
  <2> QED
    BY <2>4 DEF S, T
<1>4. Keys(zs) = Keys(vs) \cup {KeyOf(v)}
  <2>1. ASSUME NEW k \in Keys(zs) PROVE k \in Keys(vs) \cup {KeyOf(v)}
    <3>1. PICK i \in DOMAIN zs : k = KeyOf(zs[i])
      BY <2>1
    <3>2. i = n + 1 \/ i \in DOMAIN vs
      BY <1>1, <3>1
    <3> QED
      BY <1>1, <3>1, <3>2
  <2>2. ASSUME NEW k \in Keys(vs) PROVE k \in Keys(zs)
    <3>1. PICK i \in DOMAIN vs : k = KeyOf(vs[i])
      BY <2>2
    <3>2. i \in DOMAIN zs /\ zs[i] = vs[i]
      BY <1>1, <3>1
    <3> QED
      BY <3>1, <3>2
  <2>3. KeyOf(v) \in Keys(zs)
    <3>1. n + 1 \in DOMAIN zs
      BY <1>1
    <3> QED
      BY <1>1, <3>1
  <2> HIDE DEF Keys
  <2> QED
    BY <2>1, <2>2, <2>3
<1>5. \A k : k \notin Keys(vs) => Picked(vs, At(vs, k)) = <<>>
  <2> SUFFICES ASSUME NEW k, k \notin Keys(vs) PROVE Picked(vs, At(vs, k)) = <<>>
    OBVIOUS
  <2>1. At(vs, k) = {}
    OBVIOUS
  <2> QED
    BY <2>1, PickedNone
<1>6. Append(<<>>, v) = <<v>>
  OBVIOUS
<1>7. DOMAIN g = Keys(vs) /\ \A k \in Keys(vs) : g[k] = Picked(vs, At(vs, k))
  BY <1>2
<1> HIDE DEF At, Keys, zs, g
<1>8. ASSUME NEW k \in Keys(zs)
      PROVE  Picked(zs, At(zs, k)) = IF k # KeyOf(v) THEN g[k]
                                     ELSE IF k \in DOMAIN g THEN Append(g[k], v) ELSE <<v>>
  <2>1. CASE k # KeyOf(v)
    BY <1>3, <1>4, <1>7, <1>8, <2>1
  <2>2. CASE k = KeyOf(v) /\ k \in Keys(vs)
    <3>1. Picked(zs, At(zs, k)) = Append(Picked(vs, At(vs, k)), v)
      BY <1>3, <2>2
    <3> QED
      BY <1>7, <2>2, <3>1
  <2>3. CASE k = KeyOf(v) /\ k \notin Keys(vs)
    <3>1. Picked(zs, At(zs, k)) = Append(Picked(vs, At(vs, k)), v)
      BY <1>3, <2>3
    <3> QED
      BY <1>5, <1>6, <1>7, <2>3, <3>1
  <2> QED
    BY <2>1, <2>2, <2>3
<1>9. Grouped(zs) = [k \in Keys(zs) |-> Picked(zs, At(zs, k))]
  BY <1>2
<1>10. Grouped(zs) = h
  BY <1>4, <1>7, <1>8, <1>9 DEF Joined
<1> QED
  BY <1>10 DEF zs, g

-----------------------------------------------------------------------------

LEMMA ReceivesKeeps == ASSUME OperatorsInv, Receives PROVE OperatorsInv'
<1> DEFINE q == toYield[2]
           r == Head(q)
<1>0. OperatorsTyped /\ StagesBehind /\ EndsTogether /\ Consumed
  BY DEF OperatorsInv
<1>1. /\ demanded /\ q # <<>> /\ demanded' = FALSE
      /\ given' = Append(given, r)
      /\ acc' = IF r.ok THEN Accumulated(r.v) ELSE acc
      /\ outcome' = IF terminal = "iterate" THEN "running"
                    ELSE IF ~r.ok THEN "err" ELSE IF terminal = "first" THEN "done" ELSE "running"
      /\ toYield' = [toYield EXCEPT ![2] = Tail(@)]
      /\ source' = IF outcome' = "running" THEN source ELSE SourceClosed
      /\ UNCHANGED <<supply, chain, terminal, drawn, memory, broken, emitted>>
  BY DEF Receives
<1>2. q \in Seq(Element) /\ r \in Element /\ Tail(q) \in Seq(Element) /\ given \in Seq(Element)
      /\ Append(given, r) \in Seq(Element)
  BY <1>0, <1>1, HeadTailProperties DEF OperatorsTyped
<1>3. toYield'[1] = toYield[1] /\ toYield'[2] = Tail(q) /\ DOMAIN toYield' = 1 .. 2
  BY <1>0, <1>1 DEF OperatorsTyped
<1>4. emitted[2] = given \o q
  BY <1>0 DEF Consumed
<1> HIDE DEF q, r
<1>5. Append(given, r) \o Tail(q) = given \o q
  BY <1>1, <1>2, ConcatMove DEF r
<1>6. OperatorsTyped'
  BY <1>0, <1>1, <1>2, <1>3 DEF OperatorsTyped
<1>7. Drawn' = Drawn /\ Taken' = Taken
  <2>1. emitted' = emitted /\ supply' = supply /\ drawn' = drawn /\ toYield'[1] = toYield[1]
    BY <1>1, <1>3
  <2> QED
    BY <2>1 DEF Drawn, Taken
<1>8. outcome = "running"
  BY <1>0, <1>1 DEF EndsTogether
<1>9. /\ outcome' \in {"running", "err", "done"} /\ outcome' = "done" => terminal = "first"
  BY <1>1
<1>10. SourceClosed = source \/ (SourceClosed = "returned" /\ source = "open")
  BY DEF SourceClosed
<1>11. source' = source \/ (source' = "returned" /\ source = "open")
  BY <1>1, <1>10
<1>12. (source' = "exhausted") = (source = "exhausted")
  BY <1>11
<1>13. StagesBehind'
  BY <1>0, <1>1, <1>3, <1>7, <1>12 DEF StagesBehind
<1>14. (broken[1] \/ outcome' # "running") /\ chain[1] # "zip" => source' # "open"
  <2> SUFFICES ASSUME broken[1] \/ outcome' # "running", chain[1] # "zip" PROVE source' # "open"
    OBVIOUS
  <2>1. CASE broken[1]
    BY <1>0, <1>11, <2>1 DEF EndsTogether
  <2>2. CASE ~broken[1] /\ outcome' # "running"
    BY <1>1, <2>2 DEF SourceClosed
  <2> QED
    BY <2>1, <2>2
<1>15. EndsTogether'
  BY <1>0, <1>1, <1>9, <1>11, <1>14 DEF EndsTogether
<1>16. Consumed'
  <2>1. emitted'[2] = given' \o toYield'[2]
    BY <1>1, <1>3, <1>4, <1>5
  <2> DEFINE vs == ValuesOf(Oks(given))
  <2>2. Oks(given) \in Seq(Element)
    BY <1>2, OksType
  <2>3. vs \in Seq(Seq(Int)) /\ r.v \in Seq(Int) /\ r.ok \in BOOLEAN
    BY <1>2, <2>2, InsideType, ElementFacts
  <2>4. Oks(Append(given, r)) = IF r.ok THEN Append(Oks(given), r) ELSE Oks(given)
    BY <1>2, OksAppend
  <2>5. ValuesOf(Append(Oks(given), r)) = Append(vs, r.v)
    BY <1>2, <2>2, InsideAppend
  <2>6. acc = IF terminal = "groupBy" THEN Grouped(vs) ELSE vs
    BY <1>0 DEF Consumed
  <2>7. ValuesOf(Oks(given')) = IF r.ok THEN Append(vs, r.v) ELSE vs
    BY <1>1, <2>4, <2>5
  <2> HIDE DEF vs
  <2>8. CASE ~r.ok
    BY <1>1, <2>1, <2>6, <2>7, <2>8 DEF Consumed
  <2>9. CASE r.ok /\ terminal # "groupBy"
    <3>1. acc' = Append(vs, r.v)
      BY <1>1, <2>6, <2>9 DEF Accumulated
    <3> QED
      BY <1>1, <2>1, <2>7, <2>9, <3>1 DEF Consumed
  <2>10. CASE r.ok /\ terminal = "groupBy"
    <3> DEFINE v == r.v
    <3>1. v \in Seq(Int)
      BY <2>3
    <3>2. acc' = Joined(acc, v)
      BY <1>1, <2>10 DEF Accumulated, Joined
    <3>3. acc = Grouped(vs)
      BY <2>6, <2>10
    <3> HIDE DEF v
    <3>4. acc' = Grouped(Append(vs, v))
      <4>1. Grouped(Append(vs, v)) = Joined(Grouped(vs), v)
        BY <2>3, <3>1, GroupedAppend
      <4> QED
        BY <3>2, <3>3, <4>1
    <3>5. ValuesOf(Oks(given')) = Append(vs, v)
      BY <2>7, <2>10 DEF v
    <3>6. acc' = Grouped(ValuesOf(Oks(given')))
      BY <3>4, <3>5
    <3>7. terminal' = "groupBy"
      BY <1>1, <2>10
    <3> QED
      BY <2>1, <3>6, <3>7 DEF Consumed
  <2> QED
    BY <2>8, <2>9, <2>10, Zenon
<1> QED
  BY <1>6, <1>13, <1>15, <1>16 DEF OperatorsInv

LEMMA ReceivesEndKeeps == ASSUME OperatorsInv, ReceivesEnd PROVE OperatorsInv'
<1>1. /\ toYield[2] = <<>> /\ broken[2] /\ demanded' = FALSE /\ outcome' = "done"
      /\ UNCHANGED <<supply, chain, terminal, drawn, memory, toYield, broken, emitted, given, acc, source>>
  BY DEF ReceivesEnd
<1>2. Drawn' = Drawn /\ Taken' = Taken
  BY <1>1 DEF Drawn, Taken
<1>3. OperatorsTyped'
  BY <1>1 DEF OperatorsInv, OperatorsTyped
<1>4. StagesBehind'
  BY <1>1, <1>2 DEF OperatorsInv, StagesBehind
<1>5. EndsTogether'
  BY <1>1 DEF OperatorsInv, EndsTogether
<1>6. Consumed'
  BY <1>1 DEF OperatorsInv, Consumed
<1> QED
  BY <1>3, <1>4, <1>5, <1>6 DEF OperatorsInv

LEMMA LeavesKeeps == ASSUME OperatorsInv, Leaves PROVE OperatorsInv'
<1>1. /\ ~demanded /\ outcome' = "left" /\ source' = SourceClosed
      /\ UNCHANGED <<supply, chain, terminal, drawn, memory, toYield, broken, emitted, demanded, given, acc>>
  BY DEF Leaves
<1>2. Drawn' = Drawn /\ Taken' = Taken
  BY <1>1 DEF Drawn, Taken
<1>3. source' = source \/ (source' = "returned" /\ source = "open")
  BY <1>1 DEF SourceClosed
<1>4. (source' = "exhausted") = (source = "exhausted")
  BY <1>3
<1>5. OperatorsTyped'
  BY <1>1 DEF OperatorsInv, OperatorsTyped
<1>6. StagesBehind'
  BY <1>1, <1>2, <1>4 DEF OperatorsInv, StagesBehind
<1>7. chain[1] # "zip" => source' # "open"
  <2>1. CASE broken[1]
    BY <1>3, <2>1 DEF OperatorsInv, EndsTogether
  <2>2. CASE ~broken[1]
    BY <1>1, <2>2 DEF SourceClosed
  <2> QED
    BY <2>1, <2>2
<1>8. EndsTogether'
  BY <1>1, <1>3, <1>7 DEF OperatorsInv, EndsTogether
<1>9. Consumed'
  BY <1>1 DEF OperatorsInv, Consumed
<1> QED
  BY <1>5, <1>6, <1>8, <1>9 DEF OperatorsInv

\* So does every step, and a stutter.
LEMMA OperatorsInductive == OperatorsInv /\ [OperatorsNext]_operatorVars => OperatorsInv'
<1> SUFFICES ASSUME OperatorsInv, [OperatorsNext]_operatorVars PROVE OperatorsInv'
  OBVIOUS
<1>1. CASE UNCHANGED operatorVars
  <2>1. UNCHANGED <<supply, chain, terminal, drawn, memory, toYield, broken, emitted, demanded, given, acc, source, outcome>>
    BY <1>1 DEF operatorVars
  <2>2. Drawn' = Drawn /\ Taken' = Taken
    BY <2>1 DEF Drawn, Taken
  <2> QED
    BY <2>1, <2>2 DEF OperatorsInv, OperatorsTyped, StagesBehind, EndsTogether, Consumed
<1> QED
  BY <1>1, AskNextKeeps, SecondTakesKeeps, SecondEndsKeeps, FirstDrawsKeeps, SourceExhaustedKeeps,
     SourceThrowsKeeps, ReceivesKeeps, ReceivesEndKeeps, LeavesKeeps, Zenon DEF OperatorsNext

\* The invariant says what the property says.
LEMMA OperatorsInvSays == OperatorsInv => PipelineFaithful
<1> SUFFICES ASSUME OperatorsInv PROVE PipelineFaithful
  OBVIOUS
<1>0. OperatorsTyped /\ StagesBehind /\ EndsTogether /\ Consumed
  BY DEF OperatorsInv
<1>1. Promised(chain[1], Drawn, emitted[1], broken[1] /\ source = "exhausted")
  <2>1. CASE broken[1]
    <3>1. (broken[1] /\ source = "exhausted") = (source = "exhausted")
      BY <2>1
    <3> QED
      BY <1>0, <2>1, <3>1 DEF StagesBehind
  <2>2. CASE ~broken[1]
    <3>1. (broken[1] /\ source = "exhausted") = FALSE
      BY <2>2
    <3> QED
      BY <1>0, <2>2, <3>1 DEF StagesBehind, Behind
  <2> QED
    BY <2>1, <2>2
<1>2. outcome = "running" /\ ~broken[2] => Promised(chain[2], Taken, emitted[2], FALSE)
  BY <1>0 DEF StagesBehind, Behind
<1>3. outcome = "done" /\ terminal \in {"iterate", "collect"} /\ source = "exhausted" =>
        Promised(chain[2], emitted[1], emitted[2], TRUE)
  BY <1>0 DEF StagesBehind, EndsTogether
<1>4. given \in Seq(Element) /\ toYield[2] \in Seq(Element) /\ emitted[2] = given \o toYield[2]
  BY <1>0 DEF OperatorsTyped, Consumed
<1>5. IsPrefix(given, emitted[2])
  BY <1>4, PrefixOfLonger
<1>6. outcome = "thrown" => given = emitted[2]
  BY <1>0, <1>4, ConcatEmptySeq DEF EndsTogether
<1>7. acc = IF terminal = "groupBy" THEN Grouped(ValuesOf(Oks(given))) ELSE ValuesOf(Oks(given))
  BY <1>0 DEF Consumed
<1>8. /\ chain[1] = "take" => drawn <= Len(emitted[1]) + 1
      /\ outcome # "running" /\ chain[1] # "zip" => source # "open"
  BY <1>0 DEF StagesBehind, EndsTogether
<1> QED
  BY <1>1, <1>2, <1>3, <1>5, <1>6, <1>7, <1>8 DEF PipelineFaithful

\* PipelineFaithful holds of two chained operators, any supply of elements and any amount:
\* each stage has yielded of what it has read exactly what its operator promises (run() of
\* src/async/stream.ts, whose loops pull one element at a time), whatever the consumer does
\* and wherever the source throws.
THEOREM PipelinesAreFaithful == OperatorsSpec => []PipelineFaithful
<1>1. OperatorsInit => OperatorsInv
  BY OperatorsStart
<1>2. OperatorsInv /\ [OperatorsNext]_operatorVars => OperatorsInv'
  BY OperatorsInductive
<1>3. OperatorsInv => PipelineFaithful
  BY OperatorsInvSays
<1> QED
  BY <1>1, <1>2, <1>3, PTL DEF OperatorsSpec

-----------------------------------------------------------------------------
(* The semaphore. *)

\* The inductive invariant.
SemInv == SemaphoreTypeOK /\ NoLostWakeup

State == {"out", "waiting", "granted", "running"}

\* The calls that have a permit.
Holding == In("granted") \cup In("running")

USE SemaphoreAssumption

-----------------------------------------------------------------------------
\* One call moves to state x.
LEMMA InMoves ==
  ASSUME SemaphoreTypeOK, NEW c \in Caller, NEW x \in State, pc' = [pc EXCEPT ![c] = x]
  PROVE  /\ pc' \in [Caller -> State]
         /\ x = "waiting" => In("waiting")' = In("waiting") \cup {c}
         /\ x # "waiting" => In("waiting")' = In("waiting") \ {c}
         /\ x = "granted" => In("granted")' = In("granted") \cup {c}
         /\ x # "granted" => In("granted")' = In("granted") \ {c}
         /\ x = "running" => In("running")' = In("running") \cup {c}
         /\ x # "running" => In("running")' = In("running") \ {c}
<1>1. \A d \in Caller : pc'[d] = IF d = c THEN x ELSE pc[d]
  BY DEF SemaphoreTypeOK
<1>2. pc' \in [Caller -> State]
  BY DEF SemaphoreTypeOK, State
<1>3. /\ x = "waiting" => In("waiting")' = In("waiting") \cup {c}
      /\ x # "waiting" => In("waiting")' = In("waiting") \ {c}
  BY <1>1 DEF In
<1>4. /\ x = "granted" => In("granted")' = In("granted") \cup {c}
      /\ x # "granted" => In("granted")' = In("granted") \ {c}
  BY <1>1 DEF In
<1>5. /\ x = "running" => In("running")' = In("running") \cup {c}
      /\ x # "running" => In("running")' = In("running") \ {c}
  BY <1>1 DEF In
<1> QED
  BY <1>2, <1>3, <1>4, <1>5

\* Call c is over and w, which waits, is granted a permit.
LEMMA InWoken ==
  ASSUME SemaphoreTypeOK, NEW c \in In("running"), NEW w \in In("waiting"),
         pc' = [pc EXCEPT ![c] = "out", ![w] = "granted"]
  PROVE  /\ pc' \in [Caller -> State]
         /\ In("waiting")' = In("waiting") \ {w}
         /\ In("granted")' = In("granted") \cup {w}
         /\ In("running")' = In("running") \ {c}
<1>1. c \in Caller /\ w \in Caller /\ c # w /\ pc[c] = "running" /\ pc[w] = "waiting"
  BY DEF In
<1>2. \A d \in Caller : pc'[d] = IF d = w THEN "granted" ELSE IF d = c THEN "out" ELSE pc[d]
  BY <1>1 DEF SemaphoreTypeOK
<1> QED
  BY <1>1, <1>2 DEF SemaphoreTypeOK, In, State

\* The states are disjoint, and the permits that are out can be counted.
LEMMA InFacts ==
  ASSUME SemaphoreTypeOK
  PROVE  /\ \A x, y \in State : x # y => In(x) \cap In(y) = {}
         /\ IsFiniteSet(Holding) /\ Cardinality(Holding) \in Nat
         /\ IsFiniteSet(In("running")) /\ Cardinality(In("running")) \in Nat
         /\ \A c \in Caller : c \notin Holding => Cardinality(Holding \cup {c}) = Cardinality(Holding) + 1
         /\ \A c \in Holding : Cardinality(Holding \ {c}) = Cardinality(Holding) - 1
<1>1. IsFiniteSet(Holding) /\ IsFiniteSet(In("running"))
  BY FS_Subset DEF In, Holding
<1>2. Cardinality(Holding) \in Nat /\ Cardinality(In("running")) \in Nat
  BY <1>1, FS_CardinalityType
<1>3. \A x, y \in State : x # y => In(x) \cap In(y) = {}
  BY DEF In
<1>4. \A c \in Caller : c \notin Holding => Cardinality(Holding \cup {c}) = Cardinality(Holding) + 1
  BY <1>1, FS_AddElement
<1>5. \A c \in Holding : Cardinality(Holding \ {c}) = Cardinality(Holding) - 1
  BY <1>1, FS_RemoveElement
<1> QED
  BY <1>1, <1>2, <1>3, <1>4, <1>5

-----------------------------------------------------------------------------
LEMMA PermitTakenKeeps ==
  ASSUME SemInv, NEW c \in Caller, Take(c)
  PROVE  SemInv'
<1> USE DEF SemInv
<1>1. /\ pc[c] = "out" /\ available > 0 /\ available' = available - 1 /\ available \in 0 .. Permits
      /\ pc' = [pc EXCEPT ![c] = "granted"] /\ jobs' = Append(jobs, c) /\ waiters' = waiters
      /\ waiters = <<>> /\ jobs \in Seq(Caller) /\ waiters \in Seq(Caller)
  BY DEF Take, MayTake, SemaphoreTypeOK, NoLostWakeup
<1>2. c \notin In("waiting") /\ c \notin In("granted") /\ c \notin In("running")
  BY <1>1 DEF In
<1>3. /\ pc' \in [Caller -> State]
      /\ In("granted")' = In("granted") \cup {c}
      /\ In("waiting")' = In("waiting") /\ In("running")' = In("running")
  <2>1. "granted" \in State
    BY DEF State
  <2>2. /\ pc' \in [Caller -> State]
        /\ In("waiting")' = In("waiting") \ {c}
        /\ In("granted")' = In("granted") \cup {c}
        /\ In("running")' = In("running") \ {c}
    BY <1>1, <2>1, InMoves
  <2> QED
    BY <1>2, <2>2
<1>4. Holding' = Holding \cup {c} /\ c \notin Holding
  BY <1>2, <1>3 DEF Holding
<1>5. jobs' \in Seq(Caller) /\ IsInjective(jobs') /\ Range(jobs') = In("granted")'
  <2>1. IsInjective(jobs) /\ Range(jobs) = In("granted")
    BY DEF NoLostWakeup
  <2>2. jobs' \in Seq(Caller) /\ IsInjective(jobs') /\ Range(jobs') = Range(jobs) \cup {c}
    BY <1>1, <1>2, <2>1, AppendQueue
  <2> QED
    BY <1>3, <2>1, <2>2
<1>6. available' + Cardinality(Holding') = Permits
  <2>1. Cardinality(Holding') = Cardinality(Holding) + 1 /\ Cardinality(Holding) \in Nat
    BY <1>4, InFacts
  <2>2. available + Cardinality(Holding) = Permits
    BY DEF NoLostWakeup, Holding
  <2> QED
    BY <1>1, <2>1, <2>2
<1>7. SemaphoreTypeOK'
  BY <1>1, <1>3, <1>5 DEF SemaphoreTypeOK, State
<1> QED
  BY <1>1, <1>3, <1>5, <1>6, <1>7 DEF NoLostWakeup, Holding

LEMMA WaitKeeps ==
  ASSUME SemInv, NEW c \in Caller, Wait(c)
  PROVE  SemInv'
<1> USE DEF SemInv
<1>1. /\ pc[c] = "out" /\ ~(available > 0) /\ available' = available /\ jobs' = jobs
      /\ pc' = [pc EXCEPT ![c] = "waiting"] /\ waiters' = Append(waiters, c)
      /\ waiters \in Seq(Caller)
  BY DEF Wait, MayTake, SemaphoreTypeOK
<1>2. c \notin In("waiting") /\ c \notin In("granted") /\ c \notin In("running")
  BY <1>1 DEF In
<1>3. /\ pc' \in [Caller -> State]
      /\ In("waiting")' = In("waiting") \cup {c}
      /\ In("granted")' = In("granted") /\ In("running")' = In("running")
  <2>1. "waiting" \in State
    BY DEF State
  <2>2. /\ pc' \in [Caller -> State]
        /\ In("waiting")' = In("waiting") \cup {c}
        /\ In("granted")' = In("granted") \ {c}
        /\ In("running")' = In("running") \ {c}
    BY <1>1, <2>1, InMoves
  <2> QED
    BY <1>2, <2>2
<1>4. waiters' \in Seq(Caller) /\ IsInjective(waiters') /\ Range(waiters') = In("waiting")'
  <2>1. IsInjective(waiters) /\ Range(waiters) = In("waiting")
    BY DEF NoLostWakeup
  <2>2. waiters' \in Seq(Caller) /\ IsInjective(waiters') /\ Range(waiters') = Range(waiters) \cup {c}
    BY <1>1, <1>2, <2>1, AppendQueue
  <2> QED
    BY <1>3, <2>1, <2>2
<1>5. SemaphoreTypeOK'
  BY <1>1, <1>3, <1>4 DEF SemaphoreTypeOK, State
<1> QED
  BY <1>1, <1>3, <1>4, <1>5 DEF NoLostWakeup

LEMMA StartKeeps ==
  ASSUME SemInv, NEW c \in Caller, Start(c)
  PROVE  SemInv'
<1> USE DEF SemInv
<1>1. /\ jobs # <<>> /\ Head(jobs) = c /\ jobs' = Tail(jobs) /\ jobs \in Seq(Caller)
      /\ pc' = [pc EXCEPT ![c] = "running"] /\ available' = available /\ waiters' = waiters
  BY DEF Start, SemaphoreTypeOK
<1>2. /\ jobs' \in Seq(Caller) /\ IsInjective(jobs') /\ Range(jobs') = In("granted") \ {c}
      /\ c \in In("granted")
  BY <1>1, TailQueue DEF NoLostWakeup
<1>3. c \notin In("waiting")
  BY <1>2, InFacts DEF State
<1>4. /\ pc' \in [Caller -> State]
      /\ In("running")' = In("running") \cup {c}
      /\ In("granted")' = In("granted") \ {c} /\ In("waiting")' = In("waiting")
  <2>1. "running" \in State
    BY DEF State
  <2>2. /\ pc' \in [Caller -> State]
        /\ In("waiting")' = In("waiting") \ {c}
        /\ In("granted")' = In("granted") \ {c}
        /\ In("running")' = In("running") \cup {c}
    BY <1>1, <2>1, InMoves
  <2> QED
    BY <1>3, <2>2
<1>5. Holding' = Holding
  BY <1>2, <1>4 DEF Holding
<1>6. SemaphoreTypeOK'
  BY <1>1, <1>2, <1>4 DEF SemaphoreTypeOK, State
<1> QED
  BY <1>1, <1>2, <1>4, <1>5, <1>6 DEF NoLostWakeup, Holding

LEMMA WakeKeeps ==
  ASSUME SemInv, NEW c \in Caller, pc[c] = "running", Wake(c)
  PROVE  SemInv'
<1> USE DEF SemInv
<1> DEFINE w == Head(waiters)
<1>1. /\ waiters # <<>> /\ waiters' = Tail(waiters) /\ jobs' = Append(jobs, w)
      /\ pc' = [pc EXCEPT ![c] = "out", ![w] = "granted"] /\ available' = available
      /\ waiters \in Seq(Caller) /\ jobs \in Seq(Caller)
  BY DEF Wake, SemaphoreTypeOK
<1>2. /\ waiters' \in Seq(Caller) /\ IsInjective(waiters')
      /\ Range(waiters') = In("waiting") \ {w} /\ w \in In("waiting")
  BY <1>1, TailQueue DEF NoLostWakeup
<1> HIDE DEF w
<1>3. c \in In("running") /\ w \in Caller
  BY <1>2 DEF In
<1>4. w \notin In("granted") /\ c \notin In("granted") /\ w \notin In("running")
  BY <1>2, <1>3, InFacts DEF State
<1>5. /\ pc' \in [Caller -> State]
      /\ In("waiting")' = In("waiting") \ {w}
      /\ In("granted")' = In("granted") \cup {w}
      /\ In("running")' = In("running") \ {c}
  BY <1>1, <1>2, <1>3, InWoken
<1>6. jobs' \in Seq(Caller) /\ IsInjective(jobs') /\ Range(jobs') = In("granted")'
  <2>1. IsInjective(jobs) /\ Range(jobs) = In("granted")
    BY DEF NoLostWakeup
  <2>2. jobs' \in Seq(Caller) /\ IsInjective(jobs') /\ Range(jobs') = Range(jobs) \cup {w}
    BY <1>1, <1>3, <1>4, <2>1, AppendQueue
  <2> QED
    BY <1>5, <2>1, <2>2
<1>7. Cardinality(Holding') = Cardinality(Holding)
  <2>1. Holding' = (Holding \ {c}) \cup {w} /\ c \in Holding /\ w \notin Holding \ {c}
    BY <1>3, <1>4, <1>5 DEF Holding
  <2>2. IsFiniteSet(Holding \ {c})
    BY InFacts, FS_Subset
  <2>3. Cardinality(Holding') = Cardinality(Holding \ {c}) + 1
    BY <2>1, <2>2, FS_AddElement
  <2> QED
    BY <2>1, <2>3, InFacts
<1>8. SemaphoreTypeOK'
  BY <1>1, <1>2, <1>5, <1>6 DEF SemaphoreTypeOK, State
<1>9. available > 0 => waiters = <<>>
  BY DEF NoLostWakeup
<1>10. available' + Cardinality(Holding') = Permits
  BY <1>1, <1>7 DEF NoLostWakeup, Holding
<1> QED
  BY <1>1, <1>2, <1>5, <1>6, <1>8, <1>9, <1>10 DEF NoLostWakeup, Holding

LEMMA PutBackKeeps ==
  ASSUME SemInv, NEW c \in Caller, pc[c] = "running", PutBack(c)
  PROVE  SemInv'
<1> USE DEF SemInv
<1>1. /\ waiters = <<>> /\ available' = available + 1 /\ available \in 0 .. Permits
      /\ pc' = [pc EXCEPT ![c] = "out"] /\ waiters' = waiters /\ jobs' = jobs
  BY DEF PutBack, SemaphoreTypeOK
<1>2. c \in In("running") /\ c \notin In("waiting") /\ c \notin In("granted")
  BY DEF In
<1>3. /\ pc' \in [Caller -> State]
      /\ In("running")' = In("running") \ {c}
      /\ In("granted")' = In("granted") /\ In("waiting")' = In("waiting")
  <2>0. SemaphoreTypeOK /\ "out" # "waiting" /\ "out" # "granted" /\ "out" # "running"
    OBVIOUS
  <2>1. "out" \in State
    BY DEF State
  <2>2. /\ pc' \in [Caller -> State]
        /\ In("waiting")' = In("waiting") \ {c}
        /\ In("granted")' = In("granted") \ {c}
        /\ In("running")' = In("running") \ {c}
    BY <1>1, <2>1, <2>0, InMoves, Zenon
  <2> QED
    BY <1>2, <2>2
<1>4. Holding' = Holding \ {c} /\ c \in Holding
  BY <1>2, <1>3 DEF Holding
<1>5. available' + Cardinality(Holding') = Permits /\ available' \in 0 .. Permits
  <2>1. Cardinality(Holding') = Cardinality(Holding) - 1 /\ Cardinality(Holding) \in Nat
        /\ Cardinality(Holding') \in Nat
    <3>1. IsFiniteSet(Holding \ {c})
      BY InFacts, FS_Subset
    <3> QED
      BY <1>4, <3>1, InFacts, FS_CardinalityType
  <2>2. available + Cardinality(Holding) = Permits
    BY DEF NoLostWakeup, Holding
  <2> QED
    BY <1>1, <2>1, <2>2
<1>6. SemaphoreTypeOK'
  BY <1>1, <1>3, <1>5 DEF SemaphoreTypeOK, State
<1> QED
  BY <1>1, <1>3, <1>5, <1>6 DEF NoLostWakeup, Holding

LEMMA SemInvInit == SemaphoreInit => SemInv
<1> SUFFICES ASSUME SemaphoreInit PROVE SemInv
  OBVIOUS
<1>1. /\ In("waiting") = {} /\ In("granted") = {} /\ In("running") = {}
  BY DEF SemaphoreInit, In
<1>2. SemaphoreTypeOK
  BY EmptyQueue DEF SemaphoreInit, SemaphoreTypeOK
<1>3. available + Cardinality(In("granted") \cup In("running")) = Permits
  <2>1. Cardinality(In("granted") \cup In("running")) = 0
    BY <1>1, FS_EmptySet
  <2> QED
    BY <2>1 DEF SemaphoreInit
<1> QED
  BY <1>1, <1>2, <1>3, EmptyQueue DEF SemaphoreInit, SemInv, NoLostWakeup

LEMMA SemInvStep == SemInv /\ [SemaphoreNext]_semaphoreVars => SemInv'
<1> SUFFICES ASSUME SemInv, [SemaphoreNext]_semaphoreVars PROVE SemInv'
  OBVIOUS
<1>1. ASSUME NEW c \in Caller, Take(c) \/ Wait(c) \/ Start(c) PROVE SemInv'
  BY <1>1, PermitTakenKeeps, WaitKeeps, StartKeeps
<1>2. ASSUME NEW c \in Caller, Release(c) PROVE SemInv'
  BY <1>2, WakeKeeps, PutBackKeeps DEF Release
<1>3. CASE UNCHANGED semaphoreVars
  BY <1>3 DEF semaphoreVars, SemInv, SemaphoreTypeOK, NoLostWakeup, In
<1> QED
  BY <1>1, <1>2, <1>3 DEF SemaphoreNext

\* No permit is ever owed or invented, and no permit and no acquire is lost, though
\* closures of other callers count them up and down, whatever the number of callers.
THEOREM SemaphoreIsSound == SemaphoreSpec => []SemaphoreSound
<1>1. SemInv => SemaphoreSound
  BY DEF SemInv, SemaphoreSound
<1> QED
  BY <1>1, SemInvInit, SemInvStep, PTL DEF SemaphoreSpec

-----------------------------------------------------------------------------
\* Calls arrive at the end of the line ...
LEMMA ArriveStep ==
  ASSUME SemInv, NEW c \in Caller, pc[c] = "out", In("running")' = In("running"),
         jobs' \o waiters' = Append(jobs \o waiters, c)
  PROVE  Line!Arrive(c)
<1> USE DEF SemInv
<1>1. /\ jobs \in Seq(Caller) /\ waiters \in Seq(Caller)
      /\ IsInjective(jobs) /\ IsInjective(waiters)
      /\ Range(jobs) = In("granted") /\ Range(waiters) = In("waiting")
  BY DEF SemaphoreTypeOK, NoLostWakeup
<1>2. c \notin In("granted") /\ c \notin In("waiting") /\ c \notin In("running")
  BY DEF In
<1>3. Range(jobs) \cap Range(waiters) = {}
  BY <1>1, InFacts DEF State
<1>4. Range(jobs \o waiters) = Range(jobs) \cup Range(waiters)
  BY <1>1, <1>3, ConcatQueue
<1>5. \A i \in DOMAIN (jobs \o waiters) : (jobs \o waiters)[i] # c
  BY <1>1, <1>2, <1>4 DEF Range
<1> QED
  BY <1>2, <1>5 DEF Line!Arrive

\* ... the first of the line goes in when there is room ...
LEMMA EnterStep ==
  ASSUME SemInv, NEW c \in Caller, Start(c)
  PROVE  Line!Enter
<1> USE DEF SemInv
<1>1. /\ jobs # <<>> /\ Head(jobs) = c /\ jobs' = Tail(jobs) /\ waiters' = waiters
      /\ jobs \in Seq(Caller) /\ waiters \in Seq(Caller)
      /\ pc' = [pc EXCEPT ![c] = "running"]
  BY DEF Start, SemaphoreTypeOK
<1>2. /\ jobs \o waiters # <<>> /\ Head(jobs \o waiters) = c
      /\ Tail(jobs \o waiters) = jobs' \o waiters'
  BY <1>1, ConcatTail
<1>3. In("running")' = In("running") \cup {c}
  BY <1>1, InMoves DEF State
<1>4. c \in In("granted") /\ c \notin In("running")
  <2>1. c \in In("granted")
    BY <1>1, TailQueue DEF NoLostWakeup
  <2> QED
    BY <2>1, InFacts DEF State
<1>5. Cardinality(In("running")) < Permits
  <2>1. In("running") \subseteq Holding \ {c} /\ c \in Holding
    BY <1>4 DEF Holding
  <2>2. IsFiniteSet(Holding \ {c})
    BY InFacts, FS_Subset
  <2>3. Cardinality(In("running")) <= Cardinality(Holding \ {c})
    BY <2>1, <2>2, FS_Subset
  <2>4. Cardinality(Holding \ {c}) = Cardinality(Holding) - 1
    BY <2>1, InFacts
  <2>5. Cardinality(Holding) <= Permits /\ Cardinality(Holding) \in Nat
    <3>1. available \in Nat /\ available + Cardinality(Holding) = Permits
      BY DEF SemaphoreTypeOK, NoLostWakeup, Holding
    <3> QED
      BY <3>1, InFacts
  <2> QED
    BY <2>3, <2>4, <2>5, InFacts
<1>6. Line!Cardinality(In("running")) < Permits
  BY <1>5 DEF Line!Cardinality, Cardinality
<1> QED
  BY <1>2, <1>3, <1>6 DEF Line!Enter

\* ... and leaves; the line does not notice that a call in it is woken.
LEMMA LeaveStep ==
  ASSUME SemInv, NEW c \in Caller, Release(c)
  PROVE  Line!Leave(c)
<1> USE DEF SemInv
<1>1. c \in In("running") /\ jobs \in Seq(Caller) /\ waiters \in Seq(Caller)
  BY DEF Release, In, SemaphoreTypeOK
<1>2. In("running")' = In("running") \ {c}
  <2>1. CASE Wake(c)
    <3>1. Head(waiters) \in In("waiting")
      BY <1>1, <2>1, TailQueue DEF Wake, NoLostWakeup
    <3> QED
      BY <1>1, <2>1, <3>1, InWoken DEF Wake
  <2>2. CASE PutBack(c)
    BY <2>2, InMoves DEF PutBack, State
  <2> QED
    BY <2>1, <2>2 DEF Release
<1>3. jobs' \o waiters' = jobs \o waiters
  <2>1. CASE Wake(c)
    BY <1>1, <2>1, ConcatMove DEF Wake
  <2>2. CASE PutBack(c)
    BY <2>2 DEF PutBack
  <2> QED
    BY <2>1, <2>2 DEF Release
<1> QED
  BY <1>1, <1>2, <1>3 DEF Line!Leave

LEMMA TakeWaitSteps ==
  ASSUME SemInv, NEW c \in Caller, Take(c) \/ Wait(c)
  PROVE  Line!Arrive(c)
<1> USE DEF SemInv
<1>1. pc[c] = "out" /\ c \notin In("running") /\ jobs \in Seq(Caller) /\ waiters \in Seq(Caller)
  BY DEF Take, Wait, In, SemaphoreTypeOK
<1>2. In("running")' = In("running")
  <2>1. PICK x \in {"granted", "waiting"} : pc' = [pc EXCEPT ![c] = x]
    BY DEF Take, Wait
  <2>2. In("running")' = In("running") \ {c}
    BY <2>1, InMoves DEF State
  <2> QED
    BY <1>1, <2>2
<1>3. jobs' \o waiters' = Append(jobs \o waiters, c)
  <2>1. CASE Take(c)
    <3>1. waiters = <<>> /\ waiters' = <<>> /\ jobs' = Append(jobs, c)
      BY <2>1 DEF Take, MayTake, NoLostWakeup
    <3>2. jobs' \in Seq(Caller)
      BY <1>1, <3>1
    <3> QED
      BY <1>1, <3>1, <3>2, ConcatEmptySeq
  <2>2. CASE Wait(c)
    <3>1. jobs' = jobs /\ waiters' = Append(waiters, c) /\ <<c>> \in Seq(Caller)
      BY <2>2 DEF Wait
    <3>2. jobs' \o waiters' = jobs \o (waiters \o <<c>>)
      BY <1>1, <3>1, AppendIsConcat
    <3>3. (jobs \o waiters) \o <<c>> = jobs \o (waiters \o <<c>>)
      BY <1>1, <3>1, ConcatAssociative
    <3>4. jobs \o waiters \in Seq(Caller)
      BY <1>1
    <3>5. Append(jobs \o waiters, c) = (jobs \o waiters) \o <<c>>
      BY <3>4, AppendIsConcat
    <3> QED
      BY <3>2, <3>3, <3>5
  <2> QED
    BY <2>1, <2>2
<1> QED
  BY <1>1, <1>2, <1>3, ArriveStep

\* The semaphore is a turnstile: at most Permits tasks run at a time and they
\* start in the order in which acquire was called.
THEOREM SemaphoreImplementsTurnstile == SemaphoreSpec => ImplementsTurnstile
<1>1. SemaphoreInit => Line!TurnstileInit
  BY ConcatEmptySeq, EmptyQueue DEF SemaphoreInit, Line!TurnstileInit, In
<1>2. SemInv /\ [SemaphoreNext]_semaphoreVars => [Line!TurnstileNext]_(Line!turnstileVars)
  <2> SUFFICES ASSUME SemInv, [SemaphoreNext]_semaphoreVars PROVE [Line!TurnstileNext]_(Line!turnstileVars)
    OBVIOUS
  <2>1. ASSUME NEW c \in Caller, Take(c) \/ Wait(c) PROVE Line!TurnstileNext
    BY <2>1, TakeWaitSteps DEF Line!TurnstileNext
  <2>2. ASSUME NEW c \in Caller, Start(c) PROVE Line!TurnstileNext
    BY <2>2, EnterStep DEF Line!TurnstileNext
  <2>3. ASSUME NEW c \in Caller, Release(c) PROVE Line!TurnstileNext
    BY <2>3, LeaveStep DEF Line!TurnstileNext
  <2>4. CASE UNCHANGED semaphoreVars
    BY <2>4 DEF semaphoreVars, Line!turnstileVars, In
  <2> QED
    BY <2>1, <2>2, <2>3, <2>4 DEF SemaphoreNext
<1> QED
  BY <1>1, <1>2, SemInvInit, SemInvStep, PTL DEF SemaphoreSpec, Line!TurnstileSpec, ImplementsTurnstile
=============================================================================
