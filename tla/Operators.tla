----------------------------- MODULE Operators -----------------------------
(***************************************************************************)
(* The operators of src/src/async/stream.ts that are generator loops over  *)
(* one source, two of them chained, and what consumes them.  Nothing is    *)
(* drawn before it is asked for: the consumer asks the second stage, which *)
(* takes what the first one yielded or asks it, which draws from the       *)
(* source.  A stage that breaks out of its loop, and a consumer that       *)
(* leaves, return() the source.                                            *)
(*                                                                         *)
(* A stream's element is Ok of a value or Err; a value is a sequence of    *)
(* numbers, so that chunk, window and scan yield values again.             *)
(***************************************************************************)
EXTENDS Integers, FiniteSets, Sequences, SequencesExt, Filter

CONSTANTS
  Supplies,   \* the sequences of elements a source gives
  FirstStage, SecondStage, \* the operators tried as stages; "none" is the absent one
  Terminals,  \* the consumers tried
  Amount      \* n, size or ms of the operators that have one

VARIABLES
  supply, chain, terminal,
  drawn,      \* elements drawn from the source
  memory,     \* per stage, the locals of its generator
  toYield,    \* per stage, what it has yet to yield before it draws again
  broken,     \* per stage: its loop is over
  emitted,    \* per stage, all it put into toYield (history)
  demanded,   \* the consumer waits for next()
  given,      \* what the consumer got
  acc,        \* what the consumer accumulates
  source,     \* "open", "exhausted", "returned" or "failed"
  outcome     \* "running", "done", "err", "left" or "thrown"

operatorVars == <<supply, chain, terminal, drawn, memory, toYield, broken, emitted,
                  demanded, given, acc, source, outcome>>

Okay(v) == [ok |-> TRUE, v |-> v]
Failure    == [ok |-> FALSE, v |-> <<>>]

\* A source may throw where it should give an element: a ReadableStream that errors under
\* fromReadable, or the caller's iterable under from.
Thrown     == [ok |-> FALSE, v |-> <<0>>]

Element == [ok : {TRUE}, v : Seq(Int) \ {<<>>}] \cup [ok : {FALSE}, v : Seq(Int)]

\* The clock of a throttle and the other stream of a zip go by the elements of the source:
\* these are first stages.
ASSUME OperatorsAssumption ==
  /\ Amount \in Nat /\ \A s \in Supplies : s \in Seq(Element)
  /\ \A op \in SecondStage : op \notin {"throttle", "zip"}

-----------------------------------------------------------------------------
(* Sources: from, of and fromArray; and unfold, by the values and next     *)
(* states of fn, which gives None outside its domain and meets no state    *)
(* twice.                                                                  *)

FromArray(values) == [i \in 1..Len(values) |-> Okay(values[i])]

Unfold(seed, fn) ==
  LET state[i \in Nat] == IF i = 0 THEN seed ELSE fn[state[i - 1]][2]
      last == CHOOSE n \in 0..Cardinality(DOMAIN fn) :
                state[n] \notin DOMAIN fn /\ \A m \in 0..n - 1 : state[m] \in DOMAIN fn
  IN  [i \in 1..last |-> Okay(fn[state[i - 1]][1])]

-----------------------------------------------------------------------------
(* The functions given to the operators. *)

Mapped(v)    == <<v[1] + 2>>
Accepts(v)   == v[1] = 1
SubStream(v) == IF Accepts(v) THEN <<Okay(v), Okay(v)>> ELSE <<Okay(v), Failure>>
KeyOf(v)     == v[1]
Other        == <<Okay(<<7>>), Failure>>  \* the other stream of concat and zip
TimeOf(i)    == Amount + i             \* Date.now() when element i is drawn, long after 0

-----------------------------------------------------------------------------
(* The body of each loop: the locals m and the element r give the new      *)
(* locals, what is yielded, and whether the loop is left.                  *)

Turn(m, out, stop) == [mem |-> m, out |-> out, stop |-> stop]
Yield(m, r)        == Turn(m, <<r>>, FALSE)
Skip(m)            == Turn(m, <<>>, FALSE)

MapTurn(m, r)     == Yield(m, IF r.ok THEN Okay(Mapped(r.v)) ELSE r)
MapErrTurn(m, r)  == Yield(m, r)
FlatMapTurn(m, r) == Turn(m, IF r.ok THEN SubStream(r.v) ELSE <<r>>, FALSE)
FilterTurn(m, r)  == IF ~r.ok \/ Accepts(r.v) THEN Yield(m, r) ELSE Skip(m)

\* Seeded fault: an Err counts.
TakeTurnAny(m, r) ==
  IF m >= Amount THEN Turn(m, <<>>, TRUE) ELSE Yield(m + 1, r)

\* The count is looked at before the element: one more than n is drawn, and dropped.
TakeTurn(m, r) ==
  IF m >= Amount THEN Turn(m, <<>>, TRUE) ELSE Yield(IF r.ok THEN m + 1 ELSE m, r)

DropTurn(m, r) ==
  IF r.ok /\ m < Amount THEN Skip(m + 1) ELSE Yield(m, r)

TakeWhileTurn(m, r) ==
  IF r.ok /\ ~Accepts(r.v) THEN Turn(m, <<>>, TRUE) ELSE Yield(m, r)

\* chunk and window keep the values that were not yielded yet, one per element of m.
ChunkTurn(m, r) ==
  IF ~r.ok THEN Yield(m, r)
  ELSE IF Len(m) + 1 >= Amount THEN Yield(<<>>, Okay(FlattenSeq(Append(m, r.v))))
  ELSE Skip(Append(m, r.v))

WindowTurn(m, r) ==
  IF ~r.ok THEN Yield(m, r)
  ELSE IF Len(m) + 1 >= Amount
       THEN Yield(Tail(Append(m, r.v)), Okay(FlattenSeq(Append(m, r.v))))
       ELSE Skip(Append(m, r.v))

ScanTurn(m, r) == IF r.ok THEN Yield(m \o r.v, Okay(m \o r.v)) ELSE Yield(m, r)

DistinctTurn(m, r) ==
  IF ~r.ok THEN Yield(m, r) ELSE IF m = r.v THEN Skip(m) ELSE Yield(r.v, r)

ThrottleTurn(m, r) ==
  IF ~r.ok THEN Yield(m, r)
  ELSE IF TimeOf(drawn + 1) - m >= Amount THEN Yield(TimeOf(drawn + 1), r) ELSE Skip(m)

\* Both sources are asked; the end of either is the end, and neither is returned.
ZipTurn(m, r) ==
  IF m = Len(Other) THEN Turn(m, <<>>, TRUE)
  ELSE Yield(m + 1, IF ~r.ok THEN r ELSE IF ~Other[m + 1].ok THEN Other[m + 1]
                    ELSE Okay(r.v \o Other[m + 1].v))

Step(op, m, r) ==
  CASE op = "map" -> MapTurn(m, r)       [] op = "mapErr" -> MapErrTurn(m, r)
    [] op = "flatMap" -> FlatMapTurn(m, r) [] op = "filter" -> FilterTurn(m, r)
    [] op = "take" -> TakeTurn(m, r)     [] op = "drop" -> DropTurn(m, r)
    [] op = "takeWhile" -> TakeWhileTurn(m, r) [] op = "chunk" -> ChunkTurn(m, r)
    [] op = "window" -> WindowTurn(m, r) [] op = "scan" -> ScanTurn(m, r)
    [] op = "distinct" -> DistinctTurn(m, r) [] op = "throttle" -> ThrottleTurn(m, r)
    [] op = "zip" -> ZipTurn(m, r)       [] OTHER -> Yield(m, r)

\* The locals at the start, and what follows the loop: chunk's last, shorter one, and
\* the other stream of concat.
Locals(op) ==
  IF op \in {"take", "drop", "zip", "throttle"} THEN 0 ELSE <<>>

Rest(op, m) ==
  CASE op = "chunk" /\ m # <<>> -> <<Okay(FlattenSeq(m))>>
    [] op = "concat" -> Other
    [] OTHER -> <<>>

-----------------------------------------------------------------------------
(* The pipeline. *)

StartValue(t) == IF t = "groupBy" THEN [k \in {} |-> <<>>] ELSE <<>>

OperatorsInit ==
  /\ supply \in Supplies /\ chain \in FirstStage \X SecondStage /\ terminal \in Terminals
  /\ drawn = 0
  /\ memory = [i \in {1, 2} |-> Locals(chain[i])]
  /\ toYield = <<<<>>, <<>>>> /\ broken = <<FALSE, FALSE>> /\ emitted = <<<<>>, <<>>>>
  /\ demanded = FALSE /\ given = <<>> /\ acc = StartValue(terminal)
  /\ source = "open" /\ outcome = "running"

AskNext ==
  /\ outcome = "running" /\ ~demanded
  /\ demanded' = TRUE
  /\ UNCHANGED <<supply, chain, terminal, drawn, memory, toYield, broken, emitted, given, acc, source, outcome>>

Puts(i, t) ==
  /\ memory' = [memory EXCEPT ![i] = t.mem]
  /\ emitted' = [emitted EXCEPT ![i] = @ \o t.out]

\* What a stage does at the end of what it reads.
LoopEnds(i) ==
  /\ broken' = [broken EXCEPT ![i] = TRUE]
  /\ Puts(i, Turn(memory[i], Rest(chain[i], memory[i]), TRUE))

Waits == demanded /\ toYield[2] = <<>> /\ ~broken[2]

\* The second stage takes what the first one yielded, or its end.
SecondTakes ==
  /\ Waits /\ toYield[1] # <<>>
  /\ LET t == Step(chain[2], memory[2], Head(toYield[1])) IN
     /\ Puts(2, t)
     /\ toYield' = <<IF t.stop THEN <<>> ELSE Tail(toYield[1]), t.out>>
     /\ broken' = <<broken[1] \/ t.stop, t.stop>>
     /\ source' = IF t.stop /\ source = "open" /\ chain[1] # "zip" THEN "returned" ELSE source
  /\ UNCHANGED <<supply, chain, terminal, drawn, demanded, given, acc, outcome>>

SecondEnds ==
  /\ Waits /\ toYield[1] = <<>> /\ broken[1]
  /\ LoopEnds(2)
  /\ toYield' = [toYield EXCEPT ![2] = Rest(chain[2], memory[2])]
  /\ UNCHANGED <<supply, chain, terminal, drawn, demanded, given, acc, source, outcome>>

\* The first stage draws.
FirstDraws ==
  /\ Waits /\ toYield[1] = <<>> /\ ~broken[1] /\ drawn < Len(supply)
  /\ supply[drawn + 1] # Thrown
  /\ LET t == Step(chain[1], memory[1], supply[drawn + 1]) IN
     /\ Puts(1, t)
     /\ toYield' = [toYield EXCEPT ![1] = t.out]
     /\ broken' = [broken EXCEPT ![1] = t.stop]
     /\ source' = IF t.stop /\ chain[1] # "zip" THEN "returned" ELSE source
  /\ drawn' = drawn + 1
  /\ UNCHANGED <<supply, chain, terminal, demanded, given, acc, outcome>>

SourceExhausted ==
  /\ Waits /\ toYield[1] = <<>> /\ ~broken[1] /\ drawn = Len(supply)
  /\ LoopEnds(1)
  /\ toYield' = [toYield EXCEPT ![1] = Rest(chain[1], memory[1])]
  /\ source' = "exhausted"
  /\ UNCHANGED <<supply, chain, terminal, drawn, demanded, given, acc, outcome>>

\* What the source throws goes through every loop: the stages end without their rest, and
\* a consumer's task rejects.  fromReadable gives its reader's lock back.
SourceThrows ==
  /\ Waits /\ toYield[1] = <<>> /\ ~broken[1] /\ drawn < Len(supply)
  /\ supply[drawn + 1] = Thrown
  /\ source' = "failed" /\ broken' = <<TRUE, TRUE>>
  /\ demanded' = FALSE /\ outcome' = "thrown"
  /\ UNCHANGED <<supply, chain, terminal, drawn, memory, toYield, emitted, given, acc>>

-----------------------------------------------------------------------------
(* The consumer. *)

SourceClosed == IF source = "open" /\ chain[1] # "zip" /\ ~broken[1] THEN "returned" ELSE source

Accumulated(v) ==
  IF terminal = "groupBy"
  THEN [k \in DOMAIN acc \cup {KeyOf(v)} |->
          IF k # KeyOf(v) THEN acc[k] ELSE IF k \in DOMAIN acc THEN Append(acc[k], v) ELSE <<v>>]
  ELSE Append(acc, v)

\* An Err ends collect, forEach, reduce, groupBy and first; a value is accumulated, and
\* ends first.
Receives ==
  /\ demanded /\ toYield[2] # <<>>
  /\ demanded' = FALSE
  /\ LET r == Head(toYield[2]) IN
     /\ given' = Append(given, r)
     /\ acc' = IF r.ok THEN Accumulated(r.v) ELSE acc
     /\ outcome' = IF terminal = "iterate" THEN "running"
                   ELSE IF ~r.ok THEN "err" ELSE IF terminal = "first" THEN "done" ELSE "running"
  /\ toYield' = [toYield EXCEPT ![2] = Tail(@)]
  /\ source' = IF outcome' = "running" THEN source ELSE SourceClosed
  /\ UNCHANGED <<supply, chain, terminal, drawn, memory, broken, emitted>>

ReceivesEnd ==
  /\ demanded /\ toYield[2] = <<>> /\ broken[2]
  /\ demanded' = FALSE /\ outcome' = "done"
  /\ UNCHANGED <<supply, chain, terminal, drawn, memory, toYield, broken, emitted, given, acc, source>>

\* A consumer of run() leaves its loop.
Leaves ==
  /\ outcome = "running" /\ terminal = "iterate" /\ ~demanded /\ given # <<>>
  /\ outcome' = "left" /\ source' = SourceClosed
  /\ UNCHANGED <<supply, chain, terminal, drawn, memory, toYield, broken, emitted, demanded, given, acc>>

OperatorsNext ==
  AskNext \/ SecondTakes \/ SecondEnds \/ FirstDraws \/ SourceExhausted \/ SourceThrows
  \/ Receives \/ ReceivesEnd \/ Leaves

OperatorsSpec == OperatorsInit /\ [][OperatorsNext]_operatorVars

-----------------------------------------------------------------------------
(* What each operator promises: ys of the elements xs, all of them if over. *)

\* The elements of xs whose positions are in S, in order.
Picked(xs, S) ==
  LET at == Remaining([i \in DOMAIN xs |-> i], DOMAIN xs \ S)
  IN  [i \in DOMAIN at |-> xs[at[i]]]

Oks(xs)    == Picked(xs, {i \in DOMAIN xs : xs[i].ok})
Errs(xs)   == Picked(xs, {i \in DOMAIN xs : ~xs[i].ok})
ValuesOf(xs) == [i \in DOMAIN xs |-> xs[i].v]
Together(xs, i, j) == Okay(FlattenSeq(ValuesOf(SubSeq(xs, i, j))))
OksBefore(xs, i)   == Oks(SubSeq(xs, 1, i - 1))
Least(a, b) == IF a < b THEN a ELSE b

\* A chunk or a window of 0 is one of 1: a value is put into the buffer before it is measured.
BatchSize == IF Amount = 0 THEN 1 ELSE Amount

\* Of the Oks, those a kept one of before is nearer than Amount are left out.
Spaced(xs, K) ==
  \A i \in 1..Len(xs) : (i \in K) <=>
    (~xs[i].ok \/ ~\E j \in K : j < i /\ xs[j].ok /\ i - j < Amount)

Promised(op, xs, ys, over) ==
  CASE op = "map"      -> ys = [i \in DOMAIN xs |-> IF xs[i].ok THEN Okay(Mapped(xs[i].v)) ELSE xs[i]]
    [] op = "flatMap"  -> ys = FlattenSeq([i \in DOMAIN xs |->
                                             IF xs[i].ok THEN SubStream(xs[i].v) ELSE <<xs[i]>>])
    [] op = "filter"   -> ys = Picked(xs, {i \in DOMAIN xs : ~xs[i].ok \/ Accepts(xs[i].v)})
    [] op = "take"     -> /\ IsPrefix(ys, xs) /\ Len(Oks(ys)) = Least(Amount, Len(Oks(xs)))
                          /\ \/ ys = xs
                             \/ ys = <<>> /\ Amount = 0
                             \/ ys # <<>> /\ ys[Len(ys)].ok /\ Len(Oks(ys)) = Amount
    [] op = "drop"     -> ys = Picked(xs, {i \in DOMAIN xs : ~xs[i].ok \/ Len(OksBefore(xs, i)) >= Amount})
    [] op = "takeWhile"-> /\ IsPrefix(ys, xs) /\ \A i \in DOMAIN ys : ys[i].ok => Accepts(ys[i].v)
                          /\ ys = xs \/ (xs[Len(ys) + 1].ok /\ ~Accepts(xs[Len(ys) + 1].v))
    [] op = "chunk"    -> LET n == Len(Oks(xs))
                              k == Len(Oks(ys))
                          IN  /\ Errs(ys) = Errs(xs)
                              /\ \A j \in 1..k : Oks(ys)[j] = Together(Oks(xs), (j - 1) * BatchSize + 1, Least(j * BatchSize, n))
                              /\ IF over THEN n \in (k - 1) * BatchSize + 1..k * BatchSize
                                         ELSE n \in k * BatchSize..(k + 1) * BatchSize - 1
    [] op = "window"   -> /\ Errs(ys) = Errs(xs)
                          /\ Len(Oks(ys)) = (Len(Oks(xs)) + 1) - Least(BatchSize, Len(Oks(xs)) + 1)
                          /\ \A j \in 1..Len(Oks(ys)) : Oks(ys)[j] = Together(Oks(xs), j, j + BatchSize - 1)
    [] op = "scan"     -> ys = [i \in DOMAIN xs |->
                                 IF xs[i].ok THEN Okay(FlattenSeq(ValuesOf(Oks(SubSeq(xs, 1, i))))) ELSE xs[i]]
    [] op = "distinct" -> ys = Picked(xs, {i \in DOMAIN xs :
                            \/ ~xs[i].ok \/ OksBefore(xs, i) = <<>>
                            \/ xs[i] # OksBefore(xs, i)[Len(OksBefore(xs, i))]})
    [] op = "throttle" -> \E K \in SUBSET (1..Len(xs)) : Spaced(xs, K) /\ ys = Picked(xs, K)
    [] op = "zip"      -> /\ Len(ys) = Least(Len(xs), Len(Other))
                          /\ \A i \in DOMAIN ys :
                               IF xs[i].ok /\ Other[i].ok THEN ys[i] = Okay(xs[i].v \o Other[i].v)
                                                          ELSE ~ys[i].ok
    [] op = "concat"   -> ys = IF over THEN xs \o Other ELSE xs
    [] OTHER           -> ys = xs

Drawn == SubSeq(supply, 1, drawn)
Taken == SubSeq(emitted[1], 1, Len(emitted[1]) - Len(toYield[1]))

\* The values a consumer got, by their keys.
Grouped(vs) ==
  [k \in {KeyOf(vs[i]) : i \in DOMAIN vs} |-> Picked(vs, {i \in DOMAIN vs : KeyOf(vs[i]) = k})]

\* Each stage yields of what it has read exactly what the operator promises, in order and
\* with every Err, however the consumer stops; take draws at most one element it does not
\* yield.  What a consumer accumulates is the Oks it got, and no source is left open when
\* it is done, except that zip never returns its sources.  A source that throws takes back
\* nothing of what was yielded before.
PipelineFaithful ==
  /\ Promised(chain[1], Drawn, emitted[1], broken[1] /\ source = "exhausted")
  /\ outcome = "running" /\ ~broken[2] => Promised(chain[2], Taken, emitted[2], FALSE)
  /\ outcome = "done" /\ terminal \in {"iterate", "collect"} /\ source = "exhausted" =>
       Promised(chain[2], emitted[1], emitted[2], TRUE)
  /\ chain[1] = "take" => drawn <= Len(emitted[1]) + 1
  /\ IsPrefix(given, emitted[2])
  /\ outcome = "thrown" => given = emitted[2]
  /\ acc = IF terminal = "groupBy" THEN Grouped(ValuesOf(Oks(given))) ELSE ValuesOf(Oks(given))
  /\ outcome # "running" /\ chain[1] # "zip" => source # "open"
=============================================================================
