------------------------------ MODULE Streams ------------------------------
(***************************************************************************)
(* merge and debounce of src/async/stream.ts, the two streams whose values *)
(* arrive by themselves: each hands them to a consumer that asks through   *)
(* the queue of createAsyncQueue.                                          *)
(***************************************************************************)
EXTENDS Integers, FiniteSets, Sequences

-----------------------------------------------------------------------------
(***************************************************************************)
(* createAsyncQueue.                                                       *)
(*                                                                         *)
(* It has room for one waiter: its consumer, reader, awaits each next()    *)
(* before it calls the following one, as a for-await loop does.            *)
(***************************************************************************)

CONSTANT Nothing  \* no value

ASSUME NothingAssumption ==
  Nothing \notin [source : Nat, number : Nat] \cup [kind : {"ok", "err"}, number : Nat]

VARIABLES items,     \* items
          finished,  \* finished
          failed,    \* failure is set
          reader,    \* "new", "idle", "waiting", "resumed", or how it ended
          hand,      \* what the awaited next() was resolved with
          delivered  \* history: what the consumer got

queueVars == <<items, finished, failed, reader, hand, delivered>>

QueueInit ==
  /\ items = <<>> /\ finished = FALSE /\ failed = FALSE
  /\ reader = "new" /\ hand = Nothing /\ delivered = <<>>

\* settle: an item goes first, then the failure, then the end.
Settle(queue, failure, end, waits) ==
  \/ /\ waits /\ queue # <<>>
     /\ reader' = "resumed" /\ hand' = Head(queue) /\ items' = Tail(queue)
  \/ /\ waits /\ queue = <<>> /\ failure
     /\ reader' = "failed" /\ items' = queue /\ UNCHANGED hand
  \/ /\ waits /\ queue = <<>> /\ ~failure
     /\ reader' = (IF end THEN "ended" ELSE "waiting") /\ items' = queue /\ UNCHANGED hand
  \/ /\ ~waits
     /\ items' = queue /\ UNCHANGED <<reader, hand>>

Waits == reader = "waiting"

\* push, with done() after it if last.
PushThen(item, last) ==
  /\ finished' = (finished \/ last)
  /\ Settle(Append(items, item), failed, finished, Waits)
  /\ UNCHANGED failed

Push(item) == PushThen(item, FALSE)

\* done, fail and next.
Done     == finished' = TRUE /\ Settle(items, failed, TRUE, Waits) /\ UNCHANGED failed
Fail     == failed' = TRUE /\ Settle(items, TRUE, finished, Waits) /\ UNCHANGED finished
AskQueue == reader = "idle" /\ Settle(items, failed, finished, TRUE) /\ UNCHANGED <<finished, failed, delivered>>

\* The consumer goes on with the value it was given.
TakeHand ==
  /\ reader = "resumed"
  /\ delivered' = Append(delivered, hand)
  /\ reader' = "idle" /\ hand' = Nothing
  /\ UNCHANGED <<items, finished, failed>>

\* The consumer calls return(), and nothing more.  A value on its way to it still
\* arrives; a next() that waits is told the end.
Leave ==
  /\ reader \in {"idle", "waiting", "resumed"}
  /\ delivered' = IF reader = "resumed" THEN Append(delivered, hand) ELSE delivered
  /\ reader' = "returned" /\ hand' = Nothing
  /\ UNCHANGED <<items, failed>>

\* All the consumer got or is to get.
Stream == delivered \o (IF hand = Nothing THEN <<>> ELSE <<hand>>) \o items

QueueTypeOK ==
  /\ reader \in {"new", "idle", "waiting", "resumed", "ended", "failed", "returned", "threw"}
  /\ (hand # Nothing) <=> reader = "resumed"
  /\ reader = "waiting" => items = <<>> /\ ~finished /\ ~failed

-----------------------------------------------------------------------------
(***************************************************************************)
(* merge.                                                                  *)
(*                                                                         *)
(* A source is asked for a value at the start, and again whenever the      *)
(* consumer has taken the one it gave.  Values are numbered per source;    *)
(* an Err is a value like any other.                                       *)
(***************************************************************************)

CONSTANTS NumSources, \* streams.length
          MaxValues   \* bound: the values a source gives

ASSUME MergeAssumption == NumSources \in Nat /\ MaxValues \in Nat

Source == 1..NumSources

VARIABLES opened,    \* iters: the sources opened by start()
          asked,     \* the sources whose next() has not settled
          sent,      \* per source, the values it gave
          over,      \* the sources that ended or failed
          returned,  \* the sources whose return() was called
          remaining, stopped

mergeVars == <<opened, asked, sent, over, returned, remaining, stopped, queueVars>>

MergeInit ==
  /\ opened = {} /\ asked = {} /\ over = {} /\ returned = {}
  /\ sent = [s \in Source |-> 0]
  /\ remaining = NumSources /\ stopped = FALSE
  /\ QueueInit

\* stop: every source is closed, once.
Stop ==
  /\ stopped' = TRUE
  /\ returned' = IF stopped THEN returned ELSE returned \cup opened

-----------------------------------------------------------------------------
(* The consumer. *)

\* The first [Symbol.asyncIterator](): start() opens the sources, then asks each.
Start ==
  /\ reader = "new"
  /\ opened' = Source /\ asked' = Source
  /\ finished' = (NumSources = 0)
  /\ reader' = "idle"
  /\ UNCHANGED <<sent, over, returned, items, failed, remaining, stopped, hand, delivered>>

\* A source's run() throws in start(): those before it are left open.
StartThrows ==
  /\ reader = "new"
  /\ \E s \in Source : opened' = 1..(s - 1)
  /\ reader' = "threw"
  /\ UNCHANGED <<asked, sent, over, returned, items, finished, failed, remaining, stopped, hand, delivered>>

\* next(), up to its await.
Ask == AskQueue /\ UNCHANGED <<opened, asked, sent, over, returned, remaining, stopped>>

\* next(), after its await, with a value: its source is asked again.
Resume ==
  /\ TakeHand
  /\ asked' = IF stopped THEN asked ELSE asked \cup {hand.source}
  /\ UNCHANGED <<opened, sent, over, returned, remaining, stopped>>

\* return().
Return == Leave /\ Stop /\ finished' = TRUE /\ UNCHANGED <<opened, asked, sent, over, remaining>>

-----------------------------------------------------------------------------
(* The sources. *)

\* next() of source s gives a value, which is dropped after stop().
Gives(s) ==
  /\ s \in asked /\ sent[s] < MaxValues
  /\ asked' = asked \ {s}
  /\ sent' = [sent EXCEPT ![s] = @ + 1]
  /\ \/ stopped /\ UNCHANGED <<items, finished, failed, reader, hand>>
     \/ ~stopped /\ Push([source |-> s, number |-> sent'[s]])
  /\ UNCHANGED <<opened, over, returned, remaining, stopped, delivered>>

\* Source s ends; the last one ends the merge.
Ends(s) ==
  /\ s \in asked
  /\ asked' = asked \ {s} /\ over' = over \cup {s}
  /\ remaining' = IF stopped THEN remaining ELSE remaining - 1
  /\ \/ (stopped \/ remaining > 1) /\ UNCHANGED <<items, finished, failed, reader, hand>>
     \/ ~stopped /\ remaining = 1 /\ Done
  /\ UNCHANGED <<opened, sent, returned, stopped, delivered>>

\* Source s rejects: the others are closed, and the consumer is told at the end.
Fails(s) ==
  /\ s \in asked
  /\ asked' = asked \ {s} /\ over' = over \cup {s}
  /\ Stop
  /\ Fail
  /\ UNCHANGED <<opened, sent, remaining, delivered>>

MergeNext ==
  \/ Start \/ StartThrows \/ Ask \/ Resume \/ Return
  \/ \E s \in Source : Gives(s) \/ Ends(s) \/ Fails(s)

MergeSpec == MergeInit /\ [][MergeNext]_mergeVars

-----------------------------------------------------------------------------
(* Properties. *)

\* The values of source s, and how many of the first n of seq are of a kind.
Of(s) == [source : {s}, number : Nat]
Among(n, seq, kind) == Cardinality({i \in 1..n : seq[i] \in kind})
OfSource(s, seq) == Among(Len(seq), seq, Of(s))

\* While nothing stopped the merge, every source is in exactly one place: being
\* asked, with one value in the queue, with one in the consumer's hand, or over.
\* So none is read more than one value ahead, and none is forgotten (pull).
EachSourceOnce ==
  reader \notin {"new", "threw"} /\ ~stopped =>
    \A s \in Source :
      Cardinality({s} \cap asked) + Cardinality({s} \cap over) + OfSource(s, items)
        + (IF hand # Nothing /\ hand.source = s THEN 1 ELSE 0) = 1

\* What the consumer got or is to get of a source is what the source gave, in
\* order, without gap or repetition, up to where the merge stopped; all that was
\* queued before a failure is delivered, and a merge that ends by itself has
\* delivered everything of every source (createAsyncQueue, pull).
MergedInOrder ==
  /\ \A i \in DOMAIN Stream : Stream[i].number = Among(i, Stream, Of(Stream[i].source))
  /\ reader \in {"ended", "failed"} => items = <<>>
  /\ \A s \in Source :
       /\ ~stopped => OfSource(s, Stream) = sent[s]
       /\ reader = "ended" => OfSource(s, Stream) = sent[s] /\ s \in over

\* However a merge that started ends, no source is left open: each has ended,
\* failed, or was closed (stop).
SourcesReleased ==
  reader \in {"ended", "failed", "returned"} => Source \subseteq over \cup returned

-----------------------------------------------------------------------------
(***************************************************************************)
(* debounce: pumpDebounce reads its source as fast as it answers, holds    *)
(* the latest Ok value back until a timer fires, and passes every Err on   *)
(* at once.                                                                *)
(***************************************************************************)

CONSTANT MaxEach  \* bound: the Ok values, and the Errs, of the source

ASSUME DebounceAssumption == MaxEach \in Nat

VARIABLES pulling,    \* the source's next() has not settled
          okGiven, errGiven,  \* the values the source gave
          timer,      \* the number of the Ok value held back, 0 if no timer runs
          sourceExhausted,
          cancelled,  \* pumpDebounce's stopped
          released    \* the source ended or failed, or its return() was called

debounceVars == <<pulling, okGiven, errGiven, timer, sourceExhausted, cancelled, released, queueVars>>

Value(kind, n) == [kind |-> kind, number |-> n]

DebounceInit ==
  /\ pulling = FALSE /\ okGiven = 0 /\ errGiven = 0 /\ timer = 0
  /\ sourceExhausted = FALSE /\ cancelled = FALSE /\ released = FALSE
  /\ QueueInit

\* The first [Symbol.asyncIterator]() starts the pump.
StartPump ==
  /\ reader = "new"
  /\ reader' = "idle" /\ pulling' = TRUE
  /\ UNCHANGED <<okGiven, errGiven, timer, sourceExhausted, cancelled, released, items, finished, failed, hand, delivered>>

AskPump == AskQueue /\ UNCHANGED <<pulling, okGiven, errGiven, timer, sourceExhausted, cancelled, released>>
TakePumped == TakeHand /\ UNCHANGED <<pulling, okGiven, errGiven, timer, sourceExhausted, cancelled, released>>

QueueSame == UNCHANGED <<items, finished, failed, reader, hand>>

\* onNext with an Ok: the timer starts again with the new value.
OkArrives ==
  /\ pulling /\ okGiven < MaxEach
  /\ okGiven' = okGiven + 1
  /\ pulling' = ~cancelled
  /\ timer' = IF cancelled THEN timer ELSE okGiven'
  /\ QueueSame /\ UNCHANGED <<errGiven, sourceExhausted, cancelled, released, delivered>>

\* onNext with an Err, which overtakes the value held back.
ErrArrives ==
  /\ pulling /\ errGiven < MaxEach
  /\ errGiven' = errGiven + 1
  /\ pulling' = ~cancelled
  /\ \/ cancelled /\ QueueSame
     \/ ~cancelled /\ Push(Value("err", errGiven'))
  /\ UNCHANGED <<okGiven, timer, sourceExhausted, cancelled, released, delivered>>

\* Seeded fault: the end is signalled although a value is held back.
SourceEndsAtOnce ==
  /\ pulling
  /\ pulling' = FALSE /\ released' = TRUE
  /\ sourceExhausted' = ~cancelled
  /\ \/ cancelled /\ QueueSame
     \/ ~cancelled /\ Done
  /\ UNCHANGED <<okGiven, errGiven, timer, cancelled, delivered>>

\* onNext at the end: with a value held back the timer will signal it.
SourceEnds ==
  /\ pulling
  /\ pulling' = FALSE /\ released' = TRUE
  /\ sourceExhausted' = ~cancelled
  /\ \/ (cancelled \/ timer # 0) /\ QueueSame
     \/ ~cancelled /\ timer = 0 /\ Done
  /\ UNCHANGED <<okGiven, errGiven, timer, cancelled, delivered>>

\* onFail: the value held back is given up.
SourceFails ==
  /\ pulling
  /\ pulling' = FALSE /\ released' = TRUE
  /\ cancelled' = TRUE /\ timer' = 0
  /\ \/ cancelled /\ QueueSame
     \/ ~cancelled /\ Fail
  /\ UNCHANGED <<okGiven, errGiven, sourceExhausted, delivered>>

TimerFlushes ==
  /\ timer # 0
  /\ timer' = 0
  /\ PushThen(Value("ok", timer), sourceExhausted)
  /\ UNCHANGED <<pulling, okGiven, errGiven, sourceExhausted, cancelled, released, delivered>>

\* return(): cancel, unless the source has failed.
Cancel ==
  /\ Leave
  /\ cancelled' = TRUE /\ released' = TRUE
  /\ timer' = 0
  /\ finished' = (finished \/ ~cancelled)
  /\ UNCHANGED <<pulling, okGiven, errGiven, sourceExhausted>>

DebounceNext ==
  \/ StartPump \/ AskPump \/ TakePumped \/ Cancel
  \/ OkArrives \/ ErrArrives \/ SourceEnds \/ SourceFails \/ TimerFlushes

DebounceSpec == DebounceInit /\ [][DebounceNext]_debounceVars

-----------------------------------------------------------------------------
(* Properties. *)

Errs == [kind : {"err"}, number : Nat]

\* Values are dropped only for later ones: the Oks come in order, every Err comes,
\* and the latest Ok is on its way or held back until the source fails or the
\* consumer leaves.  A stream that ends by itself has delivered it (onNext).
LatestIsFlushed ==
  /\ \A i, j \in DOMAIN Stream :
       i < j /\ Stream[i].kind = "ok" /\ Stream[j].kind = "ok" => Stream[i].number < Stream[j].number
  /\ \A i \in DOMAIN Stream : Stream[i].kind = "err" => Stream[i].number = Among(i, Stream, Errs)
  /\ ~cancelled => Among(Len(Stream), Stream, Errs) = errGiven
  /\ ~cancelled /\ okGiven > 0 =>
       timer = okGiven \/ \E i \in DOMAIN Stream : Stream[i] = Value("ok", okGiven)
  /\ reader = "ended" => items = <<>> /\ timer = 0 /\ released

\* When the consumer has its end, no timer runs and the source is closed or over:
\* nothing is pushed to a queue that nobody reads (cancel, onFail).
NothingLeftRunning == reader \in {"ended", "failed", "returned"} => timer = 0 /\ released
=============================================================================
