------------------------------- MODULE Queue -------------------------------
(***************************************************************************)
(* The job queue of src/async/queue.ts.                                    *)
(*                                                                         *)
(* The queue calls its user in the middle of its own work: handler(job)    *)
(* runs synchronously up to its first await inside dequeue's loop, and     *)
(* onError inside the continuation of a failed job.  Both may call push,   *)
(* pause, resume and drain, which may call handlers in turn.  stack is the *)
(* JavaScript call stack as far as the queue is on it: a frame for each    *)
(* activation of dequeue (or of the failure continuation that leads to     *)
(* one), the innermost last.  The field at says where a frame stands:      *)
(*                                                                         *)
(*   "onError"  onError runs, dequeue comes after it                       *)
(*   "dequeue"  dequeue has been called and has not yet tested paused      *)
(*   "handler"  the handler of the frame's job runs, in the loop           *)
(*   "loop"     the handler has returned or thrown                         *)
(*                                                                         *)
(* and check says whether checkDrain follows.  With an empty stack the     *)
(* event loop runs: other code calls the queue, or a job settles.          *)
(***************************************************************************)
EXTENDS Integers, Sequences, FiniteSets, Functions

CONSTANTS Concurrency,  \* QueueOptions.concurrency
          HasOnError,   \* whether QueueOptions.onError is given
          Priorities,   \* the priorities jobs are pushed with
          Clock,        \* what Date.now() can return, in any order
          Drainer,      \* the calls of drain(); each is made once
          MaxJobs,      \* bound: how many jobs are pushed
          MaxDepth,     \* bound: how deep calls of the queue nest
          None          \* the job of a frame in which no handler runs

ASSUME QueueAssumption ==
  /\ Concurrency \in Nat \ {0} /\ MaxJobs \in Nat /\ MaxDepth \in Nat
  /\ HasOnError \in BOOLEAN
  /\ Priorities \subseteq Int /\ Clock \subseteq Nat

VARIABLES
  pending,         \* pending
  activeCount,     \* activeCount
  processedCount,  \* processedCount
  paused,          \* paused
  nextJobId,       \* nextJobId
  awaiting,        \* the jobs whose handlers returned a promise, unsettled
  threw,           \* the jobs whose handlers threw before their first await
  stack,           \* the queue's frames on the call stack
  dpc,             \* per drain(): "uncalled", "waiting" (in drainWaiters) or "resolved"
  promised,        \* history: per drain(), the jobs unfinished at its call
  broken           \* history: an onError threw, out of the continuation

counts == <<activeCount, processedCount>>
drains == <<dpc, promised>>
queueVars == <<pending, counts, paused, nextJobId, awaiting, threw, stack, drains, broken>>

Job == [id : 1..MaxJobs, priority : Priorities, createdAt : Clock]

QueueInit ==
  /\ pending = <<>> /\ activeCount = 0 /\ processedCount = 0
  /\ paused = FALSE /\ nextJobId = 1
  /\ awaiting = {} /\ threw = {} /\ stack = <<>> /\ broken = FALSE
  /\ dpc = [d \in Drainer |-> "uncalled"]
  /\ promised = [d \in Drainer |-> {}]

\* The innermost frame; its replacement, removal, and a call on top of it.
Top == stack[Len(stack)]
At(place) == stack # <<>> /\ Top.at = place
Popped == SubSeq(stack, 1, Len(stack) - 1)
Goto(place, j) == stack' = [stack EXCEPT ![Len(stack)].at = place, ![Len(stack)].job = j]
Frame(place, check) == [at |-> place, check |-> check, job |-> None]

\* The jobs being processed, and all that are unfinished.
Active == awaiting \cup threw \cup {f.job : f \in {g \in Range(stack) : g.at = "handler"}}
Unfinished == Range(pending) \cup Active

-----------------------------------------------------------------------------
\* Seeded fault: < for <=, and equal keys go before one another.
NotAfterStrict(existing, new) ==
  \/ existing.priority < new.priority
  \/ existing.priority = new.priority /\ existing.createdAt < new.createdAt

\* insertSorted's comparison.
NotAfter(existing, new) ==
  \/ existing.priority < new.priority
  \/ existing.priority = new.priority /\ existing.createdAt <= new.createdAt

\* insertSorted's binary search, for how many entries the new job comes after.
Position(new) ==
  LET search[range \in (0..Len(pending)) \X (0..Len(pending))] ==
        LET low == range[1]  high == range[2]  mid == (low + high) \div 2
        IN  IF low >= high THEN low
            ELSE IF NotAfter(pending[mid + 1], new) THEN search[<<mid + 1, high>>]
                 ELSE search[<<low, mid>>]
  IN  search[<<0, Len(pending)>>]

InsertSorted(new) ==
  LET low == Position(new)
  IN  pending' = SubSeq(pending, 1, low) \o <<new>> \o SubSeq(pending, low + 1, Len(pending))

\* checkDrain.
CheckDrain ==
  dpc' = [d \in Drainer |-> IF pending = <<>> /\ activeCount = 0 /\ dpc[d] = "waiting"
                            THEN "resolved" ELSE dpc[d]]

-----------------------------------------------------------------------------
\* User code runs: other code, a handler, or onError.
UserRuns == (stack = <<>> \/ At("handler") \/ At("onError")) /\ Len(stack) < MaxDepth

Push(priority, now) ==
  /\ UserRuns
  /\ nextJobId <= MaxJobs
  /\ nextJobId' = nextJobId + 1
  /\ InsertSorted([id |-> nextJobId, priority |-> priority, createdAt |-> now])
  /\ stack' = Append(stack, Frame("dequeue", FALSE))
  /\ UNCHANGED <<counts, paused, awaiting, threw, drains, broken>>

Pause ==
  /\ UserRuns
  /\ paused' = TRUE
  /\ UNCHANGED <<pending, counts, nextJobId, awaiting, threw, stack, drains, broken>>

\* Seeded fault: resume leaves it to the next push to dequeue.
ResumeOnly ==
  /\ UserRuns
  /\ paused' = FALSE
  /\ UNCHANGED <<pending, counts, nextJobId, awaiting, threw, stack, drains, broken>>

Resume ==
  /\ UserRuns
  /\ paused' = FALSE
  /\ stack' = Append(stack, Frame("dequeue", FALSE))
  /\ UNCHANGED <<pending, counts, nextJobId, awaiting, threw, drains, broken>>

Drain(d) ==
  /\ UserRuns
  /\ dpc[d] = "uncalled"
  /\ promised' = [promised EXCEPT ![d] = Unfinished]
  /\ \/ /\ pending = <<>> /\ activeCount = 0
        /\ dpc' = [dpc EXCEPT ![d] = "resolved"]
     \/ /\ ~(pending = <<>> /\ activeCount = 0)
        /\ dpc' = [dpc EXCEPT ![d] = "waiting"]
  /\ UNCHANGED <<pending, counts, paused, nextJobId, awaiting, threw, stack, broken>>

\* dequeue's tests: paused is read on entry only.
MayStart ==
  /\ At("loop") \/ (At("dequeue") /\ ~paused)
  /\ activeCount < Concurrency
  /\ pending # <<>>

\* dequeue takes the first job and processJob calls its handler.
StartJob ==
  /\ MayStart
  /\ pending' = Tail(pending)
  /\ activeCount' = activeCount + 1
  /\ Goto("handler", Head(pending))
  /\ UNCHANGED <<processedCount, paused, nextJobId, awaiting, threw, drains, broken>>

\* The handler returns its promise ...
HandlerReturns ==
  /\ At("handler")
  /\ awaiting' = awaiting \cup {Top.job}
  /\ Goto("loop", None)
  /\ UNCHANGED <<pending, counts, paused, nextJobId, threw, drains, broken>>

\* ... or throws, for which processJob puts a rejected one.
HandlerThrows ==
  /\ At("handler")
  /\ threw' = threw \cup {Top.job}
  /\ Goto("loop", None)
  /\ UNCHANGED <<pending, counts, paused, nextJobId, awaiting, drains, broken>>

\* dequeue returns, and checkDrain follows where it was called by processJob.
EndDequeue ==
  /\ At("loop") \/ At("dequeue")
  /\ ~MayStart
  /\ stack' = Popped
  /\ IF Top.check THEN CheckDrain ELSE UNCHANGED dpc
  /\ UNCHANGED <<pending, counts, paused, nextJobId, awaiting, threw, promised, broken>>

\* The continuation of a job's promise.
Fulfilled(j) ==
  /\ stack = <<>>
  /\ j \in awaiting
  /\ awaiting' = awaiting \ {j}
  /\ activeCount' = activeCount - 1
  /\ processedCount' = processedCount + 1
  /\ stack' = <<Frame("dequeue", TRUE)>>
  /\ UNCHANGED <<pending, paused, nextJobId, threw, drains, broken>>

\* Seeded fault: checkDrain is not called after a failed job.
RejectedNoCheck(j) ==
  /\ stack = <<>>
  /\ j \in awaiting \cup threw
  /\ awaiting' = awaiting \ {j}
  /\ threw' = threw \ {j}
  /\ activeCount' = activeCount - 1
  /\ processedCount' = processedCount + 1
  /\ stack' = <<Frame(IF HasOnError THEN "onError" ELSE "dequeue", FALSE)>>
  /\ UNCHANGED <<pending, paused, nextJobId, drains, broken>>

Rejected(j) ==
  /\ stack = <<>>
  /\ j \in awaiting \cup threw
  /\ awaiting' = awaiting \ {j}
  /\ threw' = threw \ {j}
  /\ activeCount' = activeCount - 1
  /\ processedCount' = processedCount + 1
  /\ stack' = <<Frame(IF HasOnError THEN "onError" ELSE "dequeue", TRUE)>>
  /\ UNCHANGED <<pending, paused, nextJobId, drains, broken>>

\* onError returns and dequeue is called ...
OnErrorReturns ==
  /\ At("onError")
  /\ Goto("dequeue", None)
  /\ UNCHANGED <<pending, counts, paused, nextJobId, awaiting, threw, drains, broken>>

\* ... or throws: neither dequeue nor checkDrain is reached.
OnErrorThrows ==
  /\ At("onError")
  /\ stack' = Popped
  /\ broken' = TRUE
  /\ UNCHANGED <<pending, counts, paused, nextJobId, awaiting, threw, drains>>

-----------------------------------------------------------------------------
Call == \/ \E priority \in Priorities, now \in Clock : Push(priority, now)
        \/ Pause \/ Resume
        \/ \E d \in Drainer : Drain(d)
Dequeue == StartJob \/ EndDequeue
HandlerEnds == HandlerReturns \/ HandlerThrows
OnErrorEnds == OnErrorReturns \/ OnErrorThrows
Settle(j) == Fulfilled(j) \/ Rejected(j)

QueueNext == Call \/ Dequeue \/ HandlerEnds \/ OnErrorEnds \/ \E j \in Job : Settle(j)

QueueSpec == QueueInit /\ [][QueueNext]_queueVars

\* JavaScript goes on with what is on the stack; the synchronous part of a
\* handler and onError end, whatever they call before; while jobs are being
\* processed one of them settles, though other code also runs.
QueueFairness ==
  /\ WF_queueVars(Dequeue) /\ SF_queueVars(HandlerEnds) /\ SF_queueVars(OnErrorEnds)
  /\ SF_queueVars(\E j \in Job : Settle(j))

-----------------------------------------------------------------------------
\* The type of every variable; activeCount is the number of jobs whose
\* handlers were called and have not settled.
QueueTypeOK ==
  /\ pending \in Seq(Job)
  /\ activeCount = Cardinality(Active)
  /\ processedCount \in 0..MaxJobs
  /\ paused \in BOOLEAN
  /\ nextJobId \in 1..(MaxJobs + 1)
  /\ awaiting \subseteq Job /\ threw \subseteq Job
  /\ stack \in Seq([at : {"onError", "dequeue", "handler", "loop"}, check : BOOLEAN,
                    job : Job \cup {None}])
  /\ dpc \in [Drainer -> {"uncalled", "waiting", "resolved"}]
  /\ promised \in [Drainer -> SUBSET Job]
  /\ broken \in BOOLEAN

\* When the queue is not on the stack and not paused, no job waits while a
\* slot is free ("resume: Immediately attempts to dequeue pending jobs",
\* queue.ts:85), whatever handlers called in what nesting: only an onError
\* that throws can leave the queue stalled.
NoIdleSlot ==
  stack = <<>> /\ ~paused /\ ~broken => pending = <<>> \/ activeCount = Concurrency

\* "drain: resolves when all pending and active jobs finish" (queue.ts:81):
\* no job that was pending or active at the call is unfinished when it has
\* resolved, though jobs finish in any order and others are pushed.
DrainCovers ==
  \A d \in Drainer : dpc[d] = "resolved" => promised[d] \cap Unfinished = {}

\* The three: activeCount counts what runs, nothing stalls, and no drain resolves early.
QueueSound == QueueTypeOK /\ NoIdleSlot /\ DrainCovers

\* The queue is a job board: never more than Concurrency jobs at once, each
\* started once and as the first that is due, ties by insertion order, even
\* when handlers push in the middle of dequeue's loop.
B == INSTANCE JobBoard WITH
       last <- nextJobId - 1, posted <- Range(pending), active <- Active,
       finished <- processedCount
ImplementsJobBoard == B!BoardSpec

\* A drain() resolves when the queue is in the end not paused any more and
\* no onError throws.
DrainResolves ==
  []~broken /\ <>[]~paused =>
    \A d \in Drainer : dpc[d] = "waiting" ~> dpc[d] = "resolved"
=============================================================================
