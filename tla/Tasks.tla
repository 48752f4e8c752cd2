------------------------------- MODULE Tasks -------------------------------
(***************************************************************************)
(* Task's parallel combinators (src/src/async/task.ts), the delays of a    *)
(* retry policy (retry.ts), and a Lazy cell with one derived from it       *)
(* (lazy.ts).                                                              *)
(*                                                                         *)
(* Parallel tasks settle in any order, each with an Ok, an Err or a        *)
(* rejection.  The thunk of a Lazy and the function of the derived one are *)
(* user code: before it returns or throws it may read its own cell, read   *)
(* the other one, or dispose of either.                                    *)
(***************************************************************************)
EXTENDS Integers, Sequences

CONSTANTS
  NumTasks,  \* how many tasks run in parallel
  MaxReads,  \* bound: reads of a Lazy made from outside
  MaxRuns,   \* bound: calls of the thunks of a Lazy and the one derived from it
  Policies   \* retry policies: [delay, backoff, maxDelay]

\* A delay is a number of milliseconds.
ASSUME TasksAssumption ==
  /\ NumTasks \in Nat \ {0} /\ {MaxReads, MaxRuns} \subseteq Nat
  /\ Policies \subseteq [delay : Nat, backoff : {"fixed", "linear", "exponential"},
                         maxDelay : Nat, jitter : BOOLEAN]

TaskId == 1..NumTasks

VARIABLES
  combinator, \* which of them runs the tasks
  settled,    \* per task, what it settled with, or "running"
  order,      \* the tasks in the order they settled (history)
  combined,   \* what the combinator's promise settled with, or "pending"
  cell,       \* per Lazy, [evaluated, thunk, disposed, value]
  frames,     \* the thunks that run, the innermost last: of which Lazy, the number of the run,
              \* and what derived got of base
  runs,       \* how often a thunk was called
  seen,       \* what reads from outside returned, per Lazy (history)
  reads

parallelVars == <<combinator, settled, order, combined>>
lazyVars     == <<cell, frames, runs, seen, reads>>

Parallel == {"all", "traverse", "allSettled", "race", "zip"}

-----------------------------------------------------------------------------
(* The parallel combinators; sequence is all, and ap is zip.  A task is    *)
(* named by its number, so that Ok of task i is "ok" at position i.        *)

TasksInit ==
  /\ combinator \in Parallel
  /\ settled = [t \in TaskId |-> "running"] /\ order = <<>> /\ combined = <<"pending">>

\* Seeded fault: the results are collected in the order in which they came.
CollectAsSettled(results) ==
  IF \E i \in 1..Len(order) : results[order[i]] = "err"
  THEN <<"err", order[CHOOSE i \in 1..Len(order) : results[order[i]] = "err"
                        /\ \A j \in 1..(i - 1) : results[order[j]] # "err"]>>
  ELSE <<"ok">>

\* collectResults, and the tests of zip and ap: the Err that comes first in the list.
CollectResults(results) ==
  IF \E t \in TaskId : results[t] = "err"
  THEN <<"err", CHOOSE t \in TaskId : results[t] = "err" /\ \A u \in 1..(t - 1) : results[u] # "err">>
  ELSE <<"ok">>

\* Promise.all waits for every task and rejects with the first rejection; traverse makes
\* an Err of that; Promise.race takes what settles first.
Combined(results, t) ==
  IF combinator = "race" THEN <<results[t], t>>
  ELSE IF results[t] = "rejected" THEN <<IF combinator = "traverse" THEN "err" ELSE "rejected", t>>
  ELSE IF \E u \in TaskId : results[u] = "running" THEN <<"pending">>
  ELSE IF combinator = "allSettled" THEN <<"ok">>
  ELSE CollectResults(results)

TaskSettles(t) ==
  /\ settled[t] = "running"
  /\ \E r \in {"ok", "err", "rejected"} : settled' = [settled EXCEPT ![t] = r]
  /\ order' = Append(order, t)
  /\ combined' = IF combined = <<"pending">> THEN Combined(settled', t) ELSE combined
  /\ UNCHANGED combinator

\* The combinators that are documented to answer on the first error.
OnFirstError == {"all", "traverse"}

\* Whatever order the tasks settle in, only race and a rejection go by time: when all tasks
\* are done without one, the answer is the first Err of the list, even if another came
\* before it, or Ok if there is none.  Ok, and any answer of zip and allSettled, comes when
\* all are done.  Whether all, sequence and traverse may answer an Err sooner is left open:
\* the code waits for every task, task.ts:285, 359 and 398 say "Short-circuits on first error".
CombinedByPosition ==
  LET rejected == {t \in TaskId : settled[t] = "rejected"}
      erred    == {t \in TaskId : settled[t] = "err"}
      done     == \A t \in TaskId : settled[t] # "running"
  IN /\ combinator = "race" =>
          combined = IF order = <<>> THEN <<"pending">> ELSE <<settled[order[1]], order[1]>>
     /\ combinator # "race" /\ rejected # {} /\ (combinator \in OnFirstError => erred = {}) =>
          \E t \in rejected : /\ combined = <<IF combinator = "traverse" THEN "err" ELSE "rejected", t>>
                              /\ \A i \in 1..Len(order) : order[i] = t => \A j \in 1..(i - 1) : order[j] \notin rejected
     /\ combinator # "race" /\ rejected = {} =>
          /\ combined = <<"ok">> \/ (combined # <<"pending">> /\ combinator \notin OnFirstError) => done
          /\ done => \/ combined = <<"ok">> /\ (erred = {} \/ combinator = "allSettled")
                     \/ \E t \in erred : combined = <<"err", t>> /\ \A u \in erred : t <= u

-----------------------------------------------------------------------------
(* computeDelay of a retry policy, and its jitter. *)

DelayCapped(p, attempt) ==
  LET raw == CASE p.backoff = "exponential" -> p.delay * 2^attempt
               [] p.backoff = "linear" -> p.delay * (attempt + 1)
               [] OTHER -> p.delay
  IN IF raw > p.maxDelay THEN p.maxDelay ELSE raw

ComputeDelay(p, attempt) ==
  IF p.jitter THEN 0..(IF DelayCapped(p, attempt) = 0 THEN 0 ELSE DelayCapped(p, attempt) - 1)
  ELSE {DelayCapped(p, attempt)}

\* A later retry never waits less than an earlier one (but for jitter), and never more
\* than the cap.
DelaysGrow ==
  \A p \in Policies : \A a \in 0..3 :
    /\ \A d \in ComputeDelay(p, a) : d >= 0 /\ d <= p.maxDelay
    /\ ~p.jitter => \A d \in ComputeDelay(p, a), e \in ComputeDelay(p, a + 1) : d <= e

-----------------------------------------------------------------------------
(* Lazy: "base" has the thunk, "derived" is base.map(fn). *)

LazyName == {"base", "derived"}

\* A value of base is told by the number of the run that returned it, from 1 on; one of
\* derived by the value of base it was made of.
Threw   == 0
Unread  == -1
NewCell == [evaluated |-> FALSE, thunk |-> TRUE, disposed |-> FALSE, value |-> 0]

LazyInit ==
  /\ cell = [c \in LazyName |-> NewCell] /\ seen = [c \in LazyName |-> {}]
  /\ frames = <<>> /\ runs = 0 /\ reads = 0

\* The thunk that runs, and whether it is at the user's code: fn of derived is called
\* after base has been read.
Innermost == frames[Len(frames)]
UserCode  == frames # <<>> /\ (Innermost.lazy = "derived" => Innermost.got > Threw)

\* The value getter: what it answers at once, or the thunk it calls.
Answers(c)  == cell[c].disposed \/ cell[c].evaluated \/ ~cell[c].thunk
Answered(c) == IF cell[c].disposed \/ ~cell[c].evaluated THEN Threw ELSE cell[c].value
CallThunk(c) ==
  /\ runs < MaxRuns
  /\ runs' = runs + 1
  /\ frames' = Append(frames, [lazy |-> c, run |-> runs + 1, got |-> Unread])

Show(c, answer) ==
  seen' = IF answer = Threw THEN seen ELSE [seen EXCEPT ![c] = @ \cup {answer}]

\* A read of either Lazy, from outside or by the user's code in a thunk.
ReadLazy(c) ==
  /\ UserCode \/ (frames = <<>> /\ reads < MaxReads)
  /\ reads' = IF frames = <<>> THEN reads + 1 ELSE reads
  /\ \/ Answers(c) /\ frames = <<>> /\ Show(c, Answered(c)) /\ UNCHANGED <<frames, runs>>
     \/ Answers(c) /\ frames # <<>> /\ UNCHANGED <<frames, runs, seen>>
     \/ ~Answers(c) /\ CallThunk(c) /\ UNCHANGED seen
  /\ UNCHANGED cell

\* The thunk of derived begins by reading base.
DerivedReads ==
  /\ frames # <<>> /\ Innermost.lazy = "derived" /\ Innermost.got = Unread
  /\ \/ /\ Answers("base")
        /\ frames' = [frames EXCEPT ![Len(frames)] = [@ EXCEPT !.got = Answered("base")]]
        /\ UNCHANGED runs
     \/ ~Answers("base") /\ CallThunk("base")
  /\ UNCHANGED <<cell, seen, reads>>

\* What follows the thunk's return in the getter.
FinishLazy(c, v) ==
  cell' = [cell EXCEPT ![c] = [@ EXCEPT !.value = v, !.thunk = FALSE, !.evaluated = TRUE]]

\* Hands what the innermost thunk came to to the thunk below, or to the reader outside.
HandDown(answer) ==
  LET n == Len(frames) - 1
      below == SubSeq(frames, 1, n)
  IN  /\ frames' = IF n > 0 /\ below[n].lazy = "derived" /\ below[n].got = Unread
                   THEN [below EXCEPT ![n] = [@ EXCEPT !.got = answer]] ELSE below
      /\ IF n = 0 THEN Show(Innermost.lazy, answer) ELSE UNCHANGED seen

\* A thunk returns.  If it has read its own cell, a run within it has already set the value,
\* which is overwritten.
Returned == IF Innermost.lazy = "base" THEN Innermost.run ELSE Innermost.got
ThunkReturns ==
  /\ UserCode
  /\ FinishLazy(Innermost.lazy, Returned)
  /\ HandDown(Returned)
  /\ UNCHANGED <<runs, reads>>

\* It throws: in the user's code, or because base did.
ThunkThrows ==
  /\ frames # <<>> /\ (Innermost.lazy = "derived" => Innermost.got # Unread)
  /\ HandDown(Threw)
  /\ UNCHANGED <<cell, runs, reads>>

Dispose(c) ==
  /\ frames = <<>> \/ UserCode
  /\ cell' = [cell EXCEPT ![c] = [@ EXCEPT !.value = 0, !.thunk = FALSE, !.disposed = TRUE]]
  /\ UNCHANGED <<frames, runs, seen, reads>>

LazyNext ==
  \/ \E c \in LazyName : ReadLazy(c) \/ Dispose(c)
  \/ DerivedReads \/ ThunkReturns \/ ThunkThrows

\* Whatever its thunk does (throw, read its own cell or the derived one, dispose of either,
\* while it runs), all reads of a Lazy from outside that return a value return one value,
\* which the cell keeps until it is disposed of; and the derived one answers with what was
\* made of the run base answers with, or of a run that was started within that one.
LazyStable ==
  /\ \A c \in LazyName : \A v \in seen[c] :
       /\ seen[c] = {v}
       /\ cell[c].evaluated /\ (cell[c].disposed \/ cell[c].value = v)
  /\ \A b \in seen["base"], d \in seen["derived"] : b <= d
=============================================================================
