----------------------------- MODULE Semaphore -----------------------------
(***************************************************************************)
(* The counting semaphore of src/async/semaphore.ts, and with Permits = 1  *)
(* its mutex.                                                              *)
(*                                                                         *)
(* One step is what runs between two awaits.  pc says where a caller's     *)
(* wrap(task).run(), or its acquire() ... release(), stands:               *)
(*                                                                         *)
(*   "out"      no call outstanding                                        *)
(*   "waiting"  in the queue of waiters                                    *)
(*   "granted"  acquire()'s promise is resolved, its continuation queued   *)
(*   "running"  past the await: the task runs, or the caller's own code    *)
(*                                                                         *)
(* Continuations run in the order in which their promises were resolved:   *)
(* jobs is that queue.  Callers' code may run before or after any of them. *)
(***************************************************************************)
EXTENDS Naturals, Sequences, FiniteSets, Functions

CONSTANTS Caller,   \* the calls of acquire() or wrap(task).run()
          Permits   \* the argument of Semaphore.create; 1 for a mutex

ASSUME SemaphoreAssumption == IsFiniteSet(Caller) /\ Permits \in Nat \ {0}

VARIABLES available,  \* available
          waiters,    \* waiters: the callers whose closures are queued
          jobs,       \* the callers whose continuations are queued
          pc

semaphoreVars == <<available, waiters, jobs, pc>>

In(state) == {c \in Caller : pc[c] = state}

SemaphoreInit ==
  /\ available = Permits
  /\ waiters = <<>>
  /\ jobs = <<>>
  /\ pc = [c \in Caller |-> "out"]

\* Seeded fault: one permit too many.
MayTakeOneMore == available >= 0

\* acquire's test.
MayTake == available > 0

\* acquire with a permit left: it is taken, the promise resolved at once.
Take(c) ==
  /\ pc[c] = "out"
  /\ MayTake
  /\ available' = available - 1
  /\ pc' = [pc EXCEPT ![c] = "granted"]
  /\ jobs' = Append(jobs, c)
  /\ UNCHANGED waiters

\* acquire with none left: its closure joins the waiters.
Wait(c) ==
  /\ pc[c] = "out"
  /\ ~MayTake
  /\ waiters' = Append(waiters, c)
  /\ pc' = [pc EXCEPT ![c] = "waiting"]
  /\ UNCHANGED <<available, jobs>>

\* The await of acquire() is over: the task starts.
Start(c) ==
  /\ jobs # <<>>
  /\ Head(jobs) = c
  /\ jobs' = Tail(jobs)
  /\ pc' = [pc EXCEPT ![c] = "running"]
  /\ UNCHANGED <<available, waiters>>

\* Seeded fault: pop() in place of shift().
WakeLast(c) ==
  LET last == waiters[Len(waiters)]
  IN  /\ waiters # <<>>
      /\ waiters' = SubSeq(waiters, 1, Len(waiters) - 1)
      /\ jobs' = Append(jobs, last)
      /\ pc' = [pc EXCEPT ![c] = "out", ![last] = "granted"]
      /\ UNCHANGED available

\* release with a waiter: available goes up, and down again in the waiter's
\* closure, which resolves the promise of that acquire.
Wake(c) ==
  /\ waiters # <<>>
  /\ waiters' = Tail(waiters)
  /\ jobs' = Append(jobs, Head(waiters))
  /\ pc' = [pc EXCEPT ![c] = "out", ![Head(waiters)] = "granted"]
  /\ UNCHANGED available

\* Seeded fault: the permit comes back whether or not somebody waits.
PutBackOnly(c) ==
  /\ available' = available + 1
  /\ pc' = [pc EXCEPT ![c] = "out"]
  /\ UNCHANGED <<waiters, jobs>>

\* release with no waiter.
PutBack(c) ==
  /\ waiters = <<>>
  /\ available' = available + 1
  /\ pc' = [pc EXCEPT ![c] = "out"]
  /\ UNCHANGED <<waiters, jobs>>

\* The task has settled, either way, and wrap's finally calls rel(); or the
\* holder calls release itself, once.
Release(c) == pc[c] = "running" /\ (Wake(c) \/ PutBack(c))

SemaphoreNext == \E c \in Caller : Take(c) \/ Wait(c) \/ Start(c) \/ Release(c)

SemaphoreSpec == SemaphoreInit /\ [][SemaphoreNext]_semaphoreVars

\* Queued continuations run and every task settles.
SemaphoreFairness ==
  \A c \in Caller : WF_semaphoreVars(Start(c)) /\ WF_semaphoreVars(Release(c))

-----------------------------------------------------------------------------
\* The type of every variable: no permit is ever owed or invented.
SemaphoreTypeOK ==
  /\ available \in 0..Permits
  /\ waiters \in Seq(Caller)
  /\ jobs \in Seq(Caller)
  /\ pc \in [Caller -> {"out", "waiting", "granted", "running"}]

\* No permit and no acquire is lost: what is available and what calls have
\* been granted always makes up Permits, though it is counted up and down in
\* closures that other callers run; each waiting call is queued once, each
\* granted one has its continuation queued once; and no permit lies unused
\* while a call waits for one.
NoLostWakeup ==
  /\ available + Cardinality(In("granted") \cup In("running")) = Permits
  /\ IsInjective(waiters) /\ Range(waiters) = In("waiting")
  /\ IsInjective(jobs) /\ Range(jobs) = In("granted")
  /\ available > 0 => waiters = <<>>

\* The two: counts and queues are what they stand for.
SemaphoreSound == SemaphoreTypeOK /\ NoLostWakeup

\* The semaphore is a turnstile: at most Permits tasks run at once, and they
\* start in the order in which acquire was called, whether a call took a
\* permit at once or was woken by a release ("Wrap a task: queues if all
\* permits are taken", semaphore.ts:30).
Line == INSTANCE Turnstile WITH line <- jobs \o waiters, inside <- In("running")
ImplementsTurnstile == Line!TurnstileSpec

\* "acquire: Resolves when a permit is available" (semaphore.ts:40): every
\* call comes to run when the tasks before it settle.
EveryCallRuns == \A c \in Caller : pc[c] # "out" ~> pc[c] = "running"
=============================================================================
