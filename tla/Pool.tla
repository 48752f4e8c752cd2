-------------------------------- MODULE Pool --------------------------------
(***************************************************************************)
(* The resource pool of src/async/pool.ts.                                 *)
(*                                                                         *)
(* JavaScript runs one job at a time: everything between two awaits is one *)
(* step here, and every await is a place where steps of other callers,     *)
(* timers and drains can come in between.  pc says at which await the      *)
(* acquire() call of a caller stands:                                      *)
(*                                                                         *)
(*   "out"         no call outstanding, nothing held                       *)
(*   "validating"  in tryAcquireIdle, at await validate(resource)          *)
(*   "found"       tryAcquireIdle has returned a resource, acquireImpl has *)
(*                 not yet been resumed with it                            *)
(*   "none"        tryAcquireIdle has returned undefined, likewise         *)
(*   "creating"    in createReserved, at await create()                    *)
(*   "parked"      in the queue of waiters                                 *)
(*   "handed", "drained", "retry"                                          *)
(*                 the waiter's promise was resolved with a resource, with *)
(*                 DRAINED or with RETRY; its continuation is pending      *)
(*   "returning"   acquireImpl has returned Ok, its caller is not resumed  *)
(*   "held"        the caller has a PooledResource it has not released     *)
(*   "released"    the caller still has the handle, with released = true   *)
(*                                                                         *)
(* Continuations run in the order in which their promises settled: jobs is *)
(* that queue.  The caller's own code (acquire, release, drain) may run    *)
(* before or after any of them, and so may the continuations of create,    *)
(* validate and destroy, whose promises settle when the caller likes.      *)
(* A resource is in live from create() to the call of destroy().  drain()  *)
(* awaits the destroy() of what lay idle; everything else is destroyed     *)
(* without anybody awaiting it, and is in destroying until destroy()       *)
(* settles.                                                                *)
(***************************************************************************)
EXTENDS Naturals, Sequences, FiniteSets, Functions

CONSTANTS Caller,         \* the callers of acquire() and use()
          Drainer,        \* the calls of drain(); each is made once
          Resource,       \* the names a resource can have: a bound on those alive and in destroying
          MaxSize,        \* PoolOptions.maxSize
          HasValidate,    \* whether PoolOptions.validate is given
          HasIdleTimeout, \* whether PoolOptions.idleTimeout is positive
          None            \* undefined

ASSUME PoolAssumption ==
  /\ MaxSize \in Nat \ {0}
  /\ IsFiniteSet(Caller)
  /\ HasValidate \in BOOLEAN
  /\ HasIdleTimeout \in BOOLEAN
  /\ None \notin Resource
  /\ None \notin Drainer

VARIABLES
  idle,          \* idleResources, oldest first
  activeCount,   \* activeCount
  draining,      \* draining
  waiters,       \* waiters: the callers whose resolve functions are queued
  drainResolve,  \* the drain() call whose promise drainResolve resolves
  jobs,          \* the calls whose continuations are queued, in order
  live,          \* resources created and not yet passed to destroy()
  destroying,    \* those passed to a destroy() that nobody awaits and that has not settled
  pc, res,       \* per caller: where its call stands and with which resource
  dpc,           \* per drain() call: "idle", "sweeping", "waiting" or "done"
  sweep          \* per drain() call: what is left of idleToDestroy

slots  == <<idle, activeCount>>
drains == <<draining, drainResolve, dpc, sweep>>
vars   == <<slots, drains, waiters, jobs, live, destroying, pc, res>>

-----------------------------------------------------------------------------
\* Calls that have a resource, those a slot of activeCount is reserved for,
\* those that wait, and those whose continuation is queued.
OwningState  == {"validating", "found", "handed", "returning", "held"}
CountedState == OwningState \cup {"creating"}
ResumedState == {"found", "none", "handed", "drained", "retry", "returning"}
PCState      == CountedState \cup ResumedState \cup {"out", "parked", "released"}

Owning  == {c \in Caller : pc[c] \in OwningState}
Counted == {c \in Caller : pc[c] \in CountedState}
Parked  == {c \in Caller : pc[c] = "parked"}
Resumed == {c \in Caller : pc[c] \in ResumedState}

Init ==
  /\ idle = <<>> /\ activeCount = 0 /\ waiters = <<>> /\ jobs = <<>>
  /\ live = {} /\ destroying = {}
  /\ draining = FALSE /\ drainResolve = None
  /\ pc = [c \in Caller |-> "out"]
  /\ res = [c \in Caller |-> None]
  /\ dpc = [d \in Drainer |-> "idle"]
  /\ sweep = [d \in Drainer |-> <<>>]

\* It is the turn of c's continuation.
Running(c) == jobs # <<>> /\ Head(jobs) = c

\* Seeded fault: the test reads activeCount before it is decremented.
CheckDrainCompleteEarly ==
  IF draining' /\ activeCount = 0 /\ idle' = <<>> /\ drainResolve # None
  THEN drainResolve' = None /\ dpc' = [dpc EXCEPT ![drainResolve] = "done"]
  ELSE UNCHANGED <<drainResolve, dpc>>

\* checkDrainComplete, called with the other fields already updated.
CheckDrainComplete ==
  IF draining' /\ activeCount' = 0 /\ idle' = <<>> /\ drainResolve # None
  THEN drainResolve' = None /\ dpc' = [dpc EXCEPT ![drainResolve] = "done"]
  ELSE UNCHANGED <<drainResolve, dpc>>

\* void destroyResource(r): destroy() is called and not awaited.
Discard(r) ==
  /\ live' = live \ {r}
  /\ destroying' = destroying \cup {r}

\* A counted resource is destroyed instead of being kept.
DestroyCounted(r) ==
  /\ activeCount' = activeCount - 1
  /\ Discard(r)
  /\ UNCHANGED <<idle, draining, waiters, sweep>>
  /\ CheckDrainComplete

\* tryAcquireIdle from the test of its loop on, where activeCount = active
\* and the job queue is rest: take the oldest idle resource and validate it,
\* or return undefined.
TryAcquireIdle(c, active, rest) ==
  \/ /\ idle # <<>>
     /\ idle' = Tail(idle)
     /\ activeCount' = active + 1
     /\ res' = [res EXCEPT ![c] = Head(idle)]
     /\ IF HasValidate
        THEN pc' = [pc EXCEPT ![c] = "validating"] /\ jobs' = rest
        ELSE pc' = [pc EXCEPT ![c] = "found"] /\ jobs' = Append(rest, c)
  \/ /\ idle = <<>>
     /\ activeCount' = active
     /\ res' = [res EXCEPT ![c] = None]
     /\ pc' = [pc EXCEPT ![c] = "none"]
     /\ jobs' = Append(rest, c)
     /\ UNCHANGED idle

\* acquire().run() up to the first await.  While the pool drains it returns
\* Err at once and changes nothing.
Acquire(c) ==
  /\ pc[c] \in {"out", "released"}
  /\ ~draining
  /\ TryAcquireIdle(c, activeCount, jobs)
  /\ UNCHANGED <<drains, waiters, live, destroying>>

\* validate(resource) resolves with true.
ValidateHealthy(c) ==
  /\ pc[c] = "validating"
  /\ pc' = [pc EXCEPT ![c] = "found"]
  /\ jobs' = Append(jobs, c)
  /\ UNCHANGED <<slots, drains, waiters, live, destroying, res>>

\* Seeded fault: the slot of the unhealthy resource is not given up.
ValidateUnhealthyKeepsSlot(c) ==
  /\ pc[c] = "validating"
  /\ Discard(res[c])
  /\ TryAcquireIdle(c, activeCount, jobs)
  /\ UNCHANGED <<drains, waiters>>

\* validate(resource) resolves with false or rejects: the resource is
\* destroyed, its slot is given up and the loop goes on.
ValidateUnhealthy(c) ==
  /\ pc[c] = "validating"
  /\ Discard(res[c])
  /\ TryAcquireIdle(c, activeCount - 1, jobs)
  /\ UNCHANGED <<drains, waiters>>

\* checkout of a counted resource r: it is wrapped for its caller ...
Grant(c, r, rest) ==
  /\ pc' = [pc EXCEPT ![c] = "returning"]
  /\ res' = [res EXCEPT ![c] = r]
  /\ live' = live \cup {r}
  /\ jobs' = Append(rest, c)
  /\ UNCHANGED <<slots, drains, waiters, destroying>>

\* ... or discarded because a drain began meanwhile.
Refuse(c, r, rest) ==
  /\ pc' = [pc EXCEPT ![c] = "out"]
  /\ res' = [res EXCEPT ![c] = None]
  /\ jobs' = rest
  /\ DestroyCounted(r)

\* Seeded fault: checkout does not look at draining again.
CheckoutNoRecheck(c, r, rest) == Grant(c, r, rest)

Checkout(c, r, rest) ==
  \/ ~draining /\ Grant(c, r, rest)
  \/ draining /\ Refuse(c, r, rest)

\* acquireImpl goes on with the idle resource.
FoundIdle(c) ==
  /\ pc[c] = "found"
  /\ Running(c)
  /\ Checkout(c, res[c], Tail(jobs))

\* totalSize < maxSize.
BelowMax == Len(idle) + activeCount < MaxSize

\* acquireImpl goes on without one, below maxSize: createReserved up to its
\* await.  draining is not read again here.
ReserveSlot(c) ==
  /\ pc[c] = "none"
  /\ Running(c)
  /\ BelowMax
  /\ activeCount' = activeCount + 1
  /\ pc' = [pc EXCEPT ![c] = "creating"]
  /\ jobs' = Tail(jobs)
  /\ UNCHANGED <<idle, drains, waiters, live, destroying, res>>

\* acquireImpl goes on without one, at maxSize: the call joins the waiters.
Park(c) ==
  /\ pc[c] = "none"
  /\ Running(c)
  /\ ~BelowMax
  /\ waiters' = Append(waiters, c)
  /\ pc' = [pc EXCEPT ![c] = "parked"]
  /\ jobs' = Tail(jobs)
  /\ UNCHANGED <<slots, drains, live, destroying, res>>

\* create() resolves with a new resource.
CreateOk(c, r) ==
  /\ pc[c] = "creating"
  /\ r \notin live \cup destroying
  /\ Checkout(c, r, jobs)

\* Seeded fault: a slot freed without a resource wakes no waiter.
EndAndRetryNobody(c) ==
  pc' = [pc EXCEPT ![c] = "out"] /\ UNCHANGED <<waiters, jobs>>

\* The call ends and the first waiter, if any, is told to retry.
EndAndRetry(c) ==
  \/ /\ waiters = <<>>
     /\ pc' = [pc EXCEPT ![c] = "out"]
     /\ UNCHANGED <<waiters, jobs>>
  \/ /\ waiters # <<>>
     /\ pc' = [pc EXCEPT ![c] = "out", ![Head(waiters)] = "retry"]
     /\ waiters' = Tail(waiters)
     /\ jobs' = Append(jobs, Head(waiters))

\* create() rejects: the slot is free again without a resource.
CreateFails(c) ==
  /\ pc[c] = "creating"
  /\ activeCount' = activeCount - 1
  /\ EndAndRetry(c)
  /\ UNCHANGED <<idle, draining, live, destroying, res, sweep>>
  /\ CheckDrainComplete

\* A resolved waiter goes on with a resource (draining is not read again) ...
ResumeHanded(c) ==
  /\ pc[c] = "handed"
  /\ Running(c)
  /\ pc' = [pc EXCEPT ![c] = "returning"]
  /\ jobs' = Append(Tail(jobs), c)
  /\ UNCHANGED <<slots, drains, waiters, live, destroying, res>>

\* ... with an error, as it does on a retry that finds the pool draining ...
ResumeDrained(c) ==
  /\ pc[c] = "drained" \/ (pc[c] = "retry" /\ draining)
  /\ Running(c)
  /\ pc' = [pc EXCEPT ![c] = "out"]
  /\ jobs' = Tail(jobs)
  /\ UNCHANGED <<slots, drains, waiters, live, destroying, res>>

\* ... or from the start of acquireImpl.
ResumeRetry(c) ==
  /\ pc[c] = "retry"
  /\ Running(c)
  /\ ~draining
  /\ TryAcquireIdle(c, activeCount, Tail(jobs))
  /\ UNCHANGED <<drains, waiters, live, destroying>>

\* The caller of acquire() is resumed with its PooledResource.
Deliver(c) ==
  /\ pc[c] = "returning"
  /\ Running(c)
  /\ pc' = [pc EXCEPT ![c] = "held"]
  /\ jobs' = Tail(jobs)
  /\ UNCHANGED <<slots, drains, waiters, live, destroying, res>>

\* returnToPool while the pool drains.
ReturnDestroy(c) ==
  /\ draining
  /\ pc' = [pc EXCEPT ![c] = "released"]
  /\ DestroyCounted(res[c])
  /\ UNCHANGED <<jobs, res>>

\* returnToPool with a waiter: it gets the resource, and the slot that is
\* given up and taken again.
ReturnHandOver(c) ==
  /\ ~draining
  /\ waiters # <<>>
  /\ waiters' = Tail(waiters)
  /\ pc' = [pc EXCEPT ![c] = "released", ![Head(waiters)] = "handed"]
  /\ res' = [res EXCEPT ![Head(waiters)] = res[c]]
  /\ jobs' = Append(jobs, Head(waiters))
  /\ UNCHANGED <<slots, drains, live, destroying>>

\* returnToPool with no waiter: the resource becomes idle.
ReturnIdle(c) ==
  /\ ~draining
  /\ waiters = <<>>
  /\ activeCount' = activeCount - 1
  /\ idle' = Append(idle, res[c])
  /\ pc' = [pc EXCEPT ![c] = "released"]
  /\ UNCHANGED <<drains, waiters, jobs, live, destroying, res>>

\* Seeded fault: the handle has no released flag.
ReleasableAgain(c) == pc[c] \in {"held", "released"}

\* The handle's released flag is not set.
Releasable(c) == pc[c] = "held"

\* release(): by the holder, or by use() in its finally.
Release(c) == Releasable(c) /\ (ReturnDestroy(c) \/ ReturnHandOver(c) \/ ReturnIdle(c))

\* Seeded fault: the timer destroys the resource and leaves its entry.
IdleTimerKeepsEntry ==
  /\ HasIdleTimeout
  /\ idle # <<>>
  /\ jobs = <<>>
  /\ Discard(Head(idle))
  /\ UNCHANGED <<slots, drains, waiters, jobs, pc, res>>

\* An idle timer fires.  All have the same delay, so the oldest entry's
\* fires first; it runs as a task of its own, when no continuation is queued.
IdleTimer ==
  /\ HasIdleTimeout
  /\ idle # <<>>
  /\ jobs = <<>>
  /\ idle' = Tail(idle)
  /\ Discard(Head(idle))
  /\ UNCHANGED <<activeCount, draining, sweep, waiters, jobs, pc, res>>
  /\ CheckDrainComplete

\* Seeded fault: the drain does not wait for the resources in use.
FinishDrainNoWait(d) ==
  dpc' = [dpc EXCEPT ![d] = "done"] /\ UNCHANGED drainResolve

\* The end of drain(): it is over, and so is the drain() that drainResolve
\* belongs to; or drainResolve is set, whether it was set or not.
FinishDrain(d) ==
  \/ /\ activeCount = 0
     /\ drainResolve' = None
     /\ dpc' = [e \in Drainer |-> IF e \in {d, drainResolve} THEN "done" ELSE dpc[e]]
  \/ /\ activeCount # 0
     /\ drainResolve' = d
     /\ dpc' = [dpc EXCEPT ![d] = "waiting"]

\* drain's loop over idleToDestroy from its test on: destroy the next entry
\* and await it, or finish.
SweepFrom(d, entries) ==
  \/ /\ entries # <<>>
     /\ live' = live \ {Head(entries)}
     /\ sweep' = [sweep EXCEPT ![d] = Tail(entries)]
     /\ dpc' = [dpc EXCEPT ![d] = "sweeping"]
     /\ UNCHANGED drainResolve
  \/ /\ entries = <<>>
     /\ FinishDrain(d)
     /\ UNCHANGED <<live, sweep>>

\* Every waiter is resolved with DRAINED.
RejectWaiters ==
  /\ pc' = [c \in Caller |-> IF c \in Range(waiters) THEN "drained" ELSE pc[c]]
  /\ jobs' = jobs \o waiters
  /\ waiters' = <<>>

\* drain() up to its first await.
Drain(d) ==
  /\ dpc[d] = "idle"
  /\ draining' = TRUE
  /\ RejectWaiters
  /\ idle' = <<>>
  /\ SweepFrom(d, idle)
  /\ UNCHANGED <<activeCount, destroying, res>>

\* The awaited destroy() settles; errors are swallowed.
SweepNext(d) ==
  /\ dpc[d] = "sweeping"
  /\ SweepFrom(d, sweep[d])
  /\ UNCHANGED <<slots, draining, waiters, jobs, destroying, pc, res>>

\* A destroy() that nobody awaits settles; errors are swallowed here too.
DestroySettles(r) ==
  /\ r \in destroying
  /\ destroying' = destroying \ {r}
  /\ UNCHANGED <<slots, drains, waiters, jobs, live, pc, res>>

-----------------------------------------------------------------------------
\* The continuation of c's call, and the settling of what it awaits.
Continue(c) ==
  FoundIdle(c) \/ ReserveSlot(c) \/ Park(c)
    \/ ResumeHanded(c) \/ ResumeDrained(c) \/ ResumeRetry(c) \/ Deliver(c)
Validated(c) == ValidateHealthy(c) \/ ValidateUnhealthy(c)
Created(c) == CreateFails(c) \/ \E r \in Resource : CreateOk(c, r)

Next ==
  \/ \E c \in Caller : Acquire(c) \/ Continue(c) \/ Validated(c) \/ Created(c) \/ Release(c)
  \/ \E d \in Drainer : Drain(d) \/ SweepNext(d)
  \/ \E r \in Resource : DestroySettles(r)
  \/ IdleTimer

\* Queued continuations run; create, validate and destroy settle; a holder
\* releases, as use() does whatever its function does.  Nobody has to call
\* acquire or drain, and no idle timer has to fire.
Fairness ==
  /\ \A c \in Caller : /\ WF_vars(Continue(c))
                       /\ WF_vars(Validated(c))
                       /\ WF_vars(Created(c))
                       /\ WF_vars(Release(c))
  /\ \A d \in Drainer : WF_vars(SweepNext(d))
  /\ \A r \in Resource : WF_vars(DestroySettles(r))

Spec == Init /\ [][Next]_vars
FairSpec == Spec /\ Fairness

-----------------------------------------------------------------------------
\* The type of every variable: activeCount never goes negative, and a call
\* that owns a resource has one.
TypeOK ==
  /\ idle \in Seq(Resource)
  /\ activeCount \in Nat
  /\ draining \in BOOLEAN
  /\ waiters \in Seq(Caller)
  /\ drainResolve \in Drainer \cup {None}
  /\ jobs \in Seq(Caller)
  /\ live \subseteq Resource
  /\ destroying \subseteq Resource
  /\ pc \in [Caller -> PCState]
  /\ res \in [Caller -> Resource \cup {None}]
  /\ \A c \in Owning : res[c] \in Resource
  /\ dpc \in [Drainer -> {"idle", "sweeping", "waiting", "done"}]
  /\ sweep \in [Drainer -> Seq(Resource)]

\* activeCount goes up in three places and down in four, around four awaits;
\* it always is the number of calls that a slot is reserved for.
SlotsAccounted == activeCount = Cardinality(Counted)

\* "maxSize: Maximum number of resources in the pool": idle and reserved
\* slots together never exceed it, however acquires interleave.
WithinMaxSize == Len(idle) + activeCount <= MaxSize

\* The resources in calls, and in the lists that drains are working off.
Owned == {res[c] : c \in Owning}
Swept == UNION {Range(sweep[d]) : d \in Drainer}

\* A drain that has work left is working on it, and drainResolve belongs to
\* one that waits.
DrainsInStep ==
  /\ \A d \in Drainer : sweep[d] # <<>> => dpc[d] = "sweeping"
  /\ drainResolve # None => dpc[drainResolve] = "waiting"

\* Every live resource is in exactly one place (the idle queue, one call, or
\* the list one drain is working off) and nothing destroyed is in any: no
\* resource is leaked, shared by two callers, or used after destroy().
ResourcesAccounted ==
  /\ live = Range(idle) \cup Owned \cup Swept
  /\ Range(idle) \cap Owned = {}
  /\ Range(idle) \cap Swept = {}
  /\ Owned \cap Swept = {}
  /\ IsInjective(idle)
  /\ \A c, e \in Owning : res[c] = res[e] => c = e
  /\ \A d \in Drainer : IsInjective(sweep[d])
  /\ \A d, e \in Drainer : d # e => Range(sweep[d]) \cap Range(sweep[e]) = {}
  /\ DrainsInStep

\* No call is lost between the queues: the waiters are exactly the parked
\* calls and the job queue exactly the resumed ones, each once.
CallsQueued ==
  /\ IsInjective(waiters)
  /\ IsInjective(jobs)
  /\ Range(waiters) = Parked
  /\ Range(jobs) = Resumed

\* When a drain() promise has resolved, everything was passed to destroy() but
\* what another drain() is working off (everything at all with one drain), and
\* nothing comes to life later although calls that were on their way when the
\* drain began still create.  That destroy() has settled is not said: see
\* DrainAwaitsDestroy.
DrainedMeansGivenUp == (\E d \in Drainer : dpc[d] = "done") => live = Swept

\* The pool implements a lease manager: a caller has its lease from the
\* step that assigns the resource to it, and drain() closes the manager.
LeaseOf(c) == IF pc[c] \in {"handed", "returning", "held"} THEN res[c] ELSE None
L == INSTANCE Lease WITH open <- ~draining, lease <- [c \in Caller |-> LeaseOf(c)]
ImplementsLease == L!LeaseSpec

\* A call waits although nobody will serve it: a resource lies idle, or the
\* pool is draining.
Stranded == waiters # <<>> /\ (idle # <<>> \/ draining)

\* Unless a call parks in that situation, every parked call is resumed:
\* hand-over at release, RETRY after a failed create and DRAINED together
\* leave no other way to be forgotten.
ServedUnlessStranded ==
  [](~Stranded) => \A c \in Caller : pc[c] = "parked" ~> pc[c] # "parked"

\* "acquire: Acquire a resource. Waits if pool is at maxSize." (pool.ts:55):
\* a call that waits is resumed when holders release.
WaitingIsServed == \A c \in Caller : pc[c] = "parked" ~> pc[c] # "parked"

\* "drain: Destroy all idle resources and wait for active resources to
\* return and be destroyed" (pool.ts:59): a drain() that was called resolves.
DrainResolves == \A d \in Drainer : dpc[d] # "idle" ~> dpc[d] = "done"

\* "... wait for active resources to return and be destroyed" (pool.ts:59), "Wait for
\* all active resources to be released and destroyed" (pool.ts:299): a drain() that
\* had to wait for resources in use resolves when no destroy() is running any more.
DrainAwaitsDestroy ==
  [][\A d \in Drainer : dpc[d] = "waiting" /\ dpc'[d] = "done" => destroying' = {}]_vars
=============================================================================
