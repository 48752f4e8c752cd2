----------------------------- MODULE PoolProofs -----------------------------
(***************************************************************************)
(* Proofs about module Pool, for every number of callers, drains and       *)
(* resources and every maxSize.                                            *)
(***************************************************************************)
EXTENDS Pool, QueueLemmas

\* The inductive invariant of the slot count: it needs the two queues, since
\* a hand-over moves a slot to a call that must not have one already.
SlotInv == TypeOK /\ SlotsAccounted /\ WithinMaxSize /\ CallsQueued

USE PoolAssumption

-----------------------------------------------------------------------------
\* One call moves to state x.
LEMMA OneMoves ==
  ASSUME TypeOK, NEW c \in Caller, NEW x \in PCState, pc' = [pc EXCEPT ![c] = x]
  PROVE  /\ pc' \in [Caller -> PCState]
         /\ x \in OwningState => Owning' = Owning \cup {c}
         /\ x \notin OwningState => Owning' = Owning \ {c}
         /\ x \in CountedState => Counted' = Counted \cup {c}
         /\ x \notin CountedState => Counted' = Counted \ {c}
         /\ x = "parked" => Parked' = Parked \cup {c}
         /\ x # "parked" => Parked' = Parked \ {c}
         /\ x \in ResumedState => Resumed' = Resumed \cup {c}
         /\ x \notin ResumedState => Resumed' = Resumed \ {c}
<1>1. pc' \in [Caller -> PCState]
  BY DEF TypeOK
<1>2. \A d \in Caller : pc'[d] = IF d = c THEN x ELSE pc[d]
  BY DEF TypeOK
<1>3. /\ x \in OwningState => Owning' = Owning \cup {c}
      /\ x \notin OwningState => Owning' = Owning \ {c}
  BY <1>2 DEF Owning
<1>4. /\ x \in CountedState => Counted' = Counted \cup {c}
      /\ x \notin CountedState => Counted' = Counted \ {c}
  BY <1>2 DEF Counted
<1>5. /\ x = "parked" => Parked' = Parked \cup {c}
      /\ x # "parked" => Parked' = Parked \ {c}
  BY <1>2 DEF Parked
<1>6. /\ x \in ResumedState => Resumed' = Resumed \cup {c}
      /\ x \notin ResumedState => Resumed' = Resumed \ {c}
  BY <1>2 DEF Resumed
<1> QED
  BY <1>1, <1>3, <1>4, <1>5, <1>6

\* Call c moves to state x and another one, w, to state y.
LEMMA TwoMove ==
  ASSUME TypeOK, NEW c \in Caller, NEW w \in Caller, c # w,
         NEW x \in PCState, NEW y \in PCState,
         pc' = [pc EXCEPT ![c] = x, ![w] = y]
  PROVE  /\ pc' \in [Caller -> PCState]
         /\ Owning' \subseteq Caller /\ Counted' \subseteq Caller
         /\ Parked' \subseteq Caller /\ Resumed' \subseteq Caller
         /\ \A d \in Caller \ {c, w} : /\ d \in Owning' <=> d \in Owning
                                       /\ d \in Counted' <=> d \in Counted
                                       /\ d \in Parked' <=> d \in Parked
                                       /\ d \in Resumed' <=> d \in Resumed
         /\ c \in Owning' <=> x \in OwningState
         /\ c \in Counted' <=> x \in CountedState
         /\ c \in Parked' <=> x = "parked"
         /\ c \in Resumed' <=> x \in ResumedState
         /\ w \in Owning' <=> y \in OwningState
         /\ w \in Counted' <=> y \in CountedState
         /\ w \in Parked' <=> y = "parked"
         /\ w \in Resumed' <=> y \in ResumedState
<1>1. pc' \in [Caller -> PCState]
  BY DEF TypeOK
<1>2. \A d \in Caller : pc'[d] = IF d = c THEN x ELSE IF d = w THEN y ELSE pc[d]
  BY DEF TypeOK
<1> QED
  BY <1>1, <1>2 DEF Owning, Counted, Parked, Resumed

\* The number of counted calls when one is added or removed.
LEMMA CountOneMore ==
  ASSUME NEW c \in Caller, c \notin Counted
  PROVE  Cardinality(Counted \cup {c}) = Cardinality(Counted) + 1
<1>1. IsFiniteSet(Counted)
  BY FS_Subset DEF Counted
<1> QED
  BY <1>1, FS_AddElement

LEMMA CountOneLess ==
  ASSUME NEW c \in Counted
  PROVE  /\ Cardinality(Counted) \in Nat
         /\ Cardinality(Counted) > 0
         /\ Cardinality(Counted \ {c}) = Cardinality(Counted) - 1
<1>1. IsFiniteSet(Counted)
  BY FS_Subset DEF Counted
<1>2. Cardinality(Counted) \in Nat /\ Cardinality(Counted) # 0
  BY <1>1, FS_CardinalityType, FS_EmptySet
<1>3. Cardinality(Counted \ {c}) = Cardinality(Counted) - 1
  BY <1>1, FS_RemoveElement
<1> QED
  BY <1>2, <1>3

\* checkDrainComplete leaves the drains well typed.
LEMMA CheckDrainTyped ==
  ASSUME TypeOK, CheckDrainComplete
  PROVE  /\ drainResolve' \in Drainer \cup {None}
         /\ dpc' \in [Drainer -> {"idle", "sweeping", "waiting", "done"}]
BY DEF TypeOK, CheckDrainComplete

-----------------------------------------------------------------------------
\* The loop of tryAcquireIdle keeps the slot count: active is what
\* activeCount would be without the call itself, and the call ends up
\* counted exactly when it leaves with a resource.
LEMMA TryAcquireIdleKeeps ==
  ASSUME SlotInv, NEW c \in Caller, pc[c] # "parked",
         NEW active, active = Cardinality(Counted \ {c}), Len(idle) + active <= MaxSize,
         NEW rest \in Seq(Caller), IsInjective(rest), Range(rest) = Resumed \ {c},
         TryAcquireIdle(c, active, rest),
         UNCHANGED <<drains, waiters>>, live' \subseteq Resource, destroying' \subseteq Resource
  PROVE  SlotInv'
<1> USE DEF SlotInv
<1>1. IsFiniteSet(Counted \ {c}) /\ active \in Nat
  BY FS_Subset, FS_CardinalityType DEF Counted
<1>2. /\ idle \in Seq(Resource) /\ Len(idle) \in Nat /\ MaxSize \in Nat
      /\ res \in [Caller -> Resource \cup {None}]
      /\ waiters' = waiters /\ waiters \in Seq(Caller)
      /\ c \notin Parked
  BY DEF TypeOK, drains, Parked
<1>3. CASE idle # <<>>
  <2> DEFINE x == IF HasValidate THEN "validating" ELSE "found"
  <2>1. /\ idle' = Tail(idle)
        /\ activeCount' = active + 1
        /\ res' = [res EXCEPT ![c] = Head(idle)]
        /\ pc' = [pc EXCEPT ![c] = x]
        /\ jobs' = IF HasValidate THEN rest ELSE Append(rest, c)
    BY <1>3 DEF TryAcquireIdle
  <2>2. Tail(idle) \in Seq(Resource) /\ Len(Tail(idle)) = Len(idle) - 1 /\ Head(idle) \in Resource
    BY <1>2, <1>3
  <2>3. x \in PCState /\ x \in OwningState /\ x \in CountedState /\ x # "parked"
        /\ (x \in ResumedState <=> ~HasValidate)
    BY DEF PCState, OwningState, CountedState, ResumedState
  <2> HIDE DEF x
  <2>4. /\ pc' \in [Caller -> PCState]
        /\ Owning' = Owning \cup {c}
        /\ Counted' = Counted \cup {c}
        /\ Parked' = Parked \ {c}
        /\ HasValidate => Resumed' = Resumed \ {c}
        /\ ~HasValidate => Resumed' = Resumed \cup {c}
    BY <2>1, <2>3, OneMoves
  <2>5. SlotsAccounted'
    <3>1. Counted' = (Counted \ {c}) \cup {c} /\ c \notin Counted \ {c}
      BY <2>4
    <3>2. Cardinality(Counted') = active + 1
      BY <1>1, <3>1, FS_AddElement
    <3> QED
      BY <2>1, <3>2 DEF SlotsAccounted
  <2>6. WithinMaxSize'
    BY <1>1, <1>2, <2>1, <2>2 DEF WithinMaxSize
  <2>7. jobs' \in Seq(Caller) /\ IsInjective(jobs') /\ Range(jobs') = Resumed'
    <3>1. CASE HasValidate
      BY <2>1, <2>4, <3>1
    <3>2. CASE ~HasValidate
      <4>1. c \notin Range(rest) /\ jobs' = Append(rest, c)
        BY <2>1, <3>2
      <4>2. Range(jobs') = Range(rest) \cup {c} /\ jobs' \in Seq(Caller) /\ IsInjective(jobs')
        BY <4>1, AppendQueue
      <4> QED
        BY <2>4, <3>2, <4>2
    <3> QED
      BY <3>1, <3>2
  <2>8. CallsQueued'
    BY <1>2, <2>4, <2>7 DEF CallsQueued
  <2>9. TypeOK'
    BY <1>1, <1>2, <2>1, <2>2, <2>4, <2>7 DEF TypeOK, drains
  <2> QED
    BY <2>5, <2>6, <2>8, <2>9
<1>4. CASE idle = <<>>
  <2>1. /\ idle' = idle
        /\ activeCount' = active
        /\ res' = [res EXCEPT ![c] = None]
        /\ pc' = [pc EXCEPT ![c] = "none"]
        /\ jobs' = Append(rest, c)
    BY <1>4 DEF TryAcquireIdle
  <2>2. /\ "none" \in PCState /\ "none" \notin OwningState /\ "none" \notin CountedState
        /\ "none" \in ResumedState
    BY DEF PCState, OwningState, CountedState, ResumedState
  <2>3. /\ pc' \in [Caller -> PCState]
        /\ Owning' = Owning \ {c}
        /\ Counted' = Counted \ {c}
        /\ Parked' = Parked \ {c}
        /\ Resumed' = Resumed \cup {c}
    BY <2>1, <2>2, OneMoves, ZenonT(60)
  <2>4. jobs' \in Seq(Caller) /\ IsInjective(jobs') /\ Range(jobs') = Resumed'
    <3>1. c \notin Range(rest)
      OBVIOUS
    <3>2. Range(jobs') = Range(rest) \cup {c} /\ jobs' \in Seq(Caller) /\ IsInjective(jobs')
      BY <2>1, <3>1, AppendQueue
    <3> QED
      BY <2>3, <3>2
  <2>5. CallsQueued'
    BY <1>2, <2>3, <2>4 DEF CallsQueued
  <2>6. SlotsAccounted' /\ WithinMaxSize'
    BY <2>1, <2>3 DEF SlotsAccounted, WithinMaxSize
  <2>7. TypeOK'
    BY <1>1, <1>2, <2>1, <2>3, <2>4 DEF TypeOK, drains
  <2> QED
    BY <2>5, <2>6, <2>7
<1> QED
  BY <1>3, <1>4

\* What the invariant says of a call whose continuation runs.
LEMMA RunningCall ==
  ASSUME SlotInv, NEW c \in Caller, Running(c)
  PROVE  /\ Tail(jobs) \in Seq(Caller)
         /\ IsInjective(Tail(jobs))
         /\ Range(Tail(jobs)) = Resumed \ {c}
         /\ c \in Resumed
BY TailQueue DEF SlotInv, TypeOK, CallsQueued, Running

\* What it says of the waiter that is woken.
LEMMA FirstWaiter ==
  ASSUME SlotInv, waiters # <<>>
  PROVE  /\ Tail(waiters) \in Seq(Caller)
         /\ Head(waiters) \in Caller
         /\ IsInjective(Tail(waiters))
         /\ Range(Tail(waiters)) = Parked \ {Head(waiters)}
         /\ Head(waiters) \in Parked
BY TailQueue DEF SlotInv, TypeOK, CallsQueued

\* Which sets each state belongs to.
LEMMA StateSets ==
  ASSUME TypeOK, NEW c \in Caller
  PROVE  /\ c \in Counted <=> pc[c] \in CountedState
         /\ c \in Owning <=> pc[c] \in OwningState
         /\ c \in Parked <=> pc[c] = "parked"
         /\ c \in Resumed <=> pc[c] \in ResumedState
         /\ c \in Owning => c \in Counted
         /\ c \in Parked => c \notin Resumed /\ c \notin Counted
BY DEF TypeOK, Counted, Owning, Parked, Resumed, CountedState, OwningState, ResumedState

-----------------------------------------------------------------------------
\* Each step keeps the invariant.
LEMMA AcquireKeeps ==
  ASSUME SlotInv, NEW c \in Caller, Acquire(c)
  PROVE  SlotInv'
<1>1. c \notin Counted /\ c \notin Resumed /\ c \notin Parked
  BY DEF Acquire, Counted, Resumed, Parked, CountedState, OwningState, ResumedState
<1>2. Counted \ {c} = Counted /\ Resumed \ {c} = Resumed
  BY <1>1
<1>3. /\ activeCount = Cardinality(Counted \ {c}) /\ Len(idle) + activeCount <= MaxSize
      /\ jobs \in Seq(Caller) /\ IsInjective(jobs) /\ Range(jobs) = Resumed \ {c}
  BY <1>2 DEF SlotInv, TypeOK, SlotsAccounted, WithinMaxSize, CallsQueued
<1>4. pc[c] # "parked" /\ live' \subseteq Resource /\ destroying' \subseteq Resource
  BY DEF Acquire, SlotInv, TypeOK
<1> QED
  BY <1>3, <1>4, TryAcquireIdleKeeps DEF Acquire

LEMMA ValidateHealthyKeeps ==
  ASSUME SlotInv, NEW c \in Caller, ValidateHealthy(c)
  PROVE  SlotInv'
<1> USE DEF SlotInv, slots, drains
<1>1. c \in Owning /\ c \in Counted /\ c \notin Resumed /\ c \notin Parked
  BY DEF ValidateHealthy, Owning, Counted, Resumed, Parked, CountedState, OwningState, ResumedState
<1>2. /\ "found" \in PCState /\ "found" \in OwningState /\ "found" \in CountedState
      /\ "found" \in ResumedState
  BY DEF PCState, CountedState, OwningState, ResumedState
<1>3. /\ pc' \in [Caller -> PCState] /\ Owning' = Owning \cup {c} /\ Counted' = Counted \cup {c}
      /\ Parked' = Parked \ {c} /\ Resumed' = Resumed \cup {c}
  BY <1>2, OneMoves DEF ValidateHealthy
<1>4. Owning' = Owning /\ Counted' = Counted /\ Parked' = Parked
  BY <1>1, <1>3
<1>5. /\ jobs' = Append(jobs, c) /\ jobs \in Seq(Caller) /\ IsInjective(jobs)
      /\ Range(jobs) = Resumed
  BY DEF ValidateHealthy, TypeOK, CallsQueued
<1>6. /\ jobs' \in Seq(Caller) /\ IsInjective(jobs') /\ Range(jobs') = Resumed'
  BY <1>1, <1>3, <1>5, AppendQueue
<1>7. TypeOK'
  BY <1>3, <1>4, <1>6 DEF TypeOK, ValidateHealthy
<1>8. CallsQueued'
  BY <1>4, <1>6 DEF CallsQueued, ValidateHealthy
<1>9. SlotsAccounted' /\ WithinMaxSize'
  BY <1>4 DEF SlotsAccounted, WithinMaxSize, ValidateHealthy
<1> QED
  BY <1>7, <1>8, <1>9

LEMMA ValidateUnhealthyKeeps ==
  ASSUME SlotInv, NEW c \in Caller, ValidateUnhealthy(c)
  PROVE  SlotInv'
<1>1. c \in Counted /\ c \notin Resumed /\ pc[c] # "parked"
  BY DEF ValidateUnhealthy, Counted, Resumed, CountedState, OwningState, ResumedState
<1>2. Resumed \ {c} = Resumed
  BY <1>1
<1>3. activeCount - 1 = Cardinality(Counted \ {c})
  BY <1>1, CountOneLess DEF SlotInv, SlotsAccounted
<1>4. Len(idle) + (activeCount - 1) <= MaxSize
  BY DEF SlotInv, TypeOK, WithinMaxSize
<1>5. jobs \in Seq(Caller) /\ IsInjective(jobs) /\ Range(jobs) = Resumed \ {c}
  BY <1>2 DEF SlotInv, TypeOK, CallsQueued
<1>6. live' \subseteq Resource /\ destroying' \subseteq Resource
  BY DEF ValidateUnhealthy, Discard, SlotInv, TypeOK, Owning, OwningState
<1> QED
  BY <1>1, <1>3, <1>4, <1>5, <1>6, TryAcquireIdleKeeps DEF ValidateUnhealthy

\* A counted resource is handed out ...
LEMMA GrantKeeps ==
  ASSUME SlotInv, NEW c \in Counted, NEW r \in Resource,
         NEW rest \in Seq(Caller), IsInjective(rest), Range(rest) = Resumed \ {c},
         Grant(c, r, rest)
  PROVE  SlotInv'
<1> USE DEF SlotInv, slots, drains
<1>1. c \in Caller /\ c \notin Parked
  BY DEF Counted, Parked, CountedState, OwningState
<1>2. /\ "returning" \in PCState /\ "returning" \in OwningState /\ "returning" \in CountedState
      /\ "returning" \in ResumedState
  BY DEF PCState, CountedState, OwningState, ResumedState
<1>3. /\ pc' \in [Caller -> PCState] /\ Owning' = Owning \cup {c} /\ Counted' = Counted \cup {c}
      /\ Parked' = Parked \ {c} /\ Resumed' = Resumed \cup {c}
  BY <1>1, <1>2, OneMoves DEF Grant
<1>4. Counted' = Counted /\ Parked' = Parked
  BY <1>1, <1>3
<1>5. Range(jobs') = Range(rest) \cup {c} /\ jobs' \in Seq(Caller) /\ IsInjective(jobs')
  BY <1>1, AppendQueue DEF Grant
<1>6. Range(jobs') = Resumed'
  BY <1>3, <1>5
<1>7. TypeOK'
  BY <1>1, <1>3, <1>5 DEF TypeOK, Grant
<1>8. CallsQueued'
  BY <1>4, <1>5, <1>6 DEF CallsQueued, Grant
<1>9. SlotsAccounted' /\ WithinMaxSize'
  BY <1>4 DEF SlotsAccounted, WithinMaxSize, Grant
<1> QED
  BY <1>7, <1>8, <1>9

\* ... or discarded, and with it the slot.
LEMMA RefuseKeeps ==
  ASSUME SlotInv, NEW c \in Counted, NEW r \in Resource,
         NEW rest \in Seq(Caller), IsInjective(rest), Range(rest) = Resumed \ {c},
         Refuse(c, r, rest)
  PROVE  SlotInv'
<1> USE DEF SlotInv, slots, drains
<1>1. c \in Caller /\ c \notin Parked
  BY DEF Counted, Parked, CountedState, OwningState
<1>2. /\ "out" \in PCState /\ "out" \notin OwningState /\ "out" \notin CountedState
      /\ "out" \notin ResumedState
  BY DEF PCState, CountedState, OwningState, ResumedState
<1>3. /\ pc' \in [Caller -> PCState] /\ Owning' = Owning \ {c} /\ Counted' = Counted \ {c}
      /\ Parked' = Parked \ {c} /\ Resumed' = Resumed \ {c}
  BY <1>1, <1>2, OneMoves DEF Refuse
<1>4. Parked' = Parked /\ Range(jobs') = Resumed'
  BY <1>1, <1>3 DEF Refuse
<1>5. activeCount' = Cardinality(Counted') /\ activeCount' \in Nat /\ activeCount' < activeCount
  BY <1>3, CountOneLess DEF Refuse, DestroyCounted, SlotsAccounted
<1>6. TypeOK'
  BY <1>1, <1>3, <1>5, CheckDrainTyped DEF TypeOK, Refuse, DestroyCounted, Discard
<1>7. CallsQueued'
  BY <1>4 DEF CallsQueued, Refuse, DestroyCounted
<1>8. SlotsAccounted' /\ WithinMaxSize'
  BY <1>5 DEF TypeOK, SlotsAccounted, WithinMaxSize, Refuse, DestroyCounted
<1> QED
  BY <1>6, <1>7, <1>8

LEMMA FoundIdleKeeps ==
  ASSUME SlotInv, NEW c \in Caller, FoundIdle(c)
  PROVE  SlotInv'
<1>1. c \in Counted /\ res[c] \in Resource
  BY DEF FoundIdle, SlotInv, TypeOK, Counted, Owning, CountedState, OwningState
<1> QED
  BY <1>1, RunningCall, GrantKeeps, RefuseKeeps DEF FoundIdle, Checkout

LEMMA CreateOkKeeps ==
  ASSUME SlotInv, NEW c \in Caller, NEW r \in Resource, CreateOk(c, r)
  PROVE  SlotInv'
<1>1. c \in Counted /\ c \notin Resumed
  BY DEF CreateOk, Counted, Resumed, CountedState, ResumedState
<1>2. jobs \in Seq(Caller) /\ IsInjective(jobs) /\ Range(jobs) = Resumed \ {c}
  BY <1>1 DEF SlotInv, TypeOK, CallsQueued
<1> QED
  BY <1>1, <1>2, GrantKeeps, RefuseKeeps DEF CreateOk, Checkout

LEMMA ReserveSlotKeeps ==
  ASSUME SlotInv, NEW c \in Caller, ReserveSlot(c)
  PROVE  SlotInv'
<1> USE DEF SlotInv, slots, drains
<1>1. c \notin Counted /\ c \notin Parked /\ c \notin Owning
  BY DEF ReserveSlot, Counted, Parked, Owning, CountedState, OwningState
<1>2. /\ "creating" \in PCState /\ "creating" \notin OwningState
      /\ "creating" \in CountedState /\ "creating" \notin ResumedState
  BY DEF PCState, CountedState, OwningState, ResumedState
<1>3. /\ pc' \in [Caller -> PCState] /\ Owning' = Owning \ {c} /\ Counted' = Counted \cup {c}
      /\ Parked' = Parked \ {c} /\ Resumed' = Resumed \ {c}
  BY <1>2, OneMoves DEF ReserveSlot
<1>4. Owning' = Owning /\ Parked' = Parked
  BY <1>1, <1>3
<1>5. jobs' \in Seq(Caller) /\ IsInjective(jobs') /\ Range(jobs') = Resumed'
  BY <1>3, RunningCall DEF ReserveSlot
<1>6. activeCount' = Cardinality(Counted')
  BY <1>1, <1>3, CountOneMore DEF ReserveSlot, SlotsAccounted
<1>7. TypeOK'
  BY <1>3, <1>4, <1>5 DEF TypeOK, ReserveSlot
<1>8. CallsQueued'
  BY <1>4, <1>5 DEF CallsQueued, ReserveSlot
<1>9. SlotsAccounted' /\ WithinMaxSize'
  BY <1>6 DEF TypeOK, SlotsAccounted, WithinMaxSize, ReserveSlot, BelowMax
<1> QED
  BY <1>7, <1>8, <1>9

LEMMA ParkKeeps ==
  ASSUME SlotInv, NEW c \in Caller, Park(c)
  PROVE  SlotInv'
<1> USE DEF SlotInv, slots, drains
<1>1. c \notin Counted /\ c \notin Parked /\ c \notin Owning
  BY DEF Park, Counted, Parked, Owning, CountedState, OwningState
<1>2. /\ "parked" \in PCState /\ "parked" \notin OwningState
      /\ "parked" \notin CountedState /\ "parked" \notin ResumedState
  BY DEF PCState, CountedState, OwningState, ResumedState
<1>3. /\ pc' \in [Caller -> PCState] /\ Owning' = Owning \ {c} /\ Counted' = Counted \ {c}
      /\ Parked' = Parked \cup {c} /\ Resumed' = Resumed \ {c}
  BY <1>2, OneMoves DEF Park
<1>4. Owning' = Owning /\ Counted' = Counted
  BY <1>1, <1>3
<1>5. jobs' \in Seq(Caller) /\ IsInjective(jobs') /\ Range(jobs') = Resumed'
  BY <1>3, RunningCall DEF Park
<1>6. /\ waiters' = Append(waiters, c) /\ waiters \in Seq(Caller) /\ IsInjective(waiters)
      /\ Range(waiters) = Parked
  BY DEF Park, TypeOK, CallsQueued
<1>7. waiters' \in Seq(Caller) /\ IsInjective(waiters') /\ Range(waiters') = Parked'
  BY <1>1, <1>3, <1>6, AppendQueue
<1>8. TypeOK'
  BY <1>3, <1>4, <1>5, <1>7 DEF TypeOK, Park
<1>9. CallsQueued' /\ SlotsAccounted' /\ WithinMaxSize'
  BY <1>4, <1>5, <1>7 DEF CallsQueued, SlotsAccounted, WithinMaxSize, Park
<1> QED
  BY <1>8, <1>9

LEMMA CreateFailsKeeps ==
  ASSUME SlotInv, NEW c \in Caller, CreateFails(c)
  PROVE  SlotInv'
<1> USE DEF SlotInv, slots, drains
<1>1. c \in Counted /\ c \notin Parked /\ c \notin Resumed /\ c \notin Owning
  BY DEF CreateFails, Counted, Parked, Resumed, Owning, CountedState, OwningState, ResumedState
<1>2. /\ "out" \in PCState /\ "out" \notin OwningState /\ "out" \notin CountedState
      /\ "out" \notin ResumedState /\ "out" # "parked"
      /\ "retry" \in PCState /\ "retry" \notin OwningState /\ "retry" \notin CountedState
      /\ "retry" \in ResumedState /\ "retry" # "parked"
  BY DEF PCState, CountedState, OwningState, ResumedState
<1>3. /\ pc' \in [Caller -> PCState] /\ Owning' = Owning /\ Counted' = Counted \ {c}
      /\ waiters' \in Seq(Caller) /\ IsInjective(waiters') /\ Range(waiters') = Parked'
      /\ jobs' \in Seq(Caller) /\ IsInjective(jobs') /\ Range(jobs') = Resumed'
  <2>1. CASE waiters = <<>>
    <3>1. pc' = [pc EXCEPT ![c] = "out"] /\ waiters' = waiters /\ jobs' = jobs
      BY <2>1 DEF CreateFails, EndAndRetry
    <3>2. /\ pc' \in [Caller -> PCState] /\ Owning' = Owning \ {c} /\ Counted' = Counted \ {c}
          /\ Parked' = Parked \ {c} /\ Resumed' = Resumed \ {c}
      BY <1>2, <3>1, OneMoves
    <3> QED
      BY <1>1, <3>1, <3>2 DEF TypeOK, CallsQueued
  <2>2. CASE waiters # <<>>
    <3> DEFINE w == Head(waiters)
    <3>1. pc' = [pc EXCEPT ![c] = "out", ![w] = "retry"] /\ waiters' = Tail(waiters)
          /\ jobs' = Append(jobs, w)
      BY <2>2 DEF CreateFails, EndAndRetry
    <3>2. /\ w \in Caller /\ w \in Parked /\ w \notin Resumed /\ w \notin Counted /\ w \notin Owning
          /\ c # w
      BY <1>1, <2>2, FirstWaiter, StateSets
    <3>3. /\ waiters' \in Seq(Caller) /\ IsInjective(waiters')
          /\ Range(waiters') = Parked \ {w}
      BY <2>2, <3>1, FirstWaiter
    <3>4. jobs' \in Seq(Caller) /\ IsInjective(jobs') /\ Range(jobs') = Resumed \cup {w}
      BY <3>1, <3>2, AppendQueue DEF TypeOK, CallsQueued
    <3> HIDE DEF w
    <3>5. /\ pc' \in [Caller -> PCState]
          /\ Owning' \subseteq Caller /\ Counted' \subseteq Caller
          /\ Parked' \subseteq Caller /\ Resumed' \subseteq Caller
          /\ \A d \in Caller \ {c, w} : /\ d \in Owning' <=> d \in Owning
                                        /\ d \in Counted' <=> d \in Counted
                                        /\ d \in Parked' <=> d \in Parked
                                        /\ d \in Resumed' <=> d \in Resumed
          /\ c \notin Owning' /\ c \notin Counted' /\ c \notin Parked' /\ c \notin Resumed'
          /\ w \notin Owning' /\ w \notin Counted' /\ w \notin Parked' /\ w \in Resumed'
      BY <1>2, <3>1, <3>2, TwoMove
    <3>6. /\ Owning' = Owning /\ Counted' = Counted \ {c}
          /\ Parked' = Parked \ {w} /\ Resumed' = Resumed \cup {w}
      BY <1>1, <3>2, <3>5 DEF Owning, Counted, Parked, Resumed
    <3> QED
      BY <3>3, <3>4, <3>5, <3>6
  <2> QED
    BY <2>1, <2>2
<1>4. activeCount' = Cardinality(Counted') /\ activeCount' \in Nat /\ activeCount' < activeCount
  <2>1. activeCount' = activeCount - 1 /\ activeCount = Cardinality(Counted)
    BY DEF CreateFails, SlotsAccounted
  <2>2. Counted' = Counted \ {c}
    BY <1>3
  <2> QED
    BY <1>1, <2>1, <2>2, CountOneLess
<1>5. TypeOK'
  BY <1>3, <1>4, CheckDrainTyped DEF TypeOK, CreateFails
<1>6. CallsQueued' /\ SlotsAccounted'
  BY <1>3, <1>4 DEF CallsQueued, SlotsAccounted
<1>7. WithinMaxSize'
  BY <1>4 DEF TypeOK, WithinMaxSize, CreateFails
<1> QED
  BY <1>5, <1>6, <1>7

LEMMA ResumeHandedKeeps ==
  ASSUME SlotInv, NEW c \in Caller, ResumeHanded(c)
  PROVE  SlotInv'
<1> USE DEF SlotInv, slots, drains
<1>1. c \in Counted /\ c \in Owning /\ c \notin Parked
  BY DEF ResumeHanded, Counted, Parked, Owning, CountedState, OwningState
<1>2. /\ "returning" \in PCState /\ "returning" \in OwningState /\ "returning" \in CountedState
      /\ "returning" \in ResumedState /\ "returning" # "parked"
  BY DEF PCState, CountedState, OwningState, ResumedState
<1>3. /\ pc' \in [Caller -> PCState] /\ Owning' = Owning \cup {c} /\ Counted' = Counted \cup {c}
      /\ Parked' = Parked \ {c} /\ Resumed' = Resumed \cup {c}
  BY <1>2, OneMoves DEF ResumeHanded
<1>4. Owning' = Owning /\ Counted' = Counted /\ Parked' = Parked
  BY <1>1, <1>3
<1>5. /\ jobs' = Append(Tail(jobs), c) /\ Tail(jobs) \in Seq(Caller) /\ IsInjective(Tail(jobs))
      /\ Range(Tail(jobs)) = Resumed \ {c} /\ c \notin Range(Tail(jobs))
  BY RunningCall DEF ResumeHanded
<1>6. jobs' \in Seq(Caller) /\ IsInjective(jobs') /\ Range(jobs') = Range(Tail(jobs)) \cup {c}
  BY <1>5, AppendQueue
<1>7. Range(jobs') = Resumed'
  BY <1>3, <1>5, <1>6
<1>8. TypeOK'
  BY <1>3, <1>4, <1>6 DEF TypeOK, ResumeHanded
<1>9. CallsQueued' /\ SlotsAccounted' /\ WithinMaxSize'
  BY <1>4, <1>6, <1>7 DEF CallsQueued, SlotsAccounted, WithinMaxSize, ResumeHanded
<1> QED
  BY <1>8, <1>9

LEMMA ResumeDrainedKeeps ==
  ASSUME SlotInv, NEW c \in Caller, ResumeDrained(c)
  PROVE  SlotInv'
<1> USE DEF SlotInv, slots, drains
<1>1. c \notin Counted /\ c \notin Owning /\ c \notin Parked
  BY DEF ResumeDrained, Counted, Parked, Owning, CountedState, OwningState
<1>2. /\ "out" \in PCState /\ "out" \notin OwningState /\ "out" \notin CountedState
      /\ "out" \notin ResumedState /\ "out" # "parked"
  BY DEF PCState, CountedState, OwningState, ResumedState
<1>3. /\ pc' \in [Caller -> PCState] /\ Owning' = Owning \ {c} /\ Counted' = Counted \ {c}
      /\ Parked' = Parked \ {c} /\ Resumed' = Resumed \ {c}
  BY <1>2, OneMoves DEF ResumeDrained
<1>4. Owning' = Owning /\ Counted' = Counted /\ Parked' = Parked
  BY <1>1, <1>3
<1>5. jobs' \in Seq(Caller) /\ IsInjective(jobs') /\ Range(jobs') = Resumed'
  BY <1>3, RunningCall DEF ResumeDrained
<1>6. TypeOK'
  BY <1>3, <1>4, <1>5 DEF TypeOK, ResumeDrained
<1>7. CallsQueued' /\ SlotsAccounted' /\ WithinMaxSize'
  BY <1>4, <1>5 DEF CallsQueued, SlotsAccounted, WithinMaxSize, ResumeDrained
<1> QED
  BY <1>6, <1>7

LEMMA ResumeRetryKeeps ==
  ASSUME SlotInv, NEW c \in Caller, ResumeRetry(c)
  PROVE  SlotInv'
<1>1. c \notin Counted /\ pc[c] # "parked"
  BY DEF ResumeRetry, Counted, CountedState, OwningState
<1>2. Counted \ {c} = Counted
  BY <1>1
<1>3. /\ activeCount = Cardinality(Counted \ {c}) /\ Len(idle) + activeCount <= MaxSize
      /\ live' \subseteq Resource /\ destroying' \subseteq Resource
  BY <1>2 DEF SlotInv, TypeOK, SlotsAccounted, WithinMaxSize, ResumeRetry
<1> QED
  BY <1>1, <1>3, RunningCall, TryAcquireIdleKeeps DEF ResumeRetry

LEMMA DeliverKeeps ==
  ASSUME SlotInv, NEW c \in Caller, Deliver(c)
  PROVE  SlotInv'
<1> USE DEF SlotInv, slots, drains
<1>1. c \in Counted /\ c \in Owning /\ c \notin Parked
  BY DEF Deliver, Counted, Parked, Owning, CountedState, OwningState
<1>2. /\ "held" \in PCState /\ "held" \in OwningState /\ "held" \in CountedState
      /\ "held" \notin ResumedState /\ "held" # "parked"
  BY DEF PCState, CountedState, OwningState, ResumedState
<1>3. /\ pc' \in [Caller -> PCState] /\ Owning' = Owning \cup {c} /\ Counted' = Counted \cup {c}
      /\ Parked' = Parked \ {c} /\ Resumed' = Resumed \ {c}
  BY <1>2, OneMoves DEF Deliver
<1>4. Owning' = Owning /\ Counted' = Counted /\ Parked' = Parked
  BY <1>1, <1>3
<1>5. jobs' \in Seq(Caller) /\ IsInjective(jobs') /\ Range(jobs') = Resumed'
  BY <1>3, RunningCall DEF Deliver
<1>6. TypeOK'
  BY <1>3, <1>4, <1>5 DEF TypeOK, Deliver
<1>7. CallsQueued' /\ SlotsAccounted' /\ WithinMaxSize'
  BY <1>4, <1>5 DEF CallsQueued, SlotsAccounted, WithinMaxSize, Deliver
<1> QED
  BY <1>6, <1>7

\* What the invariant says of a call that releases.
LEMMA Releasing ==
  ASSUME SlotInv, NEW c \in Caller, Releasable(c)
  PROVE  /\ c \in Counted /\ c \in Owning /\ c \notin Parked /\ c \notin Resumed
         /\ res[c] \in Resource
         /\ activeCount \in Nat /\ activeCount > 0
         /\ Cardinality(Counted \ {c}) = activeCount - 1
<1>1. c \in Counted /\ c \in Owning /\ c \notin Parked /\ c \notin Resumed
  BY DEF Releasable, Counted, Parked, Owning, Resumed, CountedState, OwningState, ResumedState
<1>2. res[c] \in Resource
  BY <1>1 DEF SlotInv, TypeOK
<1> QED
  BY <1>1, <1>2, CountOneLess DEF SlotInv, SlotsAccounted

\* Where the states of a release belong.
LEMMA ReleaseStates ==
  /\ "released" \in PCState /\ "released" \notin OwningState /\ "released" \notin CountedState
  /\ "released" \notin ResumedState /\ "released" # "parked"
  /\ "handed" \in PCState /\ "handed" \in OwningState /\ "handed" \in CountedState
  /\ "handed" \in ResumedState /\ "handed" # "parked"
BY DEF PCState, CountedState, OwningState, ResumedState

LEMMA ReturnDestroyKeeps ==
  ASSUME SlotInv, NEW c \in Caller, Releasable(c), ReturnDestroy(c)
  PROVE  SlotInv'
<1> USE DEF SlotInv, slots, drains
<1>1. /\ pc' \in [Caller -> PCState] /\ Owning' = Owning \ {c} /\ Counted' = Counted \ {c}
      /\ Parked' = Parked \ {c} /\ Resumed' = Resumed \ {c}
  BY ReleaseStates, OneMoves DEF ReturnDestroy
<1>2. Parked' = Parked /\ Resumed' = Resumed
  BY <1>1, Releasing
<1>3. activeCount' = activeCount - 1 /\ activeCount' \in Nat /\ activeCount' = Cardinality(Counted')
  BY <1>1, Releasing DEF ReturnDestroy, DestroyCounted
<1>4. TypeOK'
  BY <1>1, <1>3, Releasing, CheckDrainTyped DEF TypeOK, ReturnDestroy, DestroyCounted, Discard
<1>5. CallsQueued'
  BY <1>2 DEF CallsQueued, ReturnDestroy, DestroyCounted
<1>6. SlotsAccounted' /\ WithinMaxSize'
  BY <1>3 DEF TypeOK, SlotsAccounted, WithinMaxSize, ReturnDestroy, DestroyCounted
<1> QED
  BY <1>4, <1>5, <1>6

LEMMA ReturnIdleKeeps ==
  ASSUME SlotInv, NEW c \in Caller, Releasable(c), ReturnIdle(c)
  PROVE  SlotInv'
<1> USE DEF SlotInv, slots, drains
<1>1. /\ pc' \in [Caller -> PCState] /\ Owning' = Owning \ {c} /\ Counted' = Counted \ {c}
      /\ Parked' = Parked \ {c} /\ Resumed' = Resumed \ {c}
  BY ReleaseStates, OneMoves DEF ReturnIdle
<1>2. Parked' = Parked /\ Resumed' = Resumed
  BY <1>1, Releasing
<1>3. activeCount' = activeCount - 1 /\ activeCount' \in Nat /\ activeCount' = Cardinality(Counted')
  BY <1>1, Releasing DEF ReturnIdle
<1>4. /\ idle' = Append(idle, res[c]) /\ idle \in Seq(Resource) /\ idle' \in Seq(Resource)
      /\ Len(idle') = Len(idle) + 1 /\ Len(idle) \in Nat
  <2>1. idle' = Append(idle, res[c]) /\ idle \in Seq(Resource)
    BY DEF ReturnIdle, TypeOK
  <2>2. res[c] \in Resource
    BY Releasing
  <2> QED
    BY <2>1, <2>2
<1>5. TypeOK'
  BY <1>1, <1>3, <1>4 DEF TypeOK, ReturnIdle
<1>6. CallsQueued'
  BY <1>2 DEF CallsQueued, ReturnIdle
<1>7. SlotsAccounted' /\ WithinMaxSize'
  <2>1. activeCount \in Nat
    BY Releasing
  <2> QED
    BY <1>3, <1>4, <2>1 DEF SlotsAccounted, WithinMaxSize
<1> QED
  BY <1>5, <1>6, <1>7

\* The slot moves from one call to another.
LEMMA CountMoved ==
  ASSUME NEW c \in Counted, NEW w \in Caller, w \notin Counted
  PROVE  Cardinality((Counted \ {c}) \cup {w}) = Cardinality(Counted)
<1>1. IsFiniteSet(Counted \ {c})
  BY FS_Subset DEF Counted
<1>2. Cardinality((Counted \ {c}) \cup {w}) = Cardinality(Counted \ {c}) + 1
  BY <1>1, FS_AddElement
<1> QED
  BY <1>2, CountOneLess

LEMMA ReturnHandOverKeeps ==
  ASSUME SlotInv, NEW c \in Caller, Releasable(c), ReturnHandOver(c)
  PROVE  SlotInv'
<1> USE DEF SlotInv, slots, drains
<1> DEFINE w == Head(waiters)
<1>1. /\ pc' = [pc EXCEPT ![c] = "released", ![w] = "handed"]
      /\ waiters # <<>> /\ waiters' = Tail(waiters)
      /\ jobs' = Append(jobs, w)
      /\ res' = [res EXCEPT ![w] = res[c]]
  BY DEF ReturnHandOver
<1>2. /\ w \in Caller /\ w \in Parked /\ w \notin Resumed /\ w \notin Counted /\ w \notin Owning
      /\ c # w
  BY <1>1, Releasing, FirstWaiter, StateSets
<1>3. waiters' \in Seq(Caller) /\ IsInjective(waiters') /\ Range(waiters') = Parked \ {w}
  BY <1>1, FirstWaiter
<1>4. jobs' \in Seq(Caller) /\ IsInjective(jobs') /\ Range(jobs') = Resumed \cup {w}
  BY <1>1, <1>2, AppendQueue DEF TypeOK, CallsQueued
<1> HIDE DEF w
<1>5. /\ pc' \in [Caller -> PCState]
      /\ Owning' \subseteq Caller /\ Counted' \subseteq Caller
      /\ Parked' \subseteq Caller /\ Resumed' \subseteq Caller
      /\ \A d \in Caller \ {c, w} : /\ d \in Owning' <=> d \in Owning
                                    /\ d \in Counted' <=> d \in Counted
                                    /\ d \in Parked' <=> d \in Parked
                                    /\ d \in Resumed' <=> d \in Resumed
      /\ c \notin Owning' /\ c \notin Counted' /\ c \notin Parked' /\ c \notin Resumed'
      /\ w \in Owning' /\ w \in Counted' /\ w \notin Parked' /\ w \in Resumed'
  BY <1>1, <1>2, ReleaseStates, TwoMove
<1>6. /\ Owning' = (Owning \ {c}) \cup {w} /\ Counted' = (Counted \ {c}) \cup {w}
      /\ Parked' = Parked \ {w} /\ Resumed' = Resumed \cup {w}
  <2>1. c \in Counted /\ c \in Owning /\ c \notin Parked /\ c \notin Resumed
    BY Releasing
  <2>2. Owning \subseteq Caller /\ Counted \subseteq Caller
        /\ Parked \subseteq Caller /\ Resumed \subseteq Caller
    BY DEF Owning, Counted, Parked, Resumed
  <2>3. Owning' = (Owning \ {c}) \cup {w}
    BY <1>2, <1>5, <2>1, <2>2
  <2>4. Counted' = (Counted \ {c}) \cup {w}
    BY <1>2, <1>5, <2>1, <2>2
  <2>5. Parked' = Parked \ {w}
    BY <1>2, <1>5, <2>1, <2>2
  <2>6. Resumed' = Resumed \cup {w}
    BY <1>2, <1>5, <2>1, <2>2
  <2> QED
    BY <2>3, <2>4, <2>5, <2>6
<1>7. Cardinality(Counted') = Cardinality(Counted)
  BY <1>2, <1>6, Releasing, CountMoved
<1>8. res' \in [Caller -> Resource \cup {None}] /\ \A d \in Owning' : res'[d] \in Resource
  <2>1. res[c] \in Resource
    BY Releasing
  <2>2. res' = [res EXCEPT ![w] = res[c]] /\ res \in [Caller -> Resource \cup {None}]
        /\ \A d \in Owning : res[d] \in Resource
    BY <1>1 DEF TypeOK
  <2>3. \A d \in Caller : res'[d] = IF d = w THEN res[c] ELSE res[d]
    BY <2>2
  <2> QED
    BY <1>2, <1>5, <1>6, <2>1, <2>2, <2>3
<1>9. TypeOK'
  BY <1>3, <1>4, <1>5, <1>8 DEF TypeOK, ReturnHandOver
<1>10. CallsQueued'
  BY <1>3, <1>4, <1>6 DEF CallsQueued
<1>11. SlotsAccounted' /\ WithinMaxSize'
  BY <1>7 DEF SlotsAccounted, WithinMaxSize, ReturnHandOver
<1> QED
  BY <1>9, <1>10, <1>11

LEMMA ReleaseKeeps ==
  ASSUME SlotInv, NEW c \in Caller, Release(c)
  PROVE  SlotInv'
BY ReturnDestroyKeeps, ReturnHandOverKeeps, ReturnIdleKeeps DEF Release

LEMMA IdleTimerKeeps ==
  ASSUME SlotInv, IdleTimer
  PROVE  SlotInv'
<1> USE DEF SlotInv, slots, drains
<1>1. /\ idle' \in Seq(Resource) /\ Len(idle') = Len(idle) - 1 /\ Len(idle) \in Nat
      /\ activeCount' = activeCount /\ activeCount \in Nat /\ pc' = pc
      /\ Head(idle) \in Resource
  BY DEF IdleTimer, TypeOK
<1>2. Owning' = Owning /\ Counted' = Counted /\ Parked' = Parked /\ Resumed' = Resumed
  BY <1>1 DEF Owning, Counted, Parked, Resumed
<1>3. TypeOK'
  BY <1>1, <1>2, CheckDrainTyped DEF TypeOK, IdleTimer, Discard
<1>4. CallsQueued'
  BY <1>2 DEF CallsQueued, IdleTimer
<1>5. SlotsAccounted' /\ WithinMaxSize'
  BY <1>1, <1>2 DEF SlotsAccounted, WithinMaxSize
<1> QED
  BY <1>3, <1>4, <1>5

\* The loop of drain leaves the drains and the live resources well typed.
LEMMA SweepFromTyped ==
  ASSUME TypeOK, NEW d \in Drainer, NEW entries \in Seq(Resource), SweepFrom(d, entries)
  PROVE  /\ drainResolve' \in Drainer \cup {None}
         /\ dpc' \in [Drainer -> {"idle", "sweeping", "waiting", "done"}]
         /\ sweep' \in [Drainer -> Seq(Resource)]
         /\ live' \subseteq Resource
<1>1. CASE entries # <<>>
  <2>1. Tail(entries) \in Seq(Resource)
    BY <1>1
  <2>2. /\ drainResolve' = drainResolve /\ live' \subseteq live
        /\ sweep' = [sweep EXCEPT ![d] = Tail(entries)]
        /\ dpc' = [dpc EXCEPT ![d] = "sweeping"]
    BY <1>1 DEF SweepFrom
  <2> QED
    BY <2>1, <2>2 DEF TypeOK
<1>2. CASE entries = <<>>
  BY <1>2 DEF TypeOK, SweepFrom, FinishDrain
<1> QED
  BY <1>1, <1>2

LEMMA DrainKeeps ==
  ASSUME SlotInv, NEW d \in Drainer, Drain(d)
  PROVE  SlotInv'
<1> USE DEF SlotInv
<1>1. /\ "drained" \in PCState /\ "drained" \notin OwningState /\ "drained" \notin CountedState
      /\ "drained" \in ResumedState /\ "drained" # "parked"
  BY DEF PCState, CountedState, OwningState, ResumedState
<1>2. /\ pc \in [Caller -> PCState] /\ Range(waiters) = Parked
      /\ pc' = [c \in Caller |-> IF c \in Parked THEN "drained" ELSE pc[c]]
      /\ waiters' = <<>> /\ jobs' = jobs \o waiters /\ idle' = <<>>
      /\ activeCount' = activeCount /\ res' = res /\ draining' = TRUE
  BY DEF Drain, RejectWaiters, TypeOK, CallsQueued
<1>3. \A c \in Parked : c \notin Owning /\ c \notin Counted /\ c \notin Resumed
  BY StateSets DEF Parked
<1>4. pc' \in [Caller -> PCState]
  BY <1>1, <1>2
<1>5. Owning' = Owning
  BY <1>1, <1>2, <1>3 DEF Owning
<1>6. Counted' = Counted
  BY <1>1, <1>2, <1>3 DEF Counted
<1>7. Parked' = {}
  BY <1>1, <1>2 DEF Parked
<1>8. Resumed' = Resumed \cup Parked
  BY <1>1, <1>2 DEF Resumed, Parked
<1>9. jobs' \in Seq(Caller) /\ IsInjective(jobs') /\ Range(jobs') = Resumed'
  <2>1. /\ jobs \in Seq(Caller) /\ waiters \in Seq(Caller)
        /\ IsInjective(jobs) /\ IsInjective(waiters)
        /\ Range(jobs) = Resumed /\ Range(waiters) = Parked
    BY DEF TypeOK, CallsQueued
  <2>2. Range(jobs) \cap Range(waiters) = {}
    BY <1>3, <2>1
  <2> QED
    BY <1>2, <1>8, <2>1, <2>2, ConcatQueue
<1>10. waiters' \in Seq(Caller) /\ IsInjective(waiters') /\ Range(waiters') = Parked'
  BY <1>2, <1>7, EmptyQueue
<1>11. idle' \in Seq(Resource) /\ Len(idle') = 0 /\ Len(idle) \in Nat /\ activeCount \in Nat
  BY <1>2 DEF TypeOK
<1>12. TypeOK'
  <2>1. /\ drainResolve' \in Drainer \cup {None}
        /\ dpc' \in [Drainer -> {"idle", "sweeping", "waiting", "done"}]
        /\ sweep' \in [Drainer -> Seq(Resource)]
        /\ live' \subseteq Resource /\ destroying' = destroying
    BY SweepFromTyped DEF Drain, TypeOK
  <2> QED
    BY <1>2, <1>4, <1>5, <1>9, <1>10, <1>11, <2>1 DEF TypeOK
<1>13. CallsQueued'
  BY <1>9, <1>10 DEF CallsQueued
<1>14. SlotsAccounted' /\ WithinMaxSize'
  BY <1>2, <1>6, <1>11 DEF SlotsAccounted, WithinMaxSize
<1> QED
  BY <1>12, <1>13, <1>14

LEMMA SweepNextKeeps ==
  ASSUME SlotInv, NEW d \in Drainer, SweepNext(d)
  PROVE  SlotInv'
<1> USE DEF SlotInv, slots
<1>1. Owning' = Owning /\ Counted' = Counted /\ Parked' = Parked /\ Resumed' = Resumed
  BY DEF SweepNext, Owning, Counted, Parked, Resumed
<1>2. sweep[d] \in Seq(Resource)
  BY DEF TypeOK
<1>3. TypeOK'
  <2>1. /\ drainResolve' \in Drainer \cup {None}
        /\ dpc' \in [Drainer -> {"idle", "sweeping", "waiting", "done"}]
        /\ sweep' \in [Drainer -> Seq(Resource)]
        /\ live' \subseteq Resource
    BY <1>2, SweepFromTyped DEF SweepNext
  <2> QED
    BY <1>1, <2>1 DEF TypeOK, SweepNext
<1>4. CallsQueued' /\ SlotsAccounted' /\ WithinMaxSize'
  BY <1>1 DEF CallsQueued, SlotsAccounted, WithinMaxSize, SweepNext
<1> QED
  BY <1>3, <1>4

-----------------------------------------------------------------------------
LEMMA SlotInvInit == Init => SlotInv
<1> SUFFICES ASSUME Init PROVE SlotInv
  OBVIOUS
<1>1. /\ Owning = {} /\ Counted = {} /\ Parked = {} /\ Resumed = {}
  BY DEF Init, Owning, Counted, Parked, Resumed, CountedState, OwningState, ResumedState
<1>2. TypeOK
  <2>1. /\ idle \in Seq(Resource) /\ waiters \in Seq(Caller) /\ jobs \in Seq(Caller)
        /\ sweep \in [Drainer -> Seq(Resource)]
    BY EmptyQueue DEF Init
  <2>2. pc \in [Caller -> PCState]
    BY DEF Init, PCState
  <2> QED
    BY <1>1, <2>1, <2>2 DEF Init, TypeOK
<1>3. SlotsAccounted /\ WithinMaxSize
  BY <1>1, FS_EmptySet DEF Init, SlotsAccounted, WithinMaxSize
<1>4. CallsQueued
  BY <1>1, EmptyQueue DEF Init, CallsQueued
<1> QED
  BY <1>2, <1>3, <1>4 DEF SlotInv

\* So does a destroy() that settles, which no other variable shows.
LEMMA NothingMovesKeeps ==
  ASSUME SlotInv, UNCHANGED <<slots, drains, waiters, jobs, live, pc, res>>,
         destroying' \subseteq Resource
  PROVE  SlotInv'
BY DEF SlotInv, TypeOK, SlotsAccounted, WithinMaxSize, CallsQueued,
   Owning, Counted, Parked, Resumed, slots, drains

LEMMA SlotInvStep == SlotInv /\ [Next]_vars => SlotInv'
<1> SUFFICES ASSUME SlotInv, [Next]_vars PROVE SlotInv'
  OBVIOUS
<1>1. ASSUME NEW c \in Caller, Acquire(c) PROVE SlotInv'
  BY <1>1, AcquireKeeps
<1>2. ASSUME NEW c \in Caller, Continue(c) PROVE SlotInv'
  BY <1>2, FoundIdleKeeps, ReserveSlotKeeps, ParkKeeps, ResumeHandedKeeps,
     ResumeDrainedKeeps, ResumeRetryKeeps, DeliverKeeps DEF Continue
<1>3. ASSUME NEW c \in Caller, Validated(c) PROVE SlotInv'
  BY <1>3, ValidateHealthyKeeps, ValidateUnhealthyKeeps DEF Validated
<1>4. ASSUME NEW c \in Caller, Created(c) PROVE SlotInv'
  BY <1>4, CreateFailsKeeps, CreateOkKeeps DEF Created
<1>5. ASSUME NEW c \in Caller, Release(c) PROVE SlotInv'
  BY <1>5, ReleaseKeeps
<1>6. ASSUME NEW d \in Drainer, Drain(d) PROVE SlotInv'
  BY <1>6, DrainKeeps
<1>7. ASSUME NEW d \in Drainer, SweepNext(d) PROVE SlotInv'
  BY <1>7, SweepNextKeeps
<1>8. CASE IdleTimer
  BY <1>8, IdleTimerKeeps
<1>9. ASSUME NEW r \in Resource, DestroySettles(r) PROVE SlotInv'
  BY <1>9, NothingMovesKeeps DEF DestroySettles, SlotInv, TypeOK
<1>10. CASE UNCHANGED vars
  BY <1>10, NothingMovesKeeps DEF vars, SlotInv, TypeOK
<1> QED
  BY <1>1, <1>2, <1>3, <1>4, <1>5, <1>6, <1>7, <1>8, <1>9, <1>10 DEF Next

LEMMA SlotInvariant == Spec => []SlotInv
BY SlotInvInit, SlotInvStep, PTL DEF Spec

\* Every variable keeps its type: activeCount never goes negative, although
\* it is decremented at four places.
THEOREM PoolTyped == Spec => []TypeOK
<1>1. SlotInv => TypeOK
  BY DEF SlotInv
<1> QED
  BY <1>1, SlotInvariant, PTL

\* The pool never counts more than maxSize slots, idle and reserved together.
THEOREM PoolWithinMaxSize == Spec => []WithinMaxSize
<1>1. SlotInv => WithinMaxSize
  BY DEF SlotInv
<1> QED
  BY <1>1, SlotInvariant, PTL

\* activeCount is the number of calls that a slot is reserved for.
THEOREM PoolSlotsAccounted == Spec => []SlotsAccounted
<1>1. SlotInv => SlotsAccounted
  BY DEF SlotInv
<1> QED
  BY <1>1, SlotInvariant, PTL

\* Every suspended call is in exactly one queue, once.
THEOREM PoolCallsQueued == Spec => []CallsQueued
<1>1. SlotInv => CallsQueued
  BY DEF SlotInv
<1> QED
  BY <1>1, SlotInvariant, PTL


-----------------------------------------------------------------------------
(* The resources: none is leaked or shared. *)

\* The second invariant is about the resources; it rests on the first.
PoolInv == SlotInv /\ ResourcesAccounted

\* What the calls other than c own.
Others(c) == {res[d] : d \in Owning \ {c}}

LEMMA OthersOwned ==
  ASSUME NEW c \in Caller, \A a, b \in Owning : res[a] = res[b] => a = b
  PROVE  /\ c \in Owning => Others(c) = Owned \ {res[c]}
         /\ c \notin Owning => Others(c) = Owned
         /\ c \in Owning => Owned = Others(c) \cup {res[c]}
BY DEF Others, Owned

\* A step that changes what one call owns.
LEMMA OneOwns ==
  ASSUME NEW c \in Caller, \A a, b \in Owning : res[a] = res[b] => a = b,
         Owning' \ {c} = Owning \ {c}, \A d \in Owning \ {c} : res'[d] = res[d],
         c \in Owning' => res'[c] \notin Others(c)
  PROVE  /\ c \in Owning' => Owned' = Others(c) \cup {res'[c]}
         /\ c \notin Owning' => Owned' = Others(c)
         /\ \A a, b \in Owning' : res'[a] = res'[b] => a = b
<1>1. c \in Owning' => Owned' = Others(c) \cup {res'[c]}
  BY DEF Owned, Others
<1>2. c \notin Owning' => Owned' = Others(c)
  BY DEF Owned, Others
<1>3. \A a \in Owning' \ {c} : res'[a] \in Others(c)
  BY DEF Others
<1>4. \A a, b \in Owning' : res'[a] = res'[b] => a = b
  BY <1>3
<1> QED
  BY <1>1, <1>2, <1>4

\* The same calls own the same resources.
LEMMA OwnedSame ==
  ASSUME \A a, b \in Owning : res[a] = res[b] => a = b,
         Owning' = Owning, \A d \in Owning : res'[d] = res[d]
  PROVE  Owned' = Owned /\ \A a, b \in Owning' : res'[a] = res'[b] => a = b
BY DEF Owned

\* A drain that completes was waiting.
LEMMA CheckDrainInStep ==
  ASSUME TypeOK, DrainsInStep, CheckDrainComplete, sweep' = sweep
  PROVE  DrainsInStep'
<1>1. CASE drainResolve' = None /\ drainResolve # None /\ dpc' = [dpc EXCEPT ![drainResolve] = "done"]
  <2>1. drainResolve \in Drainer /\ sweep[drainResolve] = <<>>
    BY <1>1 DEF TypeOK, DrainsInStep
  <2>2. \A d \in Drainer : d # drainResolve => dpc'[d] = dpc[d]
    BY <1>1 DEF TypeOK
  <2> QED
    BY <1>1, <2>1, <2>2 DEF DrainsInStep
<1>2. CASE UNCHANGED <<drainResolve, dpc>>
  BY <1>2 DEF DrainsInStep
<1> QED
  BY <1>1, <1>2 DEF CheckDrainComplete

-----------------------------------------------------------------------------
\* tryAcquireIdle moves the oldest idle resource to its call; what the call
\* had before is gone.
LEMMA TakeResources ==
  ASSUME PoolInv, NEW c \in Caller, NEW active, NEW rest, TryAcquireIdle(c, active, rest),
         UNCHANGED drains, live' = Range(idle) \cup Others(c) \cup Swept
  PROVE  ResourcesAccounted'
<1> USE DEF PoolInv, SlotInv
<1>1. /\ Owned \cap Range(idle) = {} /\ Owned \cap Swept = {} /\ Range(idle) \cap Swept = {}
      /\ Others(c) \subseteq Owned
      /\ IsInjective(idle) /\ idle \in Seq(Resource)
      /\ res \in [Caller -> Resource \cup {None}]
      /\ \A a, b \in Owning : res[a] = res[b] => a = b
      /\ Owning \subseteq Caller
  BY DEF ResourcesAccounted, TypeOK, Others, Owned, Owning
<1>2. /\ Swept' = Swept /\ DrainsInStep'
      /\ \A d \in Drainer : IsInjective(sweep'[d])
      /\ \A d, e \in Drainer : d # e => Range(sweep'[d]) \cap Range(sweep'[e]) = {}
  BY DEF ResourcesAccounted, DrainsInStep, Swept, drains
<1>3. CASE idle # <<>>
  <2> DEFINE x == IF HasValidate THEN "validating" ELSE "found"
  <2>1. /\ idle' = Tail(idle)
        /\ res' = [res EXCEPT ![c] = Head(idle)]
        /\ pc' = [pc EXCEPT ![c] = x]
    BY <1>3 DEF TryAcquireIdle
  <2>2. x \in PCState /\ x \in OwningState
    BY DEF PCState, CountedState, OwningState
  <2> HIDE DEF x
  <2>3. Owning' = Owning \cup {c}
    BY <2>1, <2>2, OneMoves
  <2>4. /\ IsInjective(idle') /\ Head(idle) \in Range(idle)
        /\ Range(idle') = Range(idle) \ {Head(idle)}
    BY <1>1, <1>3, <2>1, TailQueue
  <2>5. res'[c] = Head(idle) /\ \A d \in Caller \ {c} : res'[d] = res[d]
    BY <1>1, <2>1
  <2>6. res'[c] \notin Others(c)
    BY <1>1, <2>4, <2>5
  <2>7. /\ Owned' = Others(c) \cup {Head(idle)}
        /\ \A a, b \in Owning' : res'[a] = res'[b] => a = b
    BY <1>1, <2>3, <2>5, <2>6, OneOwns
  <2> QED
    BY <1>1, <1>2, <2>4, <2>7, SMTT(30) DEF ResourcesAccounted
<1>4. CASE idle = <<>>
  <2>1. /\ idle' = idle
        /\ res' = [res EXCEPT ![c] = None]
        /\ pc' = [pc EXCEPT ![c] = "none"]
    BY <1>4 DEF TryAcquireIdle
  <2>2. Owning' = Owning \ {c}
    BY <2>1, OneMoves DEF PCState, CountedState, OwningState, ResumedState
  <2>3. \A d \in Caller \ {c} : res'[d] = res[d]
    BY <1>1, <2>1
  <2>4. /\ Owned' = Others(c)
        /\ \A a, b \in Owning' : res'[a] = res'[b] => a = b
    BY <1>1, <2>2, <2>3, OneOwns
  <2> QED
    BY <1>1, <1>2, <2>1, <2>4 DEF ResourcesAccounted
<1> QED
  BY <1>3, <1>4

\* A call gets a resource that is its own already, or new.
LEMMA GrantResources ==
  ASSUME PoolInv, NEW c \in Caller, NEW r, NEW rest, Grant(c, r, rest),
         \/ c \in Owning /\ r = res[c]
         \/ c \notin Owning /\ r \notin live
  PROVE  ResourcesAccounted'
<1> USE DEF PoolInv, SlotInv
<1>1. /\ live = Range(idle) \cup Owned \cup Swept
      /\ Owned \cap Range(idle) = {} /\ Owned \cap Swept = {} /\ Range(idle) \cap Swept = {}
      /\ IsInjective(idle)
      /\ res \in [Caller -> Resource \cup {None}]
      /\ \A a, b \in Owning : res[a] = res[b] => a = b
      /\ Owning \subseteq Caller
  BY DEF ResourcesAccounted, TypeOK, Owning
<1>2. /\ Swept' = Swept /\ DrainsInStep' /\ idle' = idle
      /\ \A d \in Drainer : IsInjective(sweep'[d])
      /\ \A d, e \in Drainer : d # e => Range(sweep'[d]) \cap Range(sweep'[e]) = {}
  BY DEF Grant, ResourcesAccounted, DrainsInStep, Swept, slots, drains
<1>3. /\ res'[c] = r /\ \A d \in Caller \ {c} : res'[d] = res[d]
      /\ live' = live \cup {r}
  BY <1>1 DEF Grant
<1>4. Owning' = Owning \cup {c}
  BY OneMoves DEF Grant, PCState, CountedState, OwningState
<1>5. r \notin Others(c) /\ Owned \cup {r} = Others(c) \cup {r} /\ r \notin Range(idle) /\ r \notin Swept
  <2>1. CASE c \in Owning /\ r = res[c]
    <3>1. Others(c) = Owned \ {r} /\ r \in Owned
      BY <1>1, <2>1, OthersOwned DEF Owned
    <3> QED
      BY <1>1, <3>1
  <2>2. CASE c \notin Owning /\ r \notin live
    <3>1. Others(c) = Owned
      BY <1>1, <2>2, OthersOwned
    <3> QED
      BY <1>1, <2>2, <3>1
  <2> QED
    BY <2>1, <2>2
<1>6. Owned' = Owned \cup {r} /\ \A a, b \in Owning' : res'[a] = res'[b] => a = b
  BY <1>1, <1>3, <1>4, <1>5, OneOwns
<1> QED
  BY <1>1, <1>2, <1>3, <1>5, <1>6 DEF ResourcesAccounted

\* A call's resource, its own or new, is destroyed, and the call has none.
LEMMA DestroyResources ==
  ASSUME PoolInv, NEW c \in Caller, NEW r, DestroyCounted(r),
         \/ c \in Owning /\ r = res[c]
         \/ c \notin Owning /\ r \notin live,
         Owning' = Owning \ {c}, \A d \in Owning \ {c} : res'[d] = res[d]
  PROVE  ResourcesAccounted'
<1> USE DEF PoolInv, SlotInv
<1>1. /\ live = Range(idle) \cup Owned \cup Swept
      /\ Owned \cap Range(idle) = {} /\ Owned \cap Swept = {} /\ Range(idle) \cap Swept = {}
      /\ IsInjective(idle)
      /\ \A a, b \in Owning : res[a] = res[b] => a = b
  BY DEF ResourcesAccounted
<1>2. /\ Swept' = Swept /\ idle' = idle /\ live' = live \ {r}
      /\ \A d \in Drainer : IsInjective(sweep'[d])
      /\ \A d, e \in Drainer : d # e => Range(sweep'[d]) \cap Range(sweep'[e]) = {}
  BY DEF DestroyCounted, Discard, ResourcesAccounted, Swept
<1>3. DrainsInStep'
  BY CheckDrainInStep DEF DestroyCounted, ResourcesAccounted
<1>4. Owned' = Others(c) /\ \A a, b \in Owning' : res'[a] = res'[b] => a = b
  BY <1>1, OneOwns
<1>5. live' = Range(idle) \cup Others(c) \cup Swept /\ Others(c) \subseteq Owned
  <2>1. CASE c \in Owning /\ r = res[c]
    <3>1. Others(c) = Owned \ {r} /\ r \in Owned
      BY <1>1, <2>1, OthersOwned DEF Owned
    <3> QED
      BY <1>1, <1>2, <3>1
  <2>2. CASE c \notin Owning /\ r \notin live
    <3>1. Others(c) = Owned
      BY <1>1, <2>2, OthersOwned
    <3> QED
      BY <1>1, <1>2, <2>2, <3>1
  <2> QED
    BY <2>1, <2>2
<1> QED
  BY <1>1, <1>2, <1>3, <1>4, <1>5 DEF ResourcesAccounted

\* Nothing changes hands: calls go on with what they have.
LEMMA SameResources ==
  ASSUME PoolInv, UNCHANGED <<idle, live, res, sweep>>, Owning' = Owning, DrainsInStep'
  PROVE  ResourcesAccounted'
<1>1. Owned' = Owned /\ Swept' = Swept
  BY DEF Owned, Swept
<1> QED
  BY <1>1 DEF PoolInv, ResourcesAccounted

-----------------------------------------------------------------------------
\* Each step keeps the resources accounted for.
LEMMA AcquireResources ==
  ASSUME PoolInv, NEW c \in Caller, Acquire(c)
  PROVE  ResourcesAccounted'
<1>1. c \notin Owning
  BY DEF Acquire, Owning, OwningState
<1>2. Others(c) = Owned
  BY <1>1 DEF Others, Owned
<1>3. live' = Range(idle) \cup Others(c) \cup Swept
  BY <1>2 DEF Acquire, PoolInv, ResourcesAccounted
<1> QED
  BY <1>3, TakeResources DEF Acquire

LEMMA ResumeRetryResources ==
  ASSUME PoolInv, NEW c \in Caller, ResumeRetry(c)
  PROVE  ResourcesAccounted'
<1>1. c \notin Owning
  BY DEF ResumeRetry, Owning, OwningState
<1>2. Others(c) = Owned
  BY <1>1 DEF Others, Owned
<1>3. live' = Range(idle) \cup Others(c) \cup Swept
  BY <1>2 DEF ResumeRetry, PoolInv, ResourcesAccounted
<1> QED
  BY <1>3, TakeResources DEF ResumeRetry

LEMMA ValidateUnhealthyResources ==
  ASSUME PoolInv, NEW c \in Caller, ValidateUnhealthy(c)
  PROVE  ResourcesAccounted'
<1>1. c \in Owning
  BY DEF ValidateUnhealthy, Owning, OwningState
<1>2. Others(c) = Owned \ {res[c]} /\ res[c] \in Owned
  BY <1>1, OthersOwned DEF PoolInv, ResourcesAccounted, Owned
<1>3. live' = Range(idle) \cup Others(c) \cup Swept
  BY <1>2 DEF ValidateUnhealthy, Discard, PoolInv, ResourcesAccounted
<1> QED
  BY <1>3, TakeResources DEF ValidateUnhealthy

LEMMA RefuseResources ==
  ASSUME PoolInv, NEW c \in Caller, NEW r, NEW rest, Refuse(c, r, rest),
         \/ c \in Owning /\ r = res[c]
         \/ c \notin Owning /\ r \notin live
  PROVE  ResourcesAccounted'
<1>1. Owning' = Owning \ {c}
  BY OneMoves DEF Refuse, PoolInv, SlotInv, PCState, CountedState, OwningState
<1>2. \A d \in Owning \ {c} : res'[d] = res[d]
  BY DEF Refuse, PoolInv, SlotInv, TypeOK, Owning
<1>3. DestroyCounted(r)
  BY DEF Refuse
<1> QED
  BY <1>1, <1>2, <1>3, DestroyResources

LEMMA CheckoutResources ==
  ASSUME PoolInv, NEW c \in Caller, FoundIdle(c) \/ \E r \in Resource : CreateOk(c, r)
  PROVE  ResourcesAccounted'
<1>1. CASE FoundIdle(c)
  <2>1. c \in Owning
    BY <1>1 DEF FoundIdle, Owning, OwningState
  <2> QED
    BY <1>1, <2>1, GrantResources, RefuseResources DEF FoundIdle, Checkout
<1>2. ASSUME NEW r \in Resource, CreateOk(c, r) PROVE ResourcesAccounted'
  <2>1. c \notin Owning /\ r \notin live
    BY <1>2 DEF CreateOk, Owning, OwningState
  <2> QED
    BY <1>2, <2>1, GrantResources, RefuseResources DEF CreateOk, Checkout
<1> QED
  BY <1>1, <1>2

\* A call goes from one state that owns to another, or from one that does
\* not to another.
LEMMA MoveResources ==
  ASSUME PoolInv, NEW c \in Caller, NEW x \in PCState, pc' = [pc EXCEPT ![c] = x],
         pc[c] \in OwningState <=> x \in OwningState,
         UNCHANGED <<idle, live, res, drains>>
  PROVE  ResourcesAccounted'
<1>1. Owning' = Owning
  <2>1. /\ x \in OwningState => Owning' = Owning \cup {c}
        /\ x \notin OwningState => Owning' = Owning \ {c}
    BY OneMoves DEF PoolInv, SlotInv
  <2>2. c \in Owning <=> x \in OwningState
    BY DEF Owning
  <2> QED
    BY <2>1, <2>2
<1>2. DrainsInStep'
  BY DEF PoolInv, ResourcesAccounted, DrainsInStep, drains
<1> QED
  BY <1>1, <1>2, SameResources DEF drains

LEMMA CallResources ==
  ASSUME PoolInv, NEW c \in Caller,
         \/ ValidateHealthy(c) \/ ReserveSlot(c) \/ Park(c)
         \/ ResumeHanded(c) \/ ResumeDrained(c) \/ Deliver(c)
  PROVE  ResourcesAccounted'
<1> USE DEF slots, PCState, CountedState, OwningState, ResumedState
<1>1. CASE ValidateHealthy(c)
  BY <1>1, MoveResources DEF ValidateHealthy
<1>2. CASE ReserveSlot(c)
  BY <1>2, MoveResources DEF ReserveSlot
<1>3. CASE Park(c)
  BY <1>3, MoveResources DEF Park
<1>4. CASE ResumeHanded(c)
  BY <1>4, MoveResources DEF ResumeHanded
<1>5. CASE ResumeDrained(c)
  BY <1>5, MoveResources DEF ResumeDrained
<1>6. CASE Deliver(c)
  BY <1>6, MoveResources DEF Deliver
<1> QED
  BY <1>1, <1>2, <1>3, <1>4, <1>5, <1>6

LEMMA CreateFailsResources ==
  ASSUME PoolInv, NEW c \in Caller, CreateFails(c)
  PROVE  ResourcesAccounted'
<1> USE DEF PoolInv, SlotInv
<1>1. c \notin Owning /\ c \notin Parked
  BY DEF CreateFails, Owning, Parked, OwningState
<1>2. /\ "out" \in PCState /\ "out" \notin OwningState
      /\ "retry" \in PCState /\ "retry" \notin OwningState
  BY DEF PCState, CountedState, OwningState, ResumedState
<1>3. Owning' = Owning
  <2>1. CASE waiters = <<>>
    <3>1. pc' = [pc EXCEPT ![c] = "out"]
      BY <2>1 DEF CreateFails, EndAndRetry
    <3>2. Owning' = Owning \ {c}
      BY <1>2, <3>1, OneMoves
    <3> QED
      BY <1>1, <3>2
  <2>2. CASE waiters # <<>>
    <3> DEFINE w == Head(waiters)
    <3>1. pc' = [pc EXCEPT ![c] = "out", ![w] = "retry"]
      BY <2>2 DEF CreateFails, EndAndRetry
    <3>2. w \in Caller /\ w \notin Owning /\ c # w
      BY <1>1, <2>2, FirstWaiter, StateSets
    <3> HIDE DEF w
    <3>3. Owning' \subseteq Caller /\ c \notin Owning' /\ w \notin Owning'
          /\ \A d \in Caller \ {c, w} : d \in Owning' <=> d \in Owning
      BY <1>2, <3>1, <3>2, TwoMove
    <3> QED
      BY <1>1, <3>2, <3>3 DEF Owning
  <2> QED
    BY <2>1, <2>2
<1>4. DrainsInStep'
  BY CheckDrainInStep DEF CreateFails, ResourcesAccounted
<1> QED
  BY <1>3, <1>4, SameResources DEF CreateFails

LEMMA ReturnDestroyResources ==
  ASSUME PoolInv, NEW c \in Caller, Releasable(c), ReturnDestroy(c)
  PROVE  ResourcesAccounted'
<1>1. c \in Owning
  BY Releasing DEF PoolInv
<1>2. Owning' = Owning \ {c}
  BY ReleaseStates, OneMoves DEF ReturnDestroy, PoolInv, SlotInv
<1>3. \A d \in Owning \ {c} : res'[d] = res[d]
  BY DEF ReturnDestroy
<1>4. DestroyCounted(res[c])
  BY DEF ReturnDestroy
<1> QED
  BY <1>1, <1>2, <1>3, <1>4, DestroyResources

\* The resource goes to a waiter, which owned nothing.
LEMMA ReturnHandOverResources ==
  ASSUME PoolInv, NEW c \in Caller, Releasable(c), ReturnHandOver(c)
  PROVE  ResourcesAccounted'
<1> USE DEF PoolInv, SlotInv
<1> DEFINE w == Head(waiters)
<1>1. /\ pc' = [pc EXCEPT ![c] = "released", ![w] = "handed"]
      /\ res' = [res EXCEPT ![w] = res[c]]
      /\ UNCHANGED <<slots, drains, live>> /\ waiters # <<>>
  BY DEF ReturnHandOver
<1>2. w \in Caller /\ w \notin Owning /\ c \in Owning /\ c # w
  BY <1>1, Releasing, FirstWaiter, StateSets
<1> HIDE DEF w
<1>3. Owning' = (Owning \ {c}) \cup {w}
  <2>1. Owning' \subseteq Caller /\ c \notin Owning' /\ w \in Owning'
        /\ \A d \in Caller \ {c, w} : d \in Owning' <=> d \in Owning
    BY <1>1, <1>2, ReleaseStates, TwoMove
  <2>2. Owning \subseteq Caller
    BY DEF Owning
  <2> QED
    BY <1>2, <2>1, <2>2
<1>4. res'[w] = res[c] /\ \A d \in Caller \ {w} : res'[d] = res[d]
  BY <1>1, <1>2 DEF TypeOK
<1>5. \A a, b \in Owning : res[a] = res[b] => a = b
  BY DEF ResourcesAccounted
<1>6. Owning \subseteq Caller
  BY DEF Owning
<1>7. \A a, b \in Owning' : res'[a] = res'[b] => a = b
  BY <1>2, <1>3, <1>4, <1>5, <1>6
<1>8. Owned' = Owned
  <2>1. ASSUME NEW a \in Owning PROVE \E b \in Owning' : res'[b] = res[a]
    BY <1>2, <1>3, <1>4, <1>6
  <2>2. ASSUME NEW b \in Owning' PROVE \E a \in Owning : res'[b] = res[a]
    BY <1>2, <1>3, <1>4, <1>6
  <2> QED
    BY <2>1, <2>2 DEF Owned
<1>9. Swept' = Swept /\ DrainsInStep'
  BY <1>1 DEF ResourcesAccounted, DrainsInStep, Swept, drains
<1> QED
  BY <1>1, <1>7, <1>8, <1>9 DEF ResourcesAccounted, slots, drains

\* The resource goes to the idle queue.
LEMMA ReturnIdleResources ==
  ASSUME PoolInv, NEW c \in Caller, Releasable(c), ReturnIdle(c)
  PROVE  ResourcesAccounted'
<1> USE DEF PoolInv, SlotInv
<1>1. /\ idle' = Append(idle, res[c]) /\ live' = live /\ res' = res /\ UNCHANGED drains
      /\ c \in Owning /\ res[c] \in Resource
  BY Releasing DEF ReturnIdle
<1>2. Owning' = Owning \ {c}
  BY ReleaseStates, OneMoves DEF ReturnIdle
<1>3. /\ live = Range(idle) \cup Owned \cup Swept
      /\ Owned \cap Range(idle) = {} /\ Owned \cap Swept = {} /\ Range(idle) \cap Swept = {}
      /\ IsInjective(idle) /\ idle \in Seq(Resource)
      /\ \A a, b \in Owning : res[a] = res[b] => a = b
  BY DEF ResourcesAccounted, TypeOK
<1>4. Others(c) = Owned \ {res[c]} /\ res[c] \in Owned
  BY <1>1, <1>3, OthersOwned DEF Owned
<1>5. Owned' = Others(c) /\ \A a, b \in Owning' : res'[a] = res'[b] => a = b
  BY <1>1, <1>2, <1>3, OneOwns
<1>6. IsInjective(idle') /\ Range(idle') = Range(idle) \cup {res[c]}
  BY <1>1, <1>3, <1>4, AppendQueue
<1>7. /\ Swept' = Swept /\ DrainsInStep'
      /\ \A d \in Drainer : IsInjective(sweep'[d])
      /\ \A d, e \in Drainer : d # e => Range(sweep'[d]) \cap Range(sweep'[e]) = {}
  <2>1. sweep' = sweep /\ dpc' = dpc /\ drainResolve' = drainResolve
    BY <1>1 DEF drains
  <2>2. Swept' = Swept
    BY <2>1 DEF Swept
  <2>3. DrainsInStep'
    BY <2>1 DEF ResourcesAccounted, DrainsInStep
  <2> QED
    BY <2>1, <2>2, <2>3 DEF ResourcesAccounted
<1>8. live' = Range(idle') \cup Owned' \cup Swept'
  BY <1>1, <1>3, <1>4, <1>5, <1>6, <1>7
<1>9. /\ Range(idle') \cap Owned' = {} /\ Range(idle') \cap Swept' = {}
      /\ Owned' \cap Swept' = {}
  BY <1>3, <1>4, <1>5, <1>6, <1>7
<1> QED
  BY <1>5, <1>6, <1>7, <1>8, <1>9 DEF ResourcesAccounted

LEMMA IdleTimerResources ==
  ASSUME PoolInv, IdleTimer
  PROVE  ResourcesAccounted'
<1> USE DEF PoolInv, SlotInv
<1>1. /\ idle # <<>> /\ idle' = Tail(idle) /\ live' = live \ {Head(idle)}
      /\ UNCHANGED <<pc, res, sweep>>
  BY DEF IdleTimer, Discard
<1>2. /\ live = Range(idle) \cup Owned \cup Swept
      /\ Owned \cap Range(idle) = {} /\ Owned \cap Swept = {} /\ Range(idle) \cap Swept = {}
      /\ IsInjective(idle) /\ idle \in Seq(Resource)
  BY DEF ResourcesAccounted, TypeOK
<1>3. /\ IsInjective(idle') /\ Head(idle) \in Range(idle)
      /\ Range(idle') = Range(idle) \ {Head(idle)}
  BY <1>1, <1>2, TailQueue
<1>4. Owning' = Owning
  BY <1>1 DEF Owning
<1>5. Owned' = Owned /\ Swept' = Swept /\ \A a, b \in Owning' : res'[a] = res'[b] => a = b
  BY <1>1, <1>4 DEF Owned, Swept, ResourcesAccounted
<1>6. DrainsInStep'
  BY <1>1, CheckDrainInStep DEF IdleTimer, ResourcesAccounted
<1>7. live' = Range(idle') \cup Owned' \cup Swept'
  BY <1>1, <1>2, <1>3, <1>5
<1> QED
  BY <1>1, <1>2, <1>3, <1>5, <1>6, <1>7 DEF ResourcesAccounted

-----------------------------------------------------------------------------
\* What the drains other than d have left to destroy.
OthersSwept(d) == UNION {Range(sweep[e]) : e \in Drainer \ {d}}

\* A drain works on a list that is neither idle nor in a call nor another
\* drain's.
LEMMA SweepFromResources ==
  ASSUME PoolInv, NEW d \in Drainer, NEW entries \in Seq(Resource), IsInjective(entries),
         SweepFrom(d, entries),
         dpc[d] \in {"idle", "sweeping"}, entries = <<>> => sweep[d] = <<>>,
         Owning' = Owning, res' = res,
         IsInjective(idle'),
         live = Range(idle') \cup Owned \cup OthersSwept(d) \cup Range(entries),
         Range(idle') \cap Owned = {}, Range(idle') \cap OthersSwept(d) = {},
         Range(idle') \cap Range(entries) = {}, Owned \cap Range(entries) = {},
         OthersSwept(d) \cap Range(entries) = {}
  PROVE  ResourcesAccounted'
<1> USE DEF PoolInv, SlotInv
<1>1. /\ Owned \cap Swept = {} /\ OthersSwept(d) \subseteq Swept
      /\ \A a, b \in Owning : res[a] = res[b] => a = b
      /\ \A e \in Drainer : IsInjective(sweep[e])
      /\ \A a, b \in Drainer : a # b => Range(sweep[a]) \cap Range(sweep[b]) = {}
      /\ \A e \in Drainer : sweep[e] # <<>> => dpc[e] = "sweeping"
      /\ drainResolve # None => dpc[drainResolve] = "waiting"
      /\ sweep \in [Drainer -> Seq(Resource)]
      /\ dpc \in [Drainer -> {"idle", "sweeping", "waiting", "done"}]
      /\ drainResolve # d
  BY DEF ResourcesAccounted, DrainsInStep, Swept, OthersSwept, TypeOK
<1>2. Owned' = Owned /\ \A a, b \in Owning' : res'[a] = res'[b] => a = b
  BY <1>1, OwnedSame
<1>3. \A e \in Drainer \ {d} : Range(sweep[e]) \subseteq OthersSwept(d)
  BY DEF OthersSwept
<1>4. CASE entries # <<>>
  <2>1. /\ live' = live \ {Head(entries)}
        /\ sweep' = [sweep EXCEPT ![d] = Tail(entries)]
        /\ dpc' = [dpc EXCEPT ![d] = "sweeping"]
        /\ drainResolve' = drainResolve
    BY <1>4 DEF SweepFrom
  <2>2. /\ IsInjective(Tail(entries)) /\ Head(entries) \in Range(entries)
        /\ Range(Tail(entries)) = Range(entries) \ {Head(entries)}
    BY <1>4, TailQueue
  <2>3. /\ sweep'[d] = Tail(entries) /\ \A e \in Drainer \ {d} : sweep'[e] = sweep[e]
        /\ dpc'[d] = "sweeping" /\ \A e \in Drainer \ {d} : dpc'[e] = dpc[e]
    BY <1>1, <2>1
  <2>4. Swept' = OthersSwept(d) \cup Range(Tail(entries))
    <3>1. Swept' = UNION {Range(sweep'[e]) : e \in Drainer}
      BY DEF Swept
    <3>2. ASSUME NEW r \in OthersSwept(d) \cup Range(Tail(entries)) PROVE r \in Swept'
      BY <2>3, <3>1 DEF OthersSwept
    <3>3. ASSUME NEW r \in Swept' PROVE r \in OthersSwept(d) \cup Range(Tail(entries))
      <4>1. PICK e \in Drainer : r \in Range(sweep'[e])
        BY <3>1, <3>3
      <4> QED
        BY <1>3, <2>3, <4>1
    <3> QED
      BY <3>2, <3>3
  <2>5. DrainsInStep'
    BY <1>1, <2>1, <2>3 DEF DrainsInStep, TypeOK
  <2>6. \A e \in Drainer : IsInjective(sweep'[e])
    BY <1>1, <2>2, <2>3
  <2>7. \A a, b \in Drainer : a # b => Range(sweep'[a]) \cap Range(sweep'[b]) = {}
    <3> SUFFICES ASSUME NEW a \in Drainer, NEW b \in Drainer, a # b
                 PROVE  Range(sweep'[a]) \cap Range(sweep'[b]) = {}
      OBVIOUS
    <3>1. CASE a # d /\ b # d
      BY <1>1, <2>3, <3>1
    <3>2. CASE a = d
      BY <1>3, <2>2, <2>3, <3>2
    <3>3. CASE b = d
      BY <1>3, <2>2, <2>3, <3>3
    <3> QED
      BY <3>1, <3>2, <3>3
  <2>8. live' = Range(idle') \cup Owned' \cup Swept'
    BY <1>1, <1>2, <2>1, <2>2, <2>4
  <2>9. /\ Range(idle') \cap Owned' = {} /\ Range(idle') \cap Swept' = {}
        /\ Owned' \cap Swept' = {}
    BY <1>1, <1>2, <2>2, <2>4
  <2> QED
    BY <1>2, <2>5, <2>6, <2>7, <2>8, <2>9 DEF ResourcesAccounted
<1>5. CASE entries = <<>>
  <2>1. live' = live /\ sweep' = sweep /\ FinishDrain(d) /\ sweep[d] = <<>>
    BY <1>5 DEF SweepFrom
  <2>2. Range(entries) = {} /\ Range(sweep[d]) = {}
    BY <1>5, <2>1, EmptyQueue
  <2>3. Swept' = OthersSwept(d)
    BY <2>1, <2>2 DEF Swept, OthersSwept
  <2>4. DrainsInStep'
    BY <1>1, <2>1 DEF DrainsInStep, FinishDrain, TypeOK
  <2>5. live' = Range(idle') \cup Owned' \cup Swept'
    BY <1>2, <2>1, <2>2, <2>3
  <2> QED
    BY <1>1, <1>2, <2>1, <2>3, <2>4, <2>5 DEF ResourcesAccounted
<1> QED
  BY <1>4, <1>5

\* drain() takes the whole idle queue.
LEMMA DrainResources ==
  ASSUME PoolInv, NEW d \in Drainer, Drain(d)
  PROVE  ResourcesAccounted'
<1> USE DEF PoolInv, SlotInv
<1>1. /\ dpc[d] = "idle" /\ idle' = <<>> /\ res' = res /\ SweepFrom(d, idle)
      /\ idle \in Seq(Resource)
  BY DEF Drain, TypeOK
<1>2. Owning' = Owning
  <2>1. pc' = [c \in Caller |-> IF c \in Parked THEN "drained" ELSE pc[c]]
    BY DEF Drain, RejectWaiters, CallsQueued
  <2> QED
    BY <2>1 DEF Owning, Parked, OwningState
<1>3. sweep[d] = <<>>
  BY <1>1 DEF ResourcesAccounted, DrainsInStep
<1>4. Swept = OthersSwept(d)
  BY <1>3, EmptyQueue DEF Swept, OthersSwept
<1>5. IsInjective(idle') /\ Range(idle') = {}
  BY <1>1, EmptyQueue
<1>6. /\ live = Range(idle') \cup Owned \cup OthersSwept(d) \cup Range(idle)
      /\ Owned \cap Range(idle) = {} /\ OthersSwept(d) \cap Range(idle) = {}
      /\ IsInjective(idle)
  BY <1>4, <1>5 DEF ResourcesAccounted
<1> QED
  BY <1>1, <1>2, <1>3, <1>5, <1>6, SweepFromResources

\* It goes on with what is left.
LEMMA SweepNextResources ==
  ASSUME PoolInv, NEW d \in Drainer, SweepNext(d)
  PROVE  ResourcesAccounted'
<1> USE DEF PoolInv, SlotInv
<1>1. /\ dpc[d] = "sweeping" /\ idle' = idle /\ res' = res /\ pc' = pc
      /\ SweepFrom(d, sweep[d]) /\ sweep[d] \in Seq(Resource)
  BY DEF SweepNext, slots, TypeOK
<1>2. Owning' = Owning
  BY <1>1 DEF Owning
<1>3. Swept = OthersSwept(d) \cup Range(sweep[d])
  BY DEF Swept, OthersSwept
<1>4. OthersSwept(d) \cap Range(sweep[d]) = {}
  BY DEF ResourcesAccounted, OthersSwept
<1>5. /\ live = Range(idle) \cup Owned \cup OthersSwept(d) \cup Range(sweep[d])
      /\ Range(idle) \cap Owned = {} /\ Range(idle) \cap OthersSwept(d) = {}
      /\ Range(idle) \cap Range(sweep[d]) = {} /\ Owned \cap Range(sweep[d]) = {}
      /\ IsInjective(idle) /\ IsInjective(sweep[d])
  BY <1>3 DEF ResourcesAccounted
<1> QED
  BY <1>1, <1>2, <1>4, <1>5, SweepFromResources

-----------------------------------------------------------------------------
LEMMA ResourcesInit == Init => ResourcesAccounted
<1> SUFFICES ASSUME Init PROVE ResourcesAccounted
  OBVIOUS
<1>1. Owned = {}
  BY DEF Init, Owned, Owning, OwningState
<1>2. Swept = {} /\ Range(idle) = {} /\ IsInjective(idle)
  BY EmptyQueue DEF Init, Swept
<1>3. \A d \in Drainer : sweep[d] = <<>> /\ IsInjective(sweep[d]) /\ Range(sweep[d]) = {}
  BY EmptyQueue DEF Init
<1>4. DrainsInStep
  BY <1>3 DEF Init, DrainsInStep
<1>5. Owning = {}
  BY DEF Init, Owning, OwningState
<1> QED
  BY <1>1, <1>2, <1>3, <1>4, <1>5 DEF Init, ResourcesAccounted

LEMMA ResourcesStep == PoolInv /\ [Next]_vars => ResourcesAccounted'
<1> SUFFICES ASSUME PoolInv, [Next]_vars PROVE ResourcesAccounted'
  OBVIOUS
<1>1. ASSUME NEW c \in Caller, Acquire(c) PROVE ResourcesAccounted'
  BY <1>1, AcquireResources
<1>2. ASSUME NEW c \in Caller, Continue(c) PROVE ResourcesAccounted'
  BY <1>2, CheckoutResources, CallResources, ResumeRetryResources DEF Continue
<1>3. ASSUME NEW c \in Caller, Validated(c) PROVE ResourcesAccounted'
  BY <1>3, CallResources, ValidateUnhealthyResources DEF Validated
<1>4. ASSUME NEW c \in Caller, Created(c) PROVE ResourcesAccounted'
  BY <1>4, CreateFailsResources, CheckoutResources DEF Created
<1>5. ASSUME NEW c \in Caller, Release(c) PROVE ResourcesAccounted'
  BY <1>5, ReturnDestroyResources, ReturnHandOverResources, ReturnIdleResources DEF Release
<1>6. ASSUME NEW d \in Drainer, Drain(d) \/ SweepNext(d) PROVE ResourcesAccounted'
  BY <1>6, DrainResources, SweepNextResources
<1>7. CASE IdleTimer
  BY <1>7, IdleTimerResources
<1>8. ASSUME UNCHANGED vars \/ \E r \in Resource : DestroySettles(r)
      PROVE  ResourcesAccounted'
  <2>1. UNCHANGED <<idle, live, pc, res, drainResolve, dpc, sweep>>
    BY <1>8 DEF DestroySettles, vars, slots, drains
  <2> QED
    BY <2>1, SameResources DEF PoolInv, ResourcesAccounted, DrainsInStep, Owning
<1> QED
  BY <1>1, <1>2, <1>3, <1>4, <1>5, <1>6, <1>7, <1>8 DEF Next

\* Every live resource is in exactly one place: none is leaked, shared by
\* two callers or used after destroy(), however calls, timers, failures and
\* drains interleave.
THEOREM PoolResourcesAccounted == Spec => []ResourcesAccounted
<1>1. Init => PoolInv
  BY SlotInvInit, ResourcesInit DEF PoolInv
<1>2. PoolInv /\ [Next]_vars => PoolInv'
  BY SlotInvStep, ResourcesStep DEF PoolInv
<1>3. PoolInv => ResourcesAccounted
  BY DEF PoolInv
<1> QED
  BY <1>1, <1>2, <1>3, PTL DEF Spec

-----------------------------------------------------------------------------
\* The third invariant adds what draining says.
\* A drain() that was called has set draining.
DrainsDrain == \A d \in Drainer : dpc[d] # "idle" => draining

RefInv == PoolInv /\ DrainsDrain

LEMMA DrainsDrainStep == RefInv /\ [Next]_vars => DrainsDrain'
<1> SUFFICES ASSUME RefInv, [Next]_vars PROVE DrainsDrain'
  OBVIOUS
<1> USE DEF RefInv, PoolInv, SlotInv
<1>1. /\ dpc \in [Drainer -> {"idle", "sweeping", "waiting", "done"}]
      /\ drainResolve # None => drainResolve \in Drainer /\ dpc[drainResolve] = "waiting"
  BY DEF TypeOK, ResourcesAccounted, DrainsInStep
<1>2. ASSUME CheckDrainComplete, draining' = draining PROVE DrainsDrain'
  BY <1>1, <1>2 DEF CheckDrainComplete, DrainsDrain
<1>3. ASSUME UNCHANGED drains PROVE DrainsDrain'
  BY <1>3 DEF drains, DrainsDrain
<1>4. ASSUME NEW c \in Caller, Acquire(c) \/ Continue(c) PROVE DrainsDrain'
  <2>1. UNCHANGED drains \/ (CheckDrainComplete /\ draining' = draining)
    BY <1>4 DEF Acquire, Continue, FoundIdle, Checkout, Grant, Refuse, DestroyCounted,
       ReserveSlot, Park, ResumeHanded, ResumeDrained, ResumeRetry, Deliver
  <2> QED
    BY <1>2, <1>3, <2>1
<1>5. ASSUME NEW c \in Caller, Validated(c) \/ Created(c) \/ Release(c) PROVE DrainsDrain'
  <2>1. UNCHANGED drains \/ (CheckDrainComplete /\ draining' = draining)
    BY <1>5 DEF Validated, ValidateHealthy, ValidateUnhealthy, Created, CreateFails, CreateOk,
       Checkout, Grant, Refuse, DestroyCounted, Release, ReturnDestroy, ReturnHandOver, ReturnIdle
  <2> QED
    BY <1>2, <1>3, <2>1
<1>6. ASSUME NEW d \in Drainer, Drain(d) PROVE DrainsDrain'
  BY <1>6 DEF Drain, DrainsDrain
<1>7. ASSUME NEW d \in Drainer, SweepNext(d) PROVE DrainsDrain'
  <2>1. draining /\ draining' = draining
    BY <1>7 DEF SweepNext, DrainsDrain
  <2> QED
    BY <2>1 DEF DrainsDrain
<1>8. CASE IdleTimer
  BY <1>2, <1>8 DEF IdleTimer
<1>9. ASSUME UNCHANGED vars \/ \E r \in Resource : DestroySettles(r) PROVE DrainsDrain'
  BY <1>3, <1>9 DEF DestroySettles, vars
<1> QED
  BY <1>4, <1>5, <1>6, <1>7, <1>8, <1>9 DEF Next

LEMMA RefInvInit == Init => RefInv
<1>1. Init => DrainsDrain
  BY DEF Init, DrainsDrain
<1> QED
  BY <1>1, SlotInvInit, ResourcesInit DEF RefInv, PoolInv

LEMMA RefInvStep == RefInv /\ [Next]_vars => RefInv'
<1>1. RefInv /\ [Next]_vars => PoolInv'
  BY SlotInvStep, ResourcesStep DEF RefInv, PoolInv
<1> QED
  BY <1>1, DrainsDrainStep DEF RefInv

-----------------------------------------------------------------------------
\* A draining pool has no idle resource, and once a drain is over no call
\* owns one.
DrainedInv ==
  /\ draining => idle = <<>>
  /\ (\E d \in Drainer : dpc[d] = "done") => draining /\ Owning = {}

\* A step of a call or a timer after which a drain is over: it was over
\* before, or checkDrainComplete has just found nothing left.
LEMMA DoneBefore ==
  ASSUME PoolInv, UNCHANGED <<drainResolve, dpc>> \/ CheckDrainComplete,
         NEW d \in Drainer, dpc'[d] = "done"
  PROVE  dpc[d] = "done" \/ (draining' /\ activeCount' = 0)
BY DEF PoolInv, SlotInv, TypeOK, CheckDrainComplete

\* Once a drain is over no call comes to own a resource.
LEMMA NoneOwns ==
  ASSUME SlotInv, Owning = {}, draining,
         NEW c \in Caller, Acquire(c) \/ Continue(c) \/ Validated(c) \/ Created(c) \/ Release(c)
  PROVE  Owning' = {}
<1> USE DEF SlotInv
<1>1. pc[c] \notin OwningState
  BY DEF Owning
<1>2. CASE Acquire(c) \/ Validated(c) \/ Release(c)
  BY <1>1, <1>2 DEF Acquire, Validated, ValidateHealthy, ValidateUnhealthy, Release, Releasable,
     OwningState
<1>3. CASE Continue(c)
  <2>1. PICK x \in {"creating", "parked", "out"} : pc' = [pc EXCEPT ![c] = x]
    BY <1>1, <1>3 DEF Continue, FoundIdle, ReserveSlot, Park, ResumeHanded, ResumeDrained,
       ResumeRetry, Deliver, OwningState
  <2> QED
    BY <2>1 DEF Owning, OwningState, TypeOK
<1>4. CASE Created(c)
  <2>1. CASE CreateFails(c)
    <3>1. CASE waiters = <<>>
      BY <2>1, <3>1 DEF CreateFails, EndAndRetry, Owning, OwningState, TypeOK
    <3>2. CASE waiters # <<>>
      BY <2>1, <3>2 DEF CreateFails, EndAndRetry, Owning, OwningState, TypeOK
    <3> QED
      BY <3>1, <3>2
  <2>2. CASE \E r \in Resource : CreateOk(c, r)
    <3>1. pc' = [pc EXCEPT ![c] = "out"]
      BY <2>2 DEF CreateOk, Checkout, Refuse
    <3> QED
      BY <3>1 DEF Owning, OwningState, TypeOK
  <2> QED
    BY <1>4, <2>1, <2>2 DEF Created
<1> QED
  BY <1>2, <1>3, <1>4

\* What the steps of calls and timers leave of the drains and the idle queue.
LEMMA CallDrains ==
  ASSUME NEW c \in Caller, Acquire(c) \/ Continue(c) \/ Validated(c) \/ Created(c) \/ Release(c)
  PROVE  /\ draining' = draining
         /\ UNCHANGED <<drainResolve, dpc>> \/ CheckDrainComplete
         /\ draining /\ idle = <<>> => idle' = <<>>
<1> USE DEF drains, slots
<1>1. CASE Acquire(c) \/ Validated(c)
  BY <1>1 DEF Acquire, Validated, ValidateHealthy, ValidateUnhealthy, TryAcquireIdle
<1>2. CASE Continue(c)
  BY <1>2 DEF Continue, FoundIdle, Checkout, Grant, Refuse, DestroyCounted, ReserveSlot, Park,
     ResumeHanded, ResumeDrained, ResumeRetry, TryAcquireIdle, Deliver
<1>3. CASE Created(c)
  BY <1>3 DEF Created, CreateFails, CreateOk, Checkout, Grant, Refuse, DestroyCounted
<1>4. CASE Release(c)
  BY <1>4 DEF Release, ReturnDestroy, ReturnHandOver, ReturnIdle, DestroyCounted
<1> QED
  BY <1>1, <1>2, <1>3, <1>4

LEMMA DrainedStep == RefInv /\ DrainedInv /\ [Next]_vars => DrainedInv'
<1> SUFFICES ASSUME RefInv, DrainedInv, [Next]_vars PROVE DrainedInv'
  OBVIOUS
<1>1. SlotInv /\ SlotInv'
  BY SlotInvStep DEF RefInv, PoolInv
<1>2. activeCount' = 0 => Owning' = {}
  <2>1. IsFiniteSet(Counted')
    BY FS_Subset DEF Counted
  <2>2. activeCount' = 0 => Counted' = {}
    BY <1>1, <2>1, FS_EmptySet DEF SlotInv, SlotsAccounted
  <2>3. Owning' \subseteq Counted'
    BY DEF Owning, Counted, CountedState
  <2> QED
    BY <2>2, <2>3
<1>3. ASSUME NEW c \in Caller, Acquire(c) \/ Continue(c) \/ Validated(c) \/ Created(c) \/ Release(c)
      PROVE  DrainedInv'
  <2>1. draining' => idle' = <<>>
    BY <1>3, CallDrains DEF DrainedInv
  <2>2. ASSUME NEW d \in Drainer, dpc'[d] = "done" PROVE draining' /\ Owning' = {}
    <3>1. CASE dpc[d] = "done"
      <4>1. draining /\ Owning = {} /\ draining' = draining
        BY <1>3, <3>1, CallDrains DEF DrainedInv
      <4> QED
        BY <1>1, <1>3, <4>1, NoneOwns
    <3>2. CASE draining' /\ activeCount' = 0
      BY <1>2, <3>2
    <3> QED
      BY <1>3, <2>2, <3>1, <3>2, CallDrains, DoneBefore DEF RefInv
  <2> QED
    BY <2>1, <2>2 DEF DrainedInv
<1>4. ASSUME NEW d \in Drainer, Drain(d) \/ SweepNext(d) PROVE DrainedInv'
  <2>1. draining' /\ idle' = <<>> /\ Owning' = Owning /\ activeCount' = activeCount
    <3>1. CASE Drain(d)
      <4>1. draining' /\ idle' = <<>> /\ activeCount' = activeCount
            /\ pc' = [c \in Caller |-> IF c \in Parked THEN "drained" ELSE pc[c]]
        BY <1>1, <3>1 DEF Drain, RejectWaiters, SlotInv, CallsQueued
      <4> QED
        BY <4>1 DEF Owning, Parked, OwningState
    <3>2. CASE SweepNext(d)
      <4>1. draining
        BY <3>2 DEF SweepNext, RefInv, DrainsDrain
      <4> QED
        BY <3>2, <4>1 DEF SweepNext, DrainedInv, Owning, slots
    <3> QED
      BY <1>4, <3>1, <3>2
  <2>2. ASSUME NEW e \in Drainer, dpc'[e] = "done" PROVE Owning' = {}
    <3>1. CASE dpc[e] = "done"
      BY <2>1, <3>1 DEF DrainedInv
    <3>2. CASE dpc[e] # "done"
      <4>1. activeCount = 0
        BY <1>1, <1>4, <2>2, <3>2 DEF Drain, SweepNext, SweepFrom, FinishDrain, SlotInv, TypeOK
      <4> QED
        BY <1>2, <2>1, <4>1
    <3> QED
      BY <3>1, <3>2
  <2> QED
    BY <2>1, <2>2 DEF DrainedInv
<1>5. CASE IdleTimer
  <2>1. ~draining /\ draining' = draining /\ CheckDrainComplete
    BY <1>5 DEF IdleTimer, DrainedInv
  <2>2. \A d \in Drainer : dpc'[d] # "done"
    BY <2>1, DoneBefore DEF RefInv, DrainedInv
  <2> QED
    BY <2>1, <2>2 DEF DrainedInv
<1>6. ASSUME UNCHANGED vars \/ \E r \in Resource : DestroySettles(r) PROVE DrainedInv'
  BY <1>6 DEF DestroySettles, DrainedInv, Owning, vars, slots, drains
<1> QED
  BY <1>3, <1>4, <1>5, <1>6 DEF Next

\* When a drain() promise has resolved, everything was passed to destroy() but
\* what another drain() is still working off, whatever calls were on their way
\* when the drain began.
THEOREM PoolDrainedMeansGivenUp == Spec => []DrainedMeansGivenUp
<1>1. Init => RefInv /\ DrainedInv
  BY RefInvInit DEF Init, DrainedInv
<1>2. RefInv /\ DrainedInv /\ [Next]_vars => (RefInv /\ DrainedInv)'
  BY RefInvStep, DrainedStep
<1>3. RefInv /\ DrainedInv => DrainedMeansGivenUp
  <2> SUFFICES ASSUME RefInv, DrainedInv, \E d \in Drainer : dpc[d] = "done"
               PROVE  live = Swept
    BY DEF DrainedMeansGivenUp
  <2>1. Owned = {} /\ idle = <<>>
    BY DEF DrainedInv, Owned
  <2> QED
    BY <2>1, EmptyQueue DEF RefInv, PoolInv, ResourcesAccounted
<1> QED
  BY <1>1, <1>2, <1>3, PTL DEF Spec

-----------------------------------------------------------------------------
(***************************************************************************)
(* Proof that module Pool implements module Lease, for every number of     *)
(* callers, drains and resources and every maxSize.                        *)
(***************************************************************************)

\* The states in which a call has its lease.
LeasingState == {"handed", "returning", "held"}

-----------------------------------------------------------------------------
\* While the pool is open the live resources fit in the slots, with room
\* for the one that a creating call is about to add.
LEMMA RoomForOne ==
  ASSUME RefInv, ~draining, NEW c \in Caller, pc[c] = "creating"
  PROVE  Cardinality(live) < MaxSize
<1> USE DEF RefInv, PoolInv, SlotInv
<1>1. live = Range(idle) \cup Owned
  <2>1. \A d \in Drainer : sweep[d] = <<>>
    BY DEF DrainsDrain, ResourcesAccounted, DrainsInStep
  <2>2. Swept = {}
    BY <2>1, EmptyQueue DEF Swept
  <2> QED
    BY <2>2 DEF ResourcesAccounted
<1>2. /\ IsFiniteSet(Range(idle)) /\ Cardinality(Range(idle)) <= Len(idle)
      /\ Cardinality(Range(idle)) \in Nat /\ Len(idle) \in Nat
  <2>1. idle \in Seq(Resource) /\ Len(idle) \in Nat /\ DOMAIN idle = 1 .. Len(idle)
    BY DEF TypeOK
  <2>2. idle \in Surjection(1 .. Len(idle), Range(idle))
    <3>1. idle \in [1 .. Len(idle) -> Range(idle)]
      BY <2>1 DEF Range
    <3> QED
      BY <2>1, <3>1 DEF Range, Surjection
  <2>3. IsFiniteSet(1 .. Len(idle)) /\ Cardinality(1 .. Len(idle)) = Len(idle)
    BY <2>1, FS_Interval
  <2>4. IsFiniteSet(Range(idle)) /\ Cardinality(Range(idle)) <= Len(idle)
    BY <2>2, <2>3, FS_Surjection
  <2> QED
    BY <2>1, <2>4, FS_CardinalityType
<1>3. /\ IsFiniteSet(Owned) /\ Cardinality(Owned) <= Cardinality(Owning)
      /\ Cardinality(Owned) \in Nat /\ IsFiniteSet(Owning)
  <2>1. IsFiniteSet(Owning)
    BY FS_Subset DEF Owning
  <2> DEFINE f == [d \in Owning |-> res[d]]
  <2>2. f \in Surjection(Owning, Owned)
    BY DEF Surjection, Owned
  <2> HIDE DEF f
  <2>3. IsFiniteSet(Owned) /\ Cardinality(Owned) <= Cardinality(Owning)
    BY <2>1, <2>2, FS_Surjection
  <2> QED
    BY <2>1, <2>3, FS_CardinalityType
<1>4. Cardinality(Owning) < activeCount /\ Cardinality(Owning) \in Nat /\ activeCount \in Nat
  <2>1. c \in Counted /\ Owning \subseteq Counted \ {c}
    BY DEF Counted, Owning, CountedState, OwningState
  <2>2. IsFiniteSet(Counted \ {c})
    BY FS_Subset DEF Counted
  <2>3. Cardinality(Owning) <= Cardinality(Counted \ {c})
    BY <2>1, <2>2, FS_Subset
  <2>4. Cardinality(Counted \ {c}) = activeCount - 1 /\ activeCount \in Nat
    BY <2>1, CountOneLess DEF SlotsAccounted, TypeOK
  <2>5. Cardinality(Owning) \in Nat
    BY <1>3, FS_CardinalityType
  <2> QED
    BY <2>3, <2>4, <2>5
<1>5. Range(idle) \cap Owned = {}
  BY DEF ResourcesAccounted
<1>6. Cardinality(live) = Cardinality(Range(idle)) + Cardinality(Owned)
  <2>1. Cardinality(Range(idle) \cup Owned)
          = Cardinality(Range(idle)) + Cardinality(Owned) - Cardinality(Range(idle) \cap Owned)
    BY <1>2, <1>3, FS_Union
  <2>2. Cardinality(Range(idle) \cap Owned) = 0
    BY <1>5, FS_EmptySet
  <2> QED
    BY <1>1, <1>2, <1>3, <2>1, <2>2
<1> QED
  BY <1>2, <1>3, <1>4, <1>6 DEF WithinMaxSize

-----------------------------------------------------------------------------
\* The leases that are out are resources of different calls that own them.
LEMMA LeasedOwned ==
  ASSUME RefInv
  PROVE  /\ \A r \in L!Leased : \E c \in Caller : pc[c] \in LeasingState /\ res[c] = r
         /\ L!Leased \subseteq Owned
<1>1. ASSUME NEW r \in L!Leased
      PROVE  \E c \in Caller : pc[c] \in LeasingState /\ res[c] = r
  BY DEF L!Leased, LeaseOf, LeasingState
<1>2. \A c \in Caller : pc[c] \in LeasingState => c \in Owning
  BY DEF LeasingState, Owning, OwningState
<1> QED
  BY <1>1, <1>2 DEF Owned

\* What a call that has no lease yet owns is leased to nobody.
LEMMA NotLeased ==
  ASSUME RefInv, NEW c \in Owning, pc[c] \notin LeasingState
  PROVE  res[c] \in live /\ res[c] \notin L!Leased /\ res[c] \in Resource
<1>1. res[c] \notin L!Leased
  <2> SUFFICES ASSUME res[c] \in L!Leased PROVE FALSE
    OBVIOUS
  <2>1. PICK d \in Caller : pc[d] \in LeasingState /\ res[d] = res[c]
    BY LeasedOwned
  <2>2. d \in Owning
    BY <2>1 DEF LeasingState, Owning, OwningState
  <2>3. d = c
    BY <2>1, <2>2 DEF RefInv, PoolInv, ResourcesAccounted
  <2> QED
    BY <2>1, <2>3
<1> QED
  BY <1>1 DEF RefInv, PoolInv, SlotInv, TypeOK, ResourcesAccounted, Owned

\* A step that changes no lease and no resource is no step of Lease ...
LEMMA NoLeaseStep ==
  ASSUME \A c \in Caller : LeaseOf(c)' = LeaseOf(c), UNCHANGED <<live, draining>>
  PROVE  [L!LeaseNext]_(L!leaseVars)
<1>1. [c \in Caller |-> LeaseOf(c)]' = [c \in Caller |-> LeaseOf(c)]
  OBVIOUS
<1> QED
  BY <1>1 DEF L!leaseVars

\* ... and one that only destroys a resource nobody holds is a Discard.
LEMMA DiscardStep ==
  ASSUME \A c \in Caller : LeaseOf(c)' = LeaseOf(c), draining' = draining,
         NEW r \in Resource, r \in live, r \notin L!Leased, live' = live \ {r}
  PROVE  L!LeaseNext
<1>1. [c \in Caller |-> LeaseOf(c)]' = [c \in Caller |-> LeaseOf(c)]
  OBVIOUS
<1>2. L!Discard(r)
  BY <1>1 DEF L!Discard
<1> QED
  BY <1>2 DEF L!LeaseNext

\* A call moves between states without a lease.
LEMMA SameLeases ==
  ASSUME TypeOK, NEW c \in Caller, pc[c] \notin LeasingState, NEW x, x \notin LeasingState,
         pc' = [pc EXCEPT ![c] = x], \A d \in Caller \ {c} : res'[d] = res[d]
  PROVE  \A d \in Caller : LeaseOf(d)' = LeaseOf(d)
BY DEF TypeOK, LeaseOf, LeasingState

LEMMA TakeLeases ==
  ASSUME TypeOK, NEW c \in Caller, pc[c] \notin LeasingState, NEW active, NEW rest,
         TryAcquireIdle(c, active, rest)
  PROVE  \A d \in Caller : LeaseOf(d)' = LeaseOf(d)
<1>1. PICK x \in {"validating", "found", "none"} : pc' = [pc EXCEPT ![c] = x]
  BY DEF TryAcquireIdle
<1>2. \A d \in Caller \ {c} : res'[d] = res[d]
  BY DEF TryAcquireIdle, TypeOK
<1>3. x \notin LeasingState
  BY DEF LeasingState
<1> QED
  BY <1>1, <1>2, <1>3, SameLeases

-----------------------------------------------------------------------------
\* Each step of the pool is a step of Lease or changes nothing there.
LEMMA CallImplements ==
  ASSUME RefInv, NEW c \in Caller,
         \/ Acquire(c) \/ ValidateHealthy(c) \/ ReserveSlot(c) \/ Park(c)
         \/ ResumeDrained(c) \/ ResumeRetry(c)
  PROVE  [L!LeaseNext]_(L!leaseVars)
<1>1. TypeOK /\ live' = live /\ draining' = draining
  BY DEF RefInv, PoolInv, SlotInv, Acquire, ValidateHealthy, ReserveSlot, Park, ResumeDrained,
     ResumeRetry, drains
<1>2. CASE Acquire(c) \/ ResumeRetry(c)
  <2>1. pc[c] \notin LeasingState
    BY <1>2 DEF Acquire, ResumeRetry, LeasingState
  <2>2. \A d \in Caller : LeaseOf(d)' = LeaseOf(d)
    BY <1>1, <1>2, <2>1, TakeLeases DEF Acquire, ResumeRetry
  <2> QED
    BY <1>1, <2>2, NoLeaseStep
<1>3. CASE ValidateHealthy(c) \/ ReserveSlot(c) \/ Park(c) \/ ResumeDrained(c)
  <2>1. PICK x \in {"found", "creating", "parked", "out"} : pc' = [pc EXCEPT ![c] = x]
    BY <1>3 DEF ValidateHealthy, ReserveSlot, Park, ResumeDrained
  <2>2. pc[c] \notin LeasingState /\ x \notin LeasingState /\ res' = res
    BY <1>3 DEF ValidateHealthy, ReserveSlot, Park, ResumeDrained, LeasingState
  <2>3. \A d \in Caller : LeaseOf(d)' = LeaseOf(d)
    BY <1>1, <2>1, <2>2, SameLeases
  <2> QED
    BY <1>1, <2>3, NoLeaseStep
<1> QED
  BY <1>2, <1>3

\* A waiter that was handed a resource, and a call that returns, keep it.
LEMMA LeaseKept ==
  ASSUME RefInv, NEW c \in Caller, ResumeHanded(c) \/ Deliver(c)
  PROVE  [L!LeaseNext]_(L!leaseVars)
<1>1. \A d \in Caller : LeaseOf(d)' = LeaseOf(d)
  BY DEF RefInv, PoolInv, SlotInv, TypeOK, ResumeHanded, Deliver, LeaseOf
<1>2. live' = live /\ draining' = draining
  BY DEF ResumeHanded, Deliver, drains
<1> QED
  BY <1>1, <1>2, NoLeaseStep

LEMMA ValidateUnhealthyImplements ==
  ASSUME RefInv, NEW c \in Caller, ValidateUnhealthy(c)
  PROVE  L!LeaseNext
<1>1. c \in Owning /\ pc[c] \notin LeasingState
  BY DEF ValidateUnhealthy, Owning, OwningState, LeasingState
<1>2. \A d \in Caller : LeaseOf(d)' = LeaseOf(d)
  BY <1>1, TakeLeases DEF ValidateUnhealthy, RefInv, PoolInv, SlotInv
<1>3. live' = live \ {res[c]} /\ draining' = draining
  BY DEF ValidateUnhealthy, Discard, drains
<1> QED
  BY <1>1, <1>2, <1>3, NotLeased, DiscardStep

\* A call that fails to create has no lease, nor has the waiter it wakes.
LEMMA CreateFailsImplements ==
  ASSUME RefInv, NEW c \in Caller, CreateFails(c)
  PROVE  [L!LeaseNext]_(L!leaseVars)
<1> USE DEF RefInv, PoolInv, SlotInv
<1>1. /\ live' = live /\ draining' = draining /\ res' = res
      /\ pc \in [Caller -> PCState] /\ pc[c] = "creating"
  BY DEF CreateFails, TypeOK
<1>2. \A d \in Caller : LeaseOf(d)' = LeaseOf(d)
  <2>1. CASE waiters = <<>>
    BY <1>1, <2>1 DEF CreateFails, EndAndRetry, LeaseOf
  <2>2. CASE waiters # <<>>
    <3> DEFINE w == Head(waiters)
    <3>1. pc' = [pc EXCEPT ![c] = "out", ![w] = "retry"]
      BY <2>2 DEF CreateFails, EndAndRetry
    <3>2. w \in Caller /\ pc[w] = "parked"
      BY <2>2, FirstWaiter DEF Parked
    <3> HIDE DEF w
    <3> QED
      BY <1>1, <3>1, <3>2 DEF LeaseOf
  <2> QED
    BY <2>1, <2>2
<1> QED
  BY <1>1, <1>2, NoLeaseStep

\* A checkout while the pool is open leases the resource: an idle one, or a
\* new one, for which there is room.
LEMMA GrantImplements ==
  ASSUME RefInv, NEW c \in Caller, NEW r \in Resource, NEW rest, ~draining, Grant(c, r, rest),
         \/ pc[c] = "found" /\ r = res[c]
         \/ pc[c] = "creating" /\ r \notin live
  PROVE  L!LeaseNext
<1> USE DEF RefInv, PoolInv, SlotInv
<1>1. /\ live' = live \cup {r} /\ draining' = draining
      /\ pc' = [pc EXCEPT ![c] = "returning"] /\ res' = [res EXCEPT ![c] = r]
      /\ pc \in [Caller -> PCState] /\ res \in [Caller -> Resource \cup {None}]
  BY DEF Grant, drains, TypeOK
<1>2. [d \in Caller |-> LeaseOf(d)]' = [[d \in Caller |-> LeaseOf(d)] EXCEPT ![c] = r]
  BY <1>1 DEF LeaseOf
<1>3. LeaseOf(c) = None
  BY DEF LeaseOf
<1>4. CASE pc[c] = "found" /\ r = res[c]
  <2>1. c \in Owning /\ pc[c] \notin LeasingState
    BY <1>4 DEF Owning, OwningState, LeasingState
  <2>2. r \in live /\ r \notin L!Leased
    BY <1>4, <2>1, NotLeased
  <2>3. L!Reuse(c, r)
    BY <1>1, <1>2, <1>3, <2>2 DEF L!Reuse
  <2> QED
    BY <2>3 DEF L!LeaseNext
<1>5. CASE pc[c] = "creating" /\ r \notin live
  <2>1. Cardinality(live) < MaxSize
    BY <1>5, RoomForOne
  <2>2. L!Cardinality(live) < MaxSize
    BY <2>1 DEF L!Cardinality, Cardinality
  <2>3. L!Create(c, r)
    BY <1>1, <1>2, <1>3, <1>5, <2>2 DEF L!Create
  <2> QED
    BY <2>3 DEF L!LeaseNext
<1> QED
  BY <1>4, <1>5

\* A checkout while the pool drains destroys what it got.
LEMMA RefuseImplements ==
  ASSUME RefInv, NEW c \in Caller, NEW r \in Resource, NEW rest, Refuse(c, r, rest),
         \/ pc[c] = "found" /\ r = res[c]
         \/ pc[c] = "creating" /\ r \notin live
  PROVE  [L!LeaseNext]_(L!leaseVars)
<1> USE DEF RefInv, PoolInv, SlotInv
<1>1. /\ live' = live \ {r} /\ draining' = draining
      /\ pc' = [pc EXCEPT ![c] = "out"] /\ res' = [res EXCEPT ![c] = None]
  BY DEF Refuse, DestroyCounted, Discard
<1>2. \A d \in Caller \ {c} : res'[d] = res[d]
  BY <1>1 DEF TypeOK
<1>3. pc[c] \notin LeasingState /\ "out" \notin LeasingState
  BY DEF LeasingState
<1>4. \A d \in Caller : LeaseOf(d)' = LeaseOf(d)
  BY <1>1, <1>2, <1>3, SameLeases
<1>5. CASE pc[c] = "found" /\ r = res[c]
  <2>1. c \in Owning
    BY <1>5 DEF Owning, OwningState
  <2>2. r \in live /\ r \notin L!Leased
    BY <1>3, <1>5, <2>1, NotLeased
  <2> QED
    BY <1>1, <1>4, <2>2, DiscardStep
<1>6. CASE pc[c] = "creating" /\ r \notin live
  <2>1. live' = live
    BY <1>1, <1>6
  <2> QED
    BY <1>1, <1>4, <2>1, NoLeaseStep
<1> QED
  BY <1>5, <1>6

LEMMA CheckoutImplements ==
  ASSUME RefInv, NEW c \in Caller, FoundIdle(c) \/ \E r \in Resource : CreateOk(c, r)
  PROVE  [L!LeaseNext]_(L!leaseVars)
<1>1. CASE FoundIdle(c)
  <2>1. res[c] \in Resource
    BY <1>1 DEF FoundIdle, RefInv, PoolInv, SlotInv, TypeOK, Owning, OwningState
  <2> QED
    BY <1>1, <2>1, GrantImplements, RefuseImplements DEF FoundIdle, Checkout
<1>2. ASSUME NEW r \in Resource, CreateOk(c, r) PROVE [L!LeaseNext]_(L!leaseVars)
  BY <1>2, GrantImplements, RefuseImplements DEF CreateOk, Checkout
<1> QED
  BY <1>1, <1>2

\* A release ends the lease, or passes it on to a waiter.
LEMMA ReleaseImplements ==
  ASSUME RefInv, NEW c \in Caller, Release(c)
  PROVE  L!LeaseNext
<1> USE DEF RefInv, PoolInv, SlotInv
<1>1. /\ pc[c] = "held" /\ LeaseOf(c) = res[c] /\ res[c] \in Resource
      /\ Releasable(c) /\ res[c] # None
      /\ pc \in [Caller -> PCState] /\ res \in [Caller -> Resource \cup {None}]
  BY Releasing DEF Release, Releasable, LeaseOf, TypeOK
<1>2. ASSUME pc' = [pc EXCEPT ![c] = "released"], res' = res
      PROVE  [d \in Caller |-> LeaseOf(d)]' = [[d \in Caller |-> LeaseOf(d)] EXCEPT ![c] = None]
  BY <1>1, <1>2 DEF LeaseOf
<1>3. CASE ReturnDestroy(c)
  <2>1. /\ draining /\ draining' = draining /\ live' = live \ {res[c]}
        /\ pc' = [pc EXCEPT ![c] = "released"] /\ res' = res
    BY <1>3 DEF ReturnDestroy, DestroyCounted, Discard
  <2>2. L!Return(c)
    BY <1>1, <1>2, <2>1 DEF L!Return
  <2> QED
    BY <2>2 DEF L!LeaseNext
<1>4. CASE ReturnIdle(c)
  <2>1. /\ ~draining /\ draining' = draining /\ live' = live
        /\ pc' = [pc EXCEPT ![c] = "released"] /\ res' = res
    BY <1>4 DEF ReturnIdle, drains
  <2>2. L!Return(c)
    BY <1>1, <1>2, <2>1 DEF L!Return
  <2> QED
    BY <2>2 DEF L!LeaseNext
<1>5. CASE ReturnHandOver(c)
  <2> DEFINE w == Head(waiters)
  <2>1. /\ ~draining /\ draining' = draining /\ live' = live /\ waiters # <<>>
        /\ pc' = [pc EXCEPT ![c] = "released", ![w] = "handed"]
        /\ res' = [res EXCEPT ![w] = res[c]]
    BY <1>5 DEF ReturnHandOver, drains
  <2>2. w \in Caller /\ pc[w] = "parked" /\ w # c
    BY <1>1, <2>1, FirstWaiter DEF Parked
  <2> HIDE DEF w
  <2>3. LeaseOf(w) = None
    BY <2>2 DEF LeaseOf
  <2>4. [d \in Caller |-> LeaseOf(d)]'
          = [[d \in Caller |-> LeaseOf(d)] EXCEPT ![c] = None, ![w] = res[c]]
    <3>1. \A d \in Caller : LeaseOf(d)'
                              = IF d = w THEN res[c] ELSE IF d = c THEN None ELSE LeaseOf(d)
      BY <1>1, <2>1, <2>2 DEF LeaseOf
    <3> QED
      BY <2>2, <3>1
  <2>5. L!Transfer(c, w)
    BY <1>1, <2>1, <2>2, <2>3, <2>4 DEF L!Transfer
  <2> QED
    BY <2>2, <2>5 DEF L!LeaseNext
<1> QED
  BY <1>3, <1>4, <1>5 DEF Release

LEMMA IdleTimerImplements ==
  ASSUME RefInv, IdleTimer
  PROVE  L!LeaseNext
<1> USE DEF RefInv, PoolInv, SlotInv
<1>1. /\ idle # <<>> /\ live' = live \ {Head(idle)} /\ draining' = draining
      /\ pc' = pc /\ res' = res
  BY DEF IdleTimer, Discard
<1>2. Head(idle) \in Range(idle) /\ Head(idle) \in Resource
  BY <1>1, TailQueue DEF TypeOK, ResourcesAccounted
<1>3. Head(idle) \in live /\ Head(idle) \notin L!Leased
  BY <1>2, LeasedOwned DEF ResourcesAccounted
<1>4. \A d \in Caller : LeaseOf(d)' = LeaseOf(d)
  BY <1>1 DEF LeaseOf
<1> QED
  BY <1>1, <1>2, <1>3, <1>4, DiscardStep

\* drain() closes, and destroys the first idle resource at once.
LEMMA DrainImplements ==
  ASSUME RefInv, NEW d \in Drainer, Drain(d)
  PROVE  L!LeaseNext
<1> USE DEF RefInv, PoolInv, SlotInv
<1>1. /\ draining' = TRUE /\ res' = res /\ SweepFrom(d, idle)
      /\ pc' = [c \in Caller |-> IF c \in Parked THEN "drained" ELSE pc[c]]
  BY DEF Drain, RejectWaiters, CallsQueued
<1>2. \A c \in Caller : LeaseOf(c)' = LeaseOf(c)
  BY <1>1 DEF LeaseOf, Parked
<1>3. [c \in Caller |-> LeaseOf(c)]' = [c \in Caller |-> LeaseOf(c)]
  BY <1>2
<1>4. \E D \in SUBSET (live \ L!Leased) : live' = live \ D
  <2>1. CASE idle # <<>>
    <3>1. Head(idle) \in Range(idle)
      BY <2>1, TailQueue DEF TypeOK, ResourcesAccounted
    <3>2. {Head(idle)} \in SUBSET (live \ L!Leased)
      BY <3>1, LeasedOwned DEF ResourcesAccounted
    <3>3. live' = live \ {Head(idle)}
      BY <1>1, <2>1 DEF SweepFrom
    <3> QED
      BY <3>2, <3>3
  <2>2. CASE idle = <<>>
    <3>1. live' = live \ {}
      BY <1>1, <2>2 DEF SweepFrom
    <3> QED
      BY <3>1
  <2> QED
    BY <2>1, <2>2
<1>5. L!Close
  BY <1>1, <1>3, <1>4 DEF L!Close
<1> QED
  BY <1>5 DEF L!LeaseNext

LEMMA SweepNextImplements ==
  ASSUME RefInv, NEW d \in Drainer, SweepNext(d)
  PROVE  [L!LeaseNext]_(L!leaseVars)
<1> USE DEF RefInv, PoolInv, SlotInv
<1>1. /\ draining' = draining /\ pc' = pc /\ res' = res /\ SweepFrom(d, sweep[d])
      /\ sweep[d] \in Seq(Resource) /\ IsInjective(sweep[d])
  BY DEF SweepNext, TypeOK, ResourcesAccounted
<1>2. \A c \in Caller : LeaseOf(c)' = LeaseOf(c)
  BY <1>1 DEF LeaseOf
<1>3. CASE sweep[d] # <<>>
  <2>1. Head(sweep[d]) \in Range(sweep[d]) /\ Head(sweep[d]) \in Resource
    BY <1>1, <1>3, TailQueue
  <2>2. Head(sweep[d]) \in Swept
    BY <2>1 DEF Swept
  <2>3. Head(sweep[d]) \in live /\ Head(sweep[d]) \notin L!Leased
    BY <2>2, LeasedOwned DEF ResourcesAccounted
  <2>4. live' = live \ {Head(sweep[d])}
    BY <1>1, <1>3 DEF SweepFrom
  <2> QED
    BY <1>1, <1>2, <2>1, <2>3, <2>4, DiscardStep
<1>4. CASE sweep[d] = <<>>
  <2>1. live' = live
    BY <1>1, <1>4 DEF SweepFrom
  <2> QED
    BY <1>1, <1>2, <2>1, NoLeaseStep
<1> QED
  BY <1>3, <1>4

-----------------------------------------------------------------------------
LEMMA InitImplements == Init => L!LeaseInit
BY DEF Init, L!LeaseInit, LeaseOf

LEMMA NextImplements == RefInv /\ [Next]_vars => [L!LeaseNext]_(L!leaseVars)
<1> SUFFICES ASSUME RefInv, [Next]_vars PROVE [L!LeaseNext]_(L!leaseVars)
  OBVIOUS
<1>1. ASSUME NEW c \in Caller, Acquire(c) \/ Continue(c) PROVE [L!LeaseNext]_(L!leaseVars)
  BY <1>1, CallImplements, LeaseKept, CheckoutImplements DEF Continue
<1>2. ASSUME NEW c \in Caller, Validated(c) PROVE [L!LeaseNext]_(L!leaseVars)
  BY <1>2, CallImplements, ValidateUnhealthyImplements DEF Validated
<1>3. ASSUME NEW c \in Caller, Created(c) PROVE [L!LeaseNext]_(L!leaseVars)
  BY <1>3, CreateFailsImplements, CheckoutImplements DEF Created
<1>4. ASSUME NEW c \in Caller, Release(c) PROVE [L!LeaseNext]_(L!leaseVars)
  BY <1>4, ReleaseImplements
<1>5. ASSUME NEW d \in Drainer, Drain(d) \/ SweepNext(d) PROVE [L!LeaseNext]_(L!leaseVars)
  BY <1>5, DrainImplements, SweepNextImplements
<1>6. CASE IdleTimer
  BY <1>6, IdleTimerImplements
<1>7. ASSUME UNCHANGED vars \/ \E r \in Resource : DestroySettles(r)
      PROVE  [L!LeaseNext]_(L!leaseVars)
  <2>1. UNCHANGED <<live, draining, pc, res>>
    BY <1>7 DEF DestroySettles, vars, drains
  <2>2. \A c \in Caller : LeaseOf(c)' = LeaseOf(c)
    BY <2>1 DEF LeaseOf
  <2> QED
    BY <2>1, <2>2, NoLeaseStep
<1> QED
  BY <1>1, <1>2, <1>3, <1>4, <1>5, <1>6, <1>7 DEF Next

\* The pool is a lease manager: whatever interleaving of calls, timers,
\* failures and drains, no resource has two holders, at most maxSize
\* resources are alive when one is created, and a drained pool leases none.
THEOREM PoolImplementsLease == Spec => ImplementsLease
<1>1. Spec => []RefInv
  BY RefInvInit, RefInvStep, PTL DEF Spec
<1>2. Spec => L!LeaseSpec
  BY <1>1, InitImplements, NextImplements, PTL DEF Spec, L!LeaseSpec
<1> QED
  BY <1>2 DEF ImplementsLease
=============================================================================
