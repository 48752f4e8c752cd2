------------------------------ MODULE Breaker ------------------------------
(***************************************************************************)
(* The circuit breaker of src/async/circuit-breaker.ts.                    *)
(*                                                                         *)
(* protect(task).run() looks at the circuit, awaits the task, and counts   *)
(* its result in whatever state the circuit has by then.  request[r] is    *)
(* "out", or the state in which the running call r was let through.  A     *)
(* call that is refused changes nothing, and is no step here.              *)
(***************************************************************************)
EXTENDS Naturals, FiniteSets

CONSTANTS Request,           \* the calls of protect(task).run()
          FailureThreshold,  \* policy.failureThreshold
          SuccessThreshold,  \* policy.successThreshold
          Cooldown           \* policy.timeout, in units of time

ASSUME BreakerAssumption ==
  /\ IsFiniteSet(Request)
  /\ FailureThreshold \in Nat \ {0} /\ SuccessThreshold \in Nat \ {0}
  /\ Cooldown \in Nat

VARIABLES circuit,       \* currentState
          failureCount,  \* failureCount
          successCount,  \* successCount
          age,           \* Date.now() - openedAt, up to Cooldown
          request

breakerVars == <<circuit, failureCount, successCount, age, request>>

BreakerInit ==
  /\ circuit = "closed"
  /\ failureCount = 0 /\ successCount = 0
  /\ age = Cooldown
  /\ request = [r \in Request |-> "out"]

\* shouldTransitionToHalfOpen.
ShouldTransitionToHalfOpen == circuit = "open" /\ age >= Cooldown

\* transitionToOpen.
TransitionToOpen ==
  /\ circuit' = "open"
  /\ failureCount' = 0 /\ successCount' = 0
  /\ age' = 0

\* transitionToClosed.
TransitionToClosed ==
  /\ circuit' = "closed"
  /\ failureCount' = 0 /\ successCount' = 0
  /\ UNCHANGED age

\* Seeded fault: the last success needed does not close the circuit.
OnSuccessNeverCloses ==
  \/ /\ circuit = "half-open" /\ successCount + 1 < SuccessThreshold
     /\ successCount' = successCount + 1
     /\ UNCHANGED <<circuit, failureCount, age>>
  \/ /\ circuit = "closed"
     /\ failureCount' = 0
     /\ UNCHANGED <<circuit, successCount, age>>
  \/ /\ circuit # "closed" /\ (circuit = "open" \/ successCount + 1 >= SuccessThreshold)
     /\ UNCHANGED <<circuit, failureCount, successCount, age>>

\* onSuccess: probes are counted, a success in the closed state forgets the failures.
OnSuccess ==
  \/ /\ circuit = "half-open" /\ successCount + 1 < SuccessThreshold
     /\ successCount' = successCount + 1
     /\ UNCHANGED <<circuit, failureCount, age>>
  \/ /\ circuit = "half-open" /\ successCount + 1 >= SuccessThreshold
     /\ TransitionToClosed
  \/ /\ circuit = "closed"
     /\ failureCount' = 0
     /\ UNCHANGED <<circuit, successCount, age>>
  \/ /\ circuit = "open"
     /\ UNCHANGED <<circuit, failureCount, successCount, age>>

\* Seeded fault: a failure always opens the circuit unless it is closed.
OnFailureReopens ==
  \/ /\ circuit # "closed"
     /\ TransitionToOpen
  \/ /\ circuit = "closed" /\ failureCount + 1 < FailureThreshold
     /\ failureCount' = failureCount + 1
     /\ UNCHANGED <<circuit, successCount, age>>
  \/ /\ circuit = "closed" /\ failureCount + 1 >= FailureThreshold
     /\ TransitionToOpen

\* onFailure: a failed probe reopens the circuit, enough failures open it.
OnFailure ==
  \/ /\ circuit = "half-open"
     /\ TransitionToOpen
  \/ /\ circuit = "closed" /\ failureCount + 1 < FailureThreshold
     /\ failureCount' = failureCount + 1
     /\ UNCHANGED <<circuit, successCount, age>>
  \/ /\ circuit = "closed" /\ failureCount + 1 >= FailureThreshold
     /\ TransitionToOpen
  \/ /\ circuit = "open"
     /\ UNCHANGED <<circuit, failureCount, successCount, age>>

\* protect, up to its await.
Admit(r) ==
  /\ request[r] = "out"
  /\ \/ /\ ShouldTransitionToHalfOpen
        /\ circuit' = "half-open" /\ successCount' = 0
     \/ /\ circuit # "open"
        /\ UNCHANGED <<circuit, successCount>>
  /\ request' = [request EXCEPT ![r] = circuit']
  /\ UNCHANGED <<failureCount, age>>

Leave(r) == request[r] # "out" /\ request' = [request EXCEPT ![r] = "out"]

\* protect, after its await: the task returned Ok, returned Err, or rejected, in
\* which case the two calls below the await are skipped.
Succeed(r) == Leave(r) /\ OnSuccess
Fail(r)    == Leave(r) /\ OnFailure
Reject(r)  == Leave(r) /\ UNCHANGED <<circuit, failureCount, successCount, age>>

\* reset().
ResetBreaker == TransitionToClosed /\ UNCHANGED request

\* Time passes.
Elapse ==
  /\ age < Cooldown
  /\ age' = age + 1
  /\ UNCHANGED <<circuit, failureCount, successCount, request>>

BreakerNext ==
  \/ \E r \in Request : Admit(r) \/ Succeed(r) \/ Fail(r) \/ Reject(r)
  \/ ResetBreaker
  \/ Elapse

BreakerSpec == BreakerInit /\ [][BreakerNext]_breakerVars

-----------------------------------------------------------------------------
(* Properties. *)

\* The counters belong to one state each: failures are only ever counted while the
\* circuit is closed, successes while it is half-open, and neither reaches its
\* threshold without the circuit changing state, however late the results arrive.
BreakerTypeOK ==
  /\ circuit \in {"closed", "open", "half-open"}
  /\ request \in [Request -> {"out", "closed", "half-open"}]
  /\ age \in 0..Cooldown
  /\ failureCount \in 0..(IF circuit = "closed" THEN FailureThreshold - 1 ELSE 0)
  /\ successCount \in 0..(IF circuit = "half-open" THEN SuccessThreshold - 1 ELSE 0)

\* An open circuit runs its course: results that arrive late neither prolong its
\* cooldown nor cut it short.  It ends with a call let through after the cooldown
\* (protect's first lines) or with reset(), which leaves the calls alone.
OpenRunsItsCourse ==
  [][circuit = "open" => \/ circuit' = "open" /\ age' >= age
                         \/ circuit' = "half-open" /\ age >= Cooldown /\ request' # request
                         \/ circuit' = "closed" /\ UNCHANGED request]_breakerVars

FailedOrRejected ==
  \E r \in Request : request[r] # "out" /\ request'[r] = "out" /\ ~Succeed(r)

\* Once every task succeeds, the circuit closes and stays closed: neither the
\* counters nor the late results of earlier calls keep it open (onSuccess).
Recovers == <>[][~FailedOrRejected]_breakerVars => <>[](circuit = "closed")

\* While the circuit is half-open, no more than one probe is under way
\* (circuit-breaker.ts:19).
OneProbe ==
  circuit = "half-open" => Cardinality({r \in Request : request[r] = "half-open"}) <= 1
=============================================================================
