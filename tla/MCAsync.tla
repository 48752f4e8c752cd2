------------------------------- MODULE MCAsync -------------------------------
(***************************************************************************)
(* Instances for TLC of the two ways of src/async to let some calls wait   *)
(* for others, the semaphore and the job queue.  A behaviour is one of one *)
(* of them, as part says.                                                  *)
(***************************************************************************)
EXTENDS Semaphore, Queue

VARIABLE part

vars == <<semaphoreVars, queueVars, part>>

Init == part \in {"semaphore", "queue"} /\ SemaphoreInit /\ QueueInit

Next ==
  \/ part = "semaphore" /\ SemaphoreNext /\ UNCHANGED <<queueVars, part>>
  \/ part = "queue" /\ QueueNext /\ UNCHANGED <<semaphoreVars, part>>

\* No fair action is enabled but those of the part that runs.
Spec == Init /\ [][Next]_vars /\ SemaphoreFairness /\ QueueFairness
=============================================================================
