------------------------------ MODULE JobBoard ------------------------------
(***************************************************************************)
(* What a job queue promises: at most Concurrency jobs are worked on at a  *)
(* time; the next one is always the one with the lowest priority number,   *)
(* of those the earliest stamped, of those the first posted; every job is  *)
(* begun once and finished once.  Module Queue is shown to implement this. *)
(***************************************************************************)
EXTENDS Naturals, FiniteSets

CONSTANTS Concurrency, Job

VARIABLES last,     \* the id of the job posted last, or 0
          posted,   \* the jobs that wait
          active,   \* the jobs that are worked on
          finished  \* how many jobs are done

boardVars == <<last, posted, active, finished>>

BoardInit == last = 0 /\ posted = {} /\ active = {} /\ finished = 0

\* The order in which jobs are due.
Due(j, k) ==
  \/ j.priority < k.priority
  \/ j.priority = k.priority /\ j.createdAt < k.createdAt
  \/ j.priority = k.priority /\ j.createdAt = k.createdAt /\ j.id <= k.id

Post(j) ==
  /\ j.id = last + 1
  /\ last' = j.id
  /\ posted' = posted \cup {j}
  /\ UNCHANGED <<active, finished>>

Begin(j) ==
  /\ j \in posted
  /\ \A k \in posted : Due(j, k)
  /\ Cardinality(active) < Concurrency
  /\ posted' = posted \ {j}
  /\ active' = active \cup {j}
  /\ UNCHANGED <<last, finished>>

Finish(j) ==
  /\ j \in active
  /\ active' = active \ {j}
  /\ finished' = finished + 1
  /\ UNCHANGED <<last, posted>>

BoardNext == \E j \in Job : Post(j) \/ Begin(j) \/ Finish(j)

BoardSpec == BoardInit /\ [][BoardNext]_boardVars
=============================================================================
