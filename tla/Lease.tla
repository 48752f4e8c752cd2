------------------------------- MODULE Lease -------------------------------
(***************************************************************************)
(* What a pool of reusable resources promises, with no queue, counter or   *)
(* await in sight: a resource is created, leased to at most one holder at  *)
(* a time, and destroyed; at most MaxSize resources exist at once; once    *)
(* the pool is closed no resource is leased any more.  Module Pool is      *)
(* shown to implement this specification.                                  *)
(***************************************************************************)
EXTENDS Naturals, FiniteSets

CONSTANTS Caller,    \* the parties that lease resources
          Resource,  \* the names a resource can have
          MaxSize,   \* how many resources may exist at once
          None       \* the holder of nothing

VARIABLES open,      \* TRUE until the pool is closed
          live,      \* the resources created and not yet given up to be destroyed
          lease      \* lease[c] is the resource c holds, or None

leaseVars == <<open, live, lease>>

Leased == {lease[c] : c \in Caller} \ {None}

LeaseInit == open = TRUE /\ live = {} /\ lease = [c \in Caller |-> None]

\* A new resource goes straight to the caller that asked for it.
Create(c, r) ==
  /\ open
  /\ lease[c] = None
  /\ r \notin live
  /\ Cardinality(live) < MaxSize
  /\ live' = live \cup {r}
  /\ lease' = [lease EXCEPT ![c] = r]
  /\ UNCHANGED open

\* A resource nobody holds is leased again.
Reuse(c, r) ==
  /\ open
  /\ lease[c] = None
  /\ r \in live \ Leased
  /\ lease' = [lease EXCEPT ![c] = r]
  /\ UNCHANGED <<open, live>>

\* A holder gives its resource back, to be kept while the pool is open and
\* to be destroyed after that.
Return(c) ==
  /\ lease[c] # None
  /\ lease' = [lease EXCEPT ![c] = None]
  /\ live' = IF open THEN live ELSE live \ {lease[c]}
  /\ UNCHANGED open

\* A holder's resource goes directly to a caller that was waiting for one.
Transfer(c, d) ==
  /\ open
  /\ lease[c] # None
  /\ lease[d] = None
  /\ lease' = [lease EXCEPT ![c] = None, ![d] = lease[c]]
  /\ UNCHANGED <<open, live>>

\* A resource nobody holds is destroyed.
Discard(r) ==
  /\ r \in live \ Leased
  /\ live' = live \ {r}
  /\ UNCHANGED <<open, lease>>

\* The pool is closed; the first resource nobody holds may go at once.
Close ==
  /\ open' = FALSE
  /\ \E D \in SUBSET (live \ Leased) : live' = live \ D
  /\ UNCHANGED lease

LeaseNext ==
  \/ \E c \in Caller, r \in Resource : Create(c, r) \/ Reuse(c, r)
  \/ \E c \in Caller : Return(c)
  \/ \E c, d \in Caller : Transfer(c, d)
  \/ \E r \in Resource : Discard(r)
  \/ Close

LeaseSpec == LeaseInit /\ [][LeaseNext]_leaseVars
=============================================================================
