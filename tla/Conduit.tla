------------------------------ MODULE Conduit ------------------------------
(***************************************************************************)
(* What a channel promises, whatever its capacity: messages come out in    *)
(* the order in which they were put in, each once, to the receivers in the *)
(* order in which they asked; closing refuses what is not yet accepted, a  *)
(* suffix of the messages in transit, and ends every receiver once the     *)
(* rest has come out.  Module Channel is shown to implement this.          *)
(***************************************************************************)
EXTENDS Naturals, Sequences, Filter

CONSTANTS Message,     \* the messages, each put in at most once
          Receiver,    \* those who ask for a message
          IteratorOf,  \* the iterator a receiver asks through
          None, Done   \* no answer yet; the answer at the end

VARIABLES open,
          fate,     \* per message: "unsent", "taken" or "refused"
          transit,  \* the messages taken and not yet delivered
          asking,   \* the receivers that asked and were not yet answered
          gone,     \* the iterators given up by their consumer
          heard     \* per receiver: the last answer

conduitVars == <<open, fate, transit, asking, gone, heard>>

Iterator == {IteratorOf[r] : r \in Receiver}

Idle(r) == \A i \in DOMAIN asking : asking[i] # r

ConduitInit ==
  /\ open = TRUE /\ transit = <<>> /\ asking = <<>> /\ gone = {}
  /\ fate = [m \in Message |-> "unsent"]
  /\ heard = [r \in Receiver |-> None]

Put(m) ==
  /\ open /\ fate[m] = "unsent" /\ asking = <<>>
  /\ fate' = [fate EXCEPT ![m] = "taken"]
  /\ transit' = Append(transit, m)
  /\ UNCHANGED <<open, asking, gone, heard>>

Pass(m) ==
  /\ open /\ fate[m] = "unsent" /\ asking # <<>> /\ transit = <<>>
  /\ fate' = [fate EXCEPT ![m] = "taken"]
  /\ heard' = [heard EXCEPT ![Head(asking)] = m]
  /\ asking' = Tail(asking)
  /\ UNCHANGED <<open, transit, gone>>

Refuse(m) ==
  /\ ~open /\ fate[m] = "unsent"
  /\ fate' = [fate EXCEPT ![m] = "refused"]
  /\ UNCHANGED <<open, transit, asking, gone, heard>>

Take(r) ==
  /\ Idle(r) /\ IteratorOf[r] \notin gone /\ transit # <<>>
  /\ heard' = [heard EXCEPT ![r] = Head(transit)]
  /\ transit' = Tail(transit)
  /\ UNCHANGED <<open, fate, asking, gone>>

Ask(r) ==
  /\ open /\ Idle(r) /\ IteratorOf[r] \notin gone /\ transit = <<>>
  /\ asking' = Append(asking, r)
  /\ UNCHANGED <<open, fate, transit, gone, heard>>

End(r) ==
  /\ Idle(r)
  /\ IteratorOf[r] \in gone \/ (~open /\ transit = <<>>)
  /\ heard' = [heard EXCEPT ![r] = Done]
  /\ UNCHANGED <<open, fate, transit, asking, gone>>

\* Everyone in A stops asking and hears Done.
Dismiss(A) ==
  /\ asking' = Remaining(asking, A)
  /\ heard' = [r \in Receiver |-> IF r \in A /\ ~Idle(r) THEN Done ELSE heard[r]]

Close ==
  /\ open' = FALSE
  /\ \E n \in 0..Len(transit) :
       /\ transit' = SubSeq(transit, 1, n)
       /\ fate' = [m \in Message |->
                     IF \E i \in (n + 1)..Len(transit) : transit[i] = m
                     THEN "refused" ELSE fate[m]]
  /\ Dismiss(Receiver)
  /\ UNCHANGED gone

Abandon(i) ==
  /\ gone' = gone \cup {i}
  /\ Dismiss({r \in Receiver : IteratorOf[r] = i})
  /\ UNCHANGED <<open, fate, transit>>

ConduitNext ==
  \/ \E m \in Message : Put(m) \/ Pass(m) \/ Refuse(m)
  \/ \E r \in Receiver : Take(r) \/ Ask(r) \/ End(r)
  \/ Close
  \/ \E i \in Iterator : Abandon(i)

ConduitSpec == ConduitInit /\ [][ConduitNext]_conduitVars
=============================================================================
