------------------------------ MODULE Channel ------------------------------
(***************************************************************************)
(* The bounded channel of src/async/channel.ts.  None of its operations    *)
(* awaits: each is one step.  What interleaves is the order of the calls   *)
(* of many senders, of consumers that may have several next() calls        *)
(* pending on one iterator, of return() and of close().                    *)
(***************************************************************************)
EXTENDS Naturals, Sequences, FiniteSets, Functions, Filter

CONSTANTS Message,     \* the calls of send(), each with a value of its own
          Receiver,    \* the next() calls that can be pending at a time
          IteratorOf,  \* the iterator each of them is made on
          Capacities,  \* the values of the argument of Channel.bounded
          None, Done   \* no result yet; {done: true}

ASSUME ChannelAssumption ==
  /\ Capacities \subseteq Nat
  /\ Receiver = DOMAIN IteratorOf
  /\ None \notin Message /\ Done \notin Message /\ None # Done

VARIABLES
  capacity,        \* capacity
  buffer,          \* buffer
  closed,          \* closed
  sendWaiters,     \* sendWaiters: the send() calls whose promises are pending
  receiveWaiters,  \* receiveWaiters: the next() calls whose promises are
  finished,        \* per iterator: finished
  pending,         \* per iterator: pending
  sent,            \* per send(): "uncalled", "blocked", "true" or "false"
  heard            \* per next(): what its last settled promise held

queues == <<buffer, sendWaiters, receiveWaiters>>
channelVars == <<capacity, closed, queues, finished, pending, sent, heard>>

Iterator == Range(IteratorOf)
Waiting(r) == r \in Range(receiveWaiters)

ChannelInit ==
  /\ capacity \in Capacities
  /\ buffer = <<>> /\ sendWaiters = <<>> /\ receiveWaiters = <<>>
  /\ closed = FALSE
  /\ finished = [i \in Iterator |-> FALSE]
  /\ pending = [i \in Iterator |-> {}]
  /\ sent = [m \in Message |-> "uncalled"]
  /\ heard = [r \in Receiver |-> None]

-----------------------------------------------------------------------------
Settle(m, answer) == sent' = [sent EXCEPT ![m] = answer]

\* send on a closed channel.
SendClosed(m) ==
  /\ closed
  /\ Settle(m, "false")
  /\ UNCHANGED <<capacity, closed, queues, finished, pending, heard>>

\* trySendToWaiter: the oldest waiting next() gets the value.
SendToWaiter(m) ==
  LET r == Head(receiveWaiters)
  IN  /\ ~closed /\ receiveWaiters # <<>>
      /\ receiveWaiters' = Tail(receiveWaiters)
      /\ pending' = [pending EXCEPT ![IteratorOf[r]] = @ \ {r}]
      /\ heard' = [heard EXCEPT ![r] = m]
      /\ Settle(m, "true")
      /\ UNCHANGED <<capacity, closed, buffer, sendWaiters, finished>>

\* Seeded fault: one value too many is buffered.
HasRoomForOneMore == Len(buffer) <= capacity

HasRoom == Len(buffer) < capacity

SendBuffered(m) ==
  /\ ~closed /\ receiveWaiters = <<>> /\ HasRoom
  /\ buffer' = Append(buffer, m)
  /\ Settle(m, "true")
  /\ UNCHANGED <<capacity, closed, sendWaiters, receiveWaiters, finished, pending, heard>>

SendBlocked(m) ==
  /\ ~closed /\ receiveWaiters = <<>> /\ ~HasRoom
  /\ sendWaiters' = Append(sendWaiters, m)
  /\ Settle(m, "blocked")
  /\ UNCHANGED <<capacity, closed, buffer, receiveWaiters, finished, pending, heard>>

Send(m) ==
  /\ sent[m] = "uncalled"
  /\ SendClosed(m) \/ SendToWaiter(m) \/ SendBuffered(m) \/ SendBlocked(m)

\* tryReceiveFromBuffer with nothing buffered: straight from a blocked sender.
TakeDirect(r) ==
  /\ buffer = <<>> /\ sendWaiters # <<>>
  /\ heard' = [heard EXCEPT ![r] = Head(sendWaiters)]
  /\ sendWaiters' = Tail(sendWaiters)
  /\ Settle(Head(sendWaiters), "true")
  /\ UNCHANGED buffer

\* Seeded fault: the place that becomes free is not given to a blocked sender.
TakeBufferedNoRefill(r) ==
  /\ buffer # <<>>
  /\ heard' = [heard EXCEPT ![r] = Head(buffer)]
  /\ buffer' = Tail(buffer)
  /\ UNCHANGED <<sendWaiters, sent>>

\* tryReceiveFromBuffer with a buffered value: the oldest one, and the oldest
\* blocked sender's value takes the place at the end.
TakeBuffered(r) ==
  /\ buffer # <<>>
  /\ heard' = [heard EXCEPT ![r] = Head(buffer)]
  /\ \/ /\ sendWaiters = <<>>
        /\ buffer' = Tail(buffer)
        /\ UNCHANGED <<sendWaiters, sent>>
     \/ /\ sendWaiters # <<>>
        /\ buffer' = Append(Tail(buffer), Head(sendWaiters))
        /\ sendWaiters' = Tail(sendWaiters)
        /\ Settle(Head(sendWaiters), "true")

NothingToTake == buffer = <<>> /\ sendWaiters = <<>>

\* next() on an iterator whose return() was called.
NextFinished(r) ==
  /\ finished[IteratorOf[r]]
  /\ heard' = [heard EXCEPT ![r] = Done]
  /\ UNCHANGED <<capacity, closed, queues, finished, pending, sent>>

NextTake(r) ==
  /\ ~finished[IteratorOf[r]]
  /\ TakeDirect(r) \/ TakeBuffered(r)
  /\ UNCHANGED <<capacity, closed, receiveWaiters, finished, pending>>

NextDone(r) ==
  /\ ~finished[IteratorOf[r]] /\ NothingToTake /\ closed
  /\ heard' = [heard EXCEPT ![r] = Done]
  /\ UNCHANGED <<capacity, closed, queues, finished, pending, sent>>

NextWait(r) ==
  /\ ~finished[IteratorOf[r]] /\ NothingToTake /\ ~closed
  /\ receiveWaiters' = Append(receiveWaiters, r)
  /\ pending' = [pending EXCEPT ![IteratorOf[r]] = @ \cup {r}]
  /\ UNCHANGED <<capacity, closed, buffer, sendWaiters, finished, sent, heard>>

NextCall(r) ==
  /\ ~Waiting(r)
  /\ NextFinished(r) \/ NextTake(r) \/ NextDone(r) \/ NextWait(r)

\* return() of iterator i: its pending next() calls leave the queue, done.
Return(i) ==
  /\ finished' = [finished EXCEPT ![i] = TRUE]
  /\ receiveWaiters' = Remaining(receiveWaiters, pending[i])
  /\ heard' = [r \in Receiver |-> IF r \in pending[i] THEN Done ELSE heard[r]]
  /\ pending' = [pending EXCEPT ![i] = {}]
  /\ UNCHANGED <<capacity, closed, buffer, sendWaiters, sent>>

\* close(): blocked senders get false, waiting receivers done.
Close ==
  /\ closed' = TRUE
  /\ sent' = [m \in Message |-> IF m \in Range(sendWaiters) THEN "false" ELSE sent[m]]
  /\ sendWaiters' = <<>>
  /\ heard' = [r \in Receiver |-> IF Waiting(r) THEN Done ELSE heard[r]]
  /\ receiveWaiters' = <<>>
  /\ pending' = [i \in Iterator |-> pending[i] \ Range(receiveWaiters)]
  /\ UNCHANGED <<capacity, buffer, finished>>

ChannelNext ==
  \/ \E m \in Message : Send(m)
  \/ \E r \in Receiver : NextCall(r)
  \/ \E i \in Iterator : Return(i)
  \/ Close

ChannelSpec == ChannelInit /\ [][ChannelNext]_channelVars

-----------------------------------------------------------------------------
\* The type of every variable; a pending next() is queued, and an iterator's
\* pending set is the part of receiveWaiters made on it.
ChannelTypeOK ==
  /\ capacity \in Capacities
  /\ buffer \in Seq(Message)
  /\ closed \in BOOLEAN
  /\ sendWaiters \in Seq(Message)
  /\ receiveWaiters \in Seq(Receiver)
  /\ finished \in [Iterator -> BOOLEAN]
  /\ pending = [i \in Iterator |-> {r \in Range(receiveWaiters) : IteratorOf[r] = i}]
  /\ sent \in [Message -> {"uncalled", "blocked", "true", "false"}]
  /\ heard \in [Receiver -> Message \cup {None, Done}]

\* Nobody waits without need: a receiver waits only on an open channel with
\* nothing in it, a sender only on an open one whose buffer is full ("Send:
\* Blocks if the buffer is full", channel.ts:41), and exactly the blocked
\* calls are queued.
NoNeedlessWait ==
  /\ receiveWaiters # <<>> => ~closed /\ NothingToTake
  /\ sendWaiters # <<>> => ~closed /\ Len(buffer) = capacity
  /\ Len(buffer) <= capacity
  /\ Range(sendWaiters) = {m \in Message : sent[m] = "blocked"}

\* Both: every pending next() and blocked send() is queued where its iterator or its
\* sender can find it, and none waits without need.
ChannelSound == ChannelTypeOK /\ NoNeedlessWait

\* The channel is a first-in first-out conduit for every capacity, 0
\* included: values leave in the order of the send() calls, whether they
\* were buffered, blocked or handed over; none is lost or delivered twice,
\* and the end is reported only when all that were accepted are delivered.
C == INSTANCE Conduit WITH
       open    <- ~closed,
       fate    <- [m \in Message |-> CASE sent[m] = "uncalled" -> "unsent"
                                       [] sent[m] = "false" -> "refused"
                                       [] OTHER -> "taken"],
       transit <- buffer \o sendWaiters,
       asking  <- receiveWaiters,
       gone    <- {i \in Iterator : finished[i]}
ImplementsConduit == C!ConduitSpec

\* A blocked send() settles as long as some consumer goes on: its value is
\* taken in its turn, or the channel is closed.
BlockedSendSettles ==
  (\A i \in Iterator : []~finished[i]) =>
    \A m \in Message : sent[m] = "blocked" ~> sent[m] # "blocked"
=============================================================================
