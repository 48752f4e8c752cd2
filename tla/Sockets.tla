------------------------------ MODULE Sockets ------------------------------
(***************************************************************************)
(* Net.connect and the TcpConnection of src/src/io/net.ts over the adapter *)
(* of src/src/runtime/adapters/net-adapter.ts.  Each receive() adds three  *)
(* listeners to the socket, which nothing removes: a "data" event is for   *)
(* all the calls that wait, and for nobody if none does.  The socket is    *)
(* external: it holds what arrives until the first "data" listener, and    *)
(* then gives each chunk once, whoever listens.  Chunks are numbers.       *)
(***************************************************************************)
EXTENDS Naturals, Sequences, FiniteSets

CONSTANTS
  Receive,    \* the calls of receive()
  Send,       \* and of send()
  MaxChunk    \* bound on the chunks of the peer

ASSUME SocketAssumption == MaxChunk \in Nat

VARIABLES
  link,       \* "none", "connecting", "open", "failing", "destroyed" or "closed"
  connected,  \* what connect's promise came to: "none", "ok" or "err"
  arrived,    \* how many chunks have arrived
  emitted,    \* how many of them were given to the listeners
  hearing,    \* the calls of receive() with their listeners
  received,   \* what each of them came to: a chunk, or one of the two below
  ended,      \* the peer sends no more
  writes      \* per send(): "none", "waiting", "ok" or "err"

\* History: the chunks that were emitted when a call began, and the calls made after "close".
VARIABLES calledAt, late

socketVars == <<link, connected, arrived, emitted, hearing, received, ended, writes, calledAt, late>>

Pending  == 0
Rejected == MaxChunk + 1

SocketsInit ==
  /\ link = "none" /\ connected = "none"
  /\ arrived = 0 /\ emitted = 0 /\ ended = FALSE
  /\ hearing = {} /\ received = [r \in Receive |-> Pending]
  /\ writes = [s \in Send |-> "none"]
  /\ calledAt = [r \in Receive |-> 0] /\ late = {}

SocketsTypeOK ==
  /\ link \in {"none", "connecting", "open", "failing", "destroyed", "closed"}
  /\ connected \in {"none", "ok", "err"} /\ arrived \in 0..MaxChunk /\ emitted \in 0..arrived
  /\ hearing \subseteq Receive /\ received \in [Receive -> 0..Rejected]
  /\ writes \in [Send -> {"none", "waiting", "ok", "err"}]

\* A promise that is settled stays as it is.
Settled(calls, result) ==
  received' = [r \in Receive |-> IF r \in calls /\ received[r] = Pending THEN result ELSE received[r]]

-----------------------------------------------------------------------------
(* The calls; a connection is there once connect has answered. *)

\* Without node:net connect answers an Err at once.
Connect ==
  /\ link = "none"
  /\ \/ link' = "connecting" /\ UNCHANGED connected
     \/ link' = "closed" /\ connected' = "err"
  /\ UNCHANGED <<arrived, emitted, hearing, received, ended, writes, calledAt, late>>

ReceiveData(r) ==
  /\ connected = "ok" /\ r \notin hearing
  /\ hearing' = hearing \cup {r}
  /\ calledAt' = [calledAt EXCEPT ![r] = emitted]
  /\ late' = IF link = "closed" THEN late \cup {r} ELSE late
  /\ UNCHANGED <<link, connected, arrived, emitted, received, ended, writes>>

SendData(s) ==
  /\ connected = "ok" /\ writes[s] = "none"
  /\ writes' = [writes EXCEPT ![s] = "waiting"]
  /\ UNCHANGED <<link, connected, arrived, emitted, hearing, received, ended, calledAt, late>>

CloseSocket ==
  /\ connected = "ok" /\ link = "open"
  /\ link' = "destroyed"
  /\ UNCHANGED <<connected, arrived, emitted, hearing, received, ended, writes, calledAt, late>>

-----------------------------------------------------------------------------
(* The socket's events. *)

Connected ==
  /\ link = "connecting"
  /\ link' = "open" /\ connected' = "ok"
  /\ UNCHANGED <<arrived, emitted, hearing, received, ended, writes, calledAt, late>>

\* connect's listener stays: an "error" is heard even when no call waits.
SocketError ==
  /\ link \in {"connecting", "open"}
  /\ link' = "failing"
  /\ connected' = IF connected = "none" THEN "err" ELSE connected
  /\ Settled(hearing, Rejected)
  /\ UNCHANGED <<arrived, emitted, hearing, ended, writes, calledAt, late>>

ChunkArrives ==
  /\ link = "open" /\ ~ended /\ arrived < MaxChunk
  /\ arrived' = arrived + 1
  /\ UNCHANGED <<link, connected, emitted, hearing, received, ended, writes, calledAt, late>>

PeerEnds ==
  /\ link = "open" /\ ~ended
  /\ ended' = TRUE
  /\ UNCHANGED <<link, connected, arrived, emitted, hearing, received, writes, calledAt, late>>

\* "data"
DataEvent ==
  /\ link = "open" /\ hearing # {} /\ emitted < arrived
  /\ emitted' = emitted + 1
  /\ Settled(hearing, emitted')
  /\ UNCHANGED <<link, connected, arrived, hearing, ended, writes, calledAt, late>>

\* Seeded fault: nobody listens to "close".
CloseUnheard ==
  /\ \/ link \in {"failing", "destroyed"}
     \/ link = "open" /\ ended /\ hearing # {} /\ emitted = arrived
  /\ link' = "closed"
  /\ UNCHANGED <<connected, arrived, emitted, hearing, received, ended, writes, calledAt, late>>

\* "close": after an error or a destroy, and at the end of what the peer sent, which is
\* not seen before all of it has been read.
CloseEvent ==
  /\ \/ link \in {"failing", "destroyed"}
     \/ link = "open" /\ ended /\ hearing # {} /\ emitted = arrived
  /\ link' = "closed"
  /\ Settled(hearing, Rejected)
  /\ UNCHANGED <<connected, arrived, emitted, hearing, ended, writes, calledAt, late>>

\* The callback of write().
Written(s) ==
  /\ writes[s] = "waiting"
  /\ \E result \in IF link = "open" THEN {"ok", "err"} ELSE {"err"} : writes' = [writes EXCEPT ![s] = result]
  /\ UNCHANGED <<link, connected, arrived, emitted, hearing, received, ended, calledAt, late>>

SocketsNext ==
  \/ Connect \/ Connected \/ SocketError \/ ChunkArrives \/ PeerEnds \/ DataEvent \/ CloseEvent \/ CloseSocket
  \/ \E r \in Receive : ReceiveData(r)
  \/ \E s \in Send : SendData(s) \/ Written(s)

SocketsSpec == SocketsInit /\ [][SocketsNext]_socketVars

-----------------------------------------------------------------------------

\* However calls, chunks, errors and the end interleave: a call has the first chunk that is
\* given after it was made, so that calls made one after the other have different chunks in
\* the order of the peer; what arrives before the first call is kept for it, and a chunk is
\* lost only if no call waited for it; no call outlives the "close" event but those that
\* came after it, which wait for ever; and sends are refused once the socket is gone.
SocketSound ==
  /\ emitted > 0 => \E r \in hearing : calledAt[r] = 0
  /\ \A r \in hearing :
       /\ received[r] \in 1..MaxChunk => received[r] = calledAt[r] + 1
       /\ received[r] = Pending => calledAt[r] = emitted /\ (link = "closed" => r \in late)
       /\ received[r] = Rejected => link \in {"failing", "closed"}
  /\ connected = "err" => hearing = {} /\ \A s \in Send : writes[s] = "none"
=============================================================================
