----------------------------- MODULE Lifecycle -----------------------------
(***************************************************************************)
(* The life of a process that serves HTTP: Program.run of src/program.ts   *)
(* around listen and serve of src/server.ts around nodeAdapter.serve of    *)
(* src/runtime/adapter/node.ts, or bunAdapter.serve of bun.ts beside it.   *)
(*                                                                         *)
(* A signal aborts the AbortController, whose listener makes the server    *)
(* close; its close callback settles serve's promise, and the chain of     *)
(* continuations from there to process.exit runs before any other event,   *)
(* so they are one step.  The sockets and events of the http module and of *)
(* Bun.serve are external.                                                 *)
(***************************************************************************)
EXTENDS FiniteSets

CONSTANTS Connection,
          Running  \* the process has not exited

ASSUME LifecycleAssumption == IsFiniteSet(Connection) /\ Running \notin {0, 1, 130}

VARIABLES runtime,      \* whose adapter it is
          interrupted,  \* interrupted, and ac.signal.aborted
          teardown,     \* teardownTimer is set
          server,       \* "importing" (before its start), "opening", "listening" or "closing"
          drainTimer,   \* onAbort's timer is set
          connection,   \* per connection: "none", "idle", "busy" or "closed"
          forced,       \* history: the drain timer has fired
          exit          \* the code the process exited with

lifecycleVars == <<runtime, interrupted, teardown, server, drainTimer, connection, forced, exit>>

LifecycleInit ==
  /\ runtime \in {"node", "bun"}
  /\ interrupted = FALSE /\ teardown = FALSE
  /\ server = "importing" /\ drainTimer = FALSE
  /\ connection = [c \in Connection |-> "none"]
  /\ forced = FALSE
  /\ exit = Running

Alive == exit = Running
Open == {c \in Connection : connection[c] \in {"idle", "busy"}}

\* closeIdleConnections, which not every http module has.
CloseIdle(conns) ==
  \/ connection' = conns
  \/ connection' = [c \in Connection |-> IF conns[c] = "idle" THEN "closed" ELSE conns[c]]

\* serve's task: it is Ok when the adapter's promise resolves, and an Err, never a throw,
\* when it rejects (ListenError or HandlerError, which the program does not tell apart).
ServeResult(resolved) == IF resolved THEN "Ok" ELSE "Err"

\* From serve's result to process.exit: an interrupt takes priority over either.
ExitAfter(resolved) ==
  exit' = IF interrupted THEN 130 ELSE IF ServeResult(resolved) = "Ok" THEN 0 ELSE 1

\* onAbort, which is listening for the abort once serve has called listen: the
\* server stops accepting, and newer releases of node close its idle connections.
OnAbort ==
  \/ server = "importing" /\ UNCHANGED <<server, drainTimer, connection>>
  \/ /\ server # "importing"
     /\ server' = "closing" /\ drainTimer' = TRUE
     /\ CloseIdle(connection)

\* The first SIGINT or SIGTERM; options.teardownTimeoutMs may be given.  From run to
\* Bun.serve everything is in one turn, which no signal interrupts.
Interrupt ==
  /\ Alive /\ ~interrupted
  /\ runtime = "node" \/ server # "importing"
  /\ interrupted' = TRUE
  /\ teardown' \in BOOLEAN
  /\ OnAbort
  /\ UNCHANGED <<runtime, forced, exit>>

\* The second one, and the teardown timer, exit at once.
ForceExit ==
  /\ Alive /\ interrupted
  /\ exit' = 130
  /\ UNCHANGED <<runtime, interrupted, teardown, server, drainTimer, connection, forced>>

TeardownTimer ==
  /\ Alive /\ teardown
  /\ exit' = 130
  /\ UNCHANGED <<runtime, interrupted, teardown, server, drainTimer, connection, forced>>

\* serve, after the import: an abort in the meantime resolves it.
Imported ==
  /\ Alive /\ server = "importing" /\ runtime = "node"
  /\ \/ interrupted /\ ExitAfter(TRUE) /\ UNCHANGED server
     \/ ~interrupted /\ server' = "opening" /\ UNCHANGED exit
  /\ UNCHANGED <<runtime, interrupted, teardown, drainTimer, connection, forced>>

\* The listening event.
Listening ==
  /\ Alive /\ server = "opening"
  /\ server' = "listening"
  /\ UNCHANGED <<runtime, interrupted, teardown, drainTimer, connection, forced, exit>>

\* The error event of a bind that failed.
ListenFails ==
  /\ Alive /\ server = "opening"
  /\ ExitAfter(FALSE)
  /\ UNCHANGED <<runtime, interrupted, teardown, server, drainTimer, connection, forced>>

\* bunAdapter: the server listens when Bun.serve returns, or it throws.
BunServes ==
  /\ Alive /\ server = "importing" /\ runtime = "bun"
  /\ \/ server' = "listening" /\ UNCHANGED exit
     \/ ExitAfter(FALSE) /\ UNCHANGED server
  /\ UNCHANGED <<runtime, interrupted, teardown, drainTimer, connection, forced>>

Become(c, state) == connection' = [connection EXCEPT ![c] = state]

Connects(c) ==
  /\ Alive /\ server = "listening" /\ connection[c] = "none"
  /\ Become(c, "idle")
  /\ UNCHANGED <<runtime, interrupted, teardown, server, drainTimer, forced, exit>>

\* A request, also on a connection kept alive while the server drains.
Requests(c) ==
  /\ Alive /\ connection[c] = "idle"
  /\ Become(c, "busy")
  /\ UNCHANGED <<runtime, interrupted, teardown, server, drainTimer, forced, exit>>

\* A request is over: the close event of its response, while the server drains.
RequestEnds(c, state) ==
  /\ Alive /\ connection[c] = "busy"
  /\ \/ server = "closing" /\ CloseIdle([connection EXCEPT ![c] = state])
     \/ server # "closing" /\ Become(c, state)

\* The response has been written, by the handler or as a refusal.
Responds(c) ==
  /\ RequestEnds(c, "idle")
  /\ UNCHANGED <<runtime, interrupted, teardown, server, drainTimer, forced, exit>>

\* The client closes its connection.
Hangs(c) ==
  /\ \/ RequestEnds(c, "closed")
     \/ Alive /\ connection[c] = "idle" /\ Become(c, "closed")
  /\ UNCHANGED <<runtime, interrupted, teardown, server, drainTimer, forced, exit>>

CloseAll == connection' = [c \in Connection |-> IF c \in Open THEN "closed" ELSE connection[c]]

\* Seeded fault: the drain timer closes idle connections only.
ForceCloseIdle ==
  /\ Alive /\ drainTimer /\ runtime = "node"
  /\ drainTimer' = FALSE /\ forced' = TRUE
  /\ connection' = [c \in Connection |-> IF connection[c] = "idle" THEN "closed" ELSE connection[c]]
  /\ UNCHANGED <<runtime, interrupted, teardown, server, exit>>

\* The drain timer: forceCloseConnections.
ForceClose ==
  /\ Alive /\ drainTimer /\ runtime = "node"
  /\ drainTimer' = FALSE /\ forced' = TRUE
  /\ CloseAll
  /\ UNCHANGED <<runtime, interrupted, teardown, server, exit>>

\* close()'s callback, with an error if the server had not come to listen.
Closed ==
  /\ Alive /\ server = "closing" /\ Open = {} /\ runtime = "node"
  /\ drainTimer' = FALSE
  /\ \E resolved \in BOOLEAN : ExitAfter(resolved)
  /\ UNCHANGED <<runtime, interrupted, teardown, server, connection, forced>>

\* bunAdapter's shutdown: stop() resolves when nothing is in flight, or rejects, or its
\* timer comes first; stop(true) closes what is left before serve's promise settles.
Stopped(expired) ==
  /\ Alive /\ server = "closing" /\ runtime = "bun"
  /\ IF expired THEN drainTimer ELSE \A c \in Connection : connection[c] # "busy"
  /\ drainTimer' = FALSE /\ forced' = expired
  /\ CloseAll
  /\ \E resolved \in BOOLEAN : (expired => resolved) /\ ExitAfter(resolved)
  /\ UNCHANGED <<runtime, interrupted, teardown, server>>

LifecycleNext ==
  \/ Interrupt \/ ForceExit \/ TeardownTimer
  \/ Imported \/ BunServes \/ Listening \/ ListenFails
  \/ \E c \in Connection : Connects(c) \/ Requests(c) \/ Responds(c) \/ Hangs(c)
  \/ ForceClose \/ Closed
  \/ \E expired \in BOOLEAN : Stopped(expired)

\* The import settles, a timer that is set fires, and a server without connections
\* calls back.  No handler need answer, no client hang up, no second signal come,
\* and the teardown timer is not relied on.
LifecycleFairness ==
  /\ WF_lifecycleVars(Imported) /\ WF_lifecycleVars(ForceClose) /\ WF_lifecycleVars(Closed)
  /\ WF_lifecycleVars(BunServes) /\ WF_lifecycleVars(Stopped(TRUE))

LifecycleSpec == LifecycleInit /\ [][LifecycleNext]_lifecycleVars /\ LifecycleFairness

-----------------------------------------------------------------------------
(* Properties. *)

\* An interrupted process exits with 130 and no other with 130, it is the abort
\* that closes the server, and a timer is set only while something may hang.
LifecycleTypeOK ==
  /\ connection \in [Connection -> {"none", "idle", "busy", "closed"}]
  /\ exit \in {Running, 0, 1, 130}
  /\ exit # Running => (exit = 130 <=> interrupted)
  /\ server = "closing" => interrupted /\ (Alive => drainTimer \/ forced)
  /\ teardown => interrupted

\* A signal ends the process, although no handler ever answers, no client hangs up
\* and no further signal comes (onAbort, forceCloseConnections).
ShutdownEnds == interrupted ~> exit # Running

\* A drain waits for every request: while one is in flight the process exits only
\* by its teardown timer, a second signal or Bun's drain timer, and only the client or the
\* drain timer cuts it (onAbort, the close event's closeIdleConnections, shutdown).
DrainIsGraceful ==
  [][\A c \in Connection : Alive /\ connection[c] = "busy" =>
       /\ exit' # exit => ForceExit \/ TeardownTimer \/ Stopped(TRUE)
       /\ connection'[c] = "closed" => Hangs(c) \/ Responds(c) \/ ForceClose \/ Stopped(TRUE)]_lifecycleVars
=============================================================================
