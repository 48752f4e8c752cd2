----------------------------- MODULE Subprocess -----------------------------
(***************************************************************************)
(* Command.exec and Command.spawn over the adapters of Bun and Node.js      *)
(* (src/src/runtime/adapters/subprocess.ts), and readLine of                *)
(* src/src/runtime/adapters/stdin.ts.  One command is run.  Its child        *)
(* process, its pipes and the platform's timers act on their own; what the  *)
(* code does at each of their events is one action.                         *)
(*                                                                         *)
(* The child: none, failed to start, running, exited (dead, its output not *)
(* yet read to the end) and closed.  Promises settle once: Answer keeps the *)
(* first answer.                                                            *)
(***************************************************************************)
EXTENDS Naturals

CONSTANT Waiter     \* the calls of a spawned child's wait()

VARIABLES
  adapter,    \* "bun" or "node"
  wants,      \* the options given: a subset of {"stdin", "timeout"}
  child,      \* state of the child process
  cause,      \* how it ended: by itself with code "zero" or "other", or by a "signal"
  killSent,   \* the adapter, or execFile for it, has killed the child
  overflowed, \* execFile killed it because its output was too long
  fed,        \* stdin: "unused", "writing", "done" or "failed"
  commandTimer,
  timedOut,   \* the timer fired
  execAnswer, \* what exec's promise settled with, or "none"
  handle,     \* what spawn's promise settled with
  waits,      \* what each wait() settled with, "none", or "unasked"
  line        \* what readLine's promise settled with

subprocessVars == <<adapter, wants, child, cause, killSent, overflowed, fed, commandTimer,
                    timedOut, execAnswer, handle, waits, line>>

Endings == {"none", "zero", "other", "signal"}

SubprocessTypeOK ==
  /\ adapter \in {"bun", "node"} /\ wants \subseteq {"stdin", "timeout"}
  /\ child \in {"none", "failed", "running", "exited", "closed"} /\ cause \in Endings
  /\ fed \in {"unused", "writing", "done", "failed"}
  /\ killSent \in BOOLEAN /\ overflowed \in BOOLEAN /\ commandTimer \in BOOLEAN /\ timedOut \in BOOLEAN
  /\ execAnswer \in {"none", "uncalled", "ok", "spawn", "stdin", "timeout", "signal", "overflow"}
  /\ handle \in {"none", "uncalled", "ok", "spawn"}
  /\ waits \in [Waiter -> {"unasked", "none", "ok", "spawn"}]
  /\ line \in {"uncalled", "none", "null", "text"}

SubprocessInit ==
  /\ adapter \in {"bun", "node"} /\ wants \in SUBSET {"stdin", "timeout"}
  /\ child = "none" /\ cause = "none" /\ fed = "unused"
  /\ killSent = FALSE /\ overflowed = FALSE /\ commandTimer = FALSE /\ timedOut = FALSE
  /\ execAnswer = "uncalled" /\ handle = "uncalled" /\ line = "uncalled"
  /\ waits = [w \in Waiter |-> "unasked"]

Alive == child = "running"

\* The path of exec: Node.js runs execFile unless there is stdin to write.
Path == IF adapter = "bun" THEN "bun" ELSE IF "stdin" \in wants THEN "node" ELSE "execFile"

Answer(a) == execAnswer' = IF execAnswer = "none" THEN a ELSE execAnswer

spawnVars == <<handle, waits, line>>

-----------------------------------------------------------------------------
(* exec. *)

\* Starts the child, its timer and the writing of its stdin.  Bun without stdin and
\* timeout runs spawnSync, which answers at once; a start that fails throws in Bun and
\* is an event in Node.js.
Exec ==
  /\ child = "none" /\ execAnswer = "uncalled" /\ handle = "uncalled" /\ line = "uncalled"
  /\ \/ /\ Path = "bun" /\ wants = {}
        /\ \/ child' = "closed" /\ execAnswer' = "ok" /\ cause' \in Endings \ {"none"}
           \/ child' = "failed" /\ execAnswer' = "spawn" /\ UNCHANGED cause
        /\ UNCHANGED <<fed, commandTimer>>
     \/ /\ Path = "bun" /\ wants # {}
        /\ child' = "failed" /\ execAnswer' = "spawn" /\ UNCHANGED <<cause, fed, commandTimer>>
     \/ /\ Path # "bun"
        /\ child' = "failed" /\ execAnswer' = "none" /\ commandTimer' = ("timeout" \in wants)
        /\ UNCHANGED <<cause, fed>>
     \/ /\ Path # "bun" \/ wants # {}
        /\ child' = "running" /\ execAnswer' = "none" /\ commandTimer' = ("timeout" \in wants)
        /\ fed' = (IF "stdin" \in wants THEN "writing" ELSE "unused")
        /\ UNCHANGED cause
  /\ UNCHANGED <<adapter, wants, killSent, overflowed, timedOut, spawnVars>>

\* The child ends; after a kill, or somebody else's, by a signal.
ChildExits ==
  /\ Alive
  /\ child' = "exited"
  /\ cause' \in {"zero", "other", "signal"}
  /\ UNCHANGED <<adapter, wants, killSent, overflowed, fed, commandTimer, timedOut, execAnswer, spawnVars>>

\* The "error" event of a child that did not start, and execFile's callback for it.
ChildError ==
  /\ child = "failed" /\ execAnswer = "none" /\ Path # "bun"
  /\ commandTimer' = FALSE
  /\ Answer("spawn")
  /\ UNCHANGED <<adapter, wants, child, cause, killSent, overflowed, fed, timedOut, spawnVars>>

\* The write of stdin is accepted; Bun then waits for the output.
StdinWritten ==
  /\ fed = "writing"
  /\ fed' = "done"
  /\ IF Path = "bun" /\ child = "closed"
     THEN commandTimer' = FALSE /\ Answer("ok")
     ELSE UNCHANGED <<commandTimer, execAnswer>>
  /\ UNCHANGED <<adapter, wants, child, cause, killSent, overflowed, timedOut, spawnVars>>

\* Seeded fault: the child is left to itself.
StdinFailsKeepsChild ==
  /\ fed = "writing"
  /\ fed' = "failed"
  /\ commandTimer' = FALSE
  /\ Answer("stdin")
  /\ UNCHANGED <<adapter, wants, child, cause, killSent, overflowed, timedOut, spawnVars>>

\* It fails (EPIPE), at any time until it was accepted: the child is killed, the timer
\* cleared and the error is the answer.
StdinFails ==
  /\ fed = "writing"
  /\ fed' = "failed"
  /\ killSent' = (killSent \/ Alive)
  /\ commandTimer' = FALSE
  /\ Answer("stdin")
  /\ UNCHANGED <<adapter, wants, child, cause, overflowed, timedOut, spawnVars>>

\* What a child that ends with c is reported as by execFile's callback.
ExecFileAnswer(c) ==
  IF c = "zero" /\ ~overflowed THEN "ok"
  ELSE IF killSent /\ "timeout" \in wants THEN "timeout"
  ELSE IF overflowed THEN "overflow"
  ELSE IF c = "signal" THEN "signal" ELSE "ok"

\* The "close" event: the output is complete.  Only execFile tells a signal from a code;
\* Bun answers once stdin was written too.
ChildCloses ==
  /\ child = "exited" /\ handle = "uncalled"
  /\ child' = "closed"
  /\ IF Path = "bun" /\ fed \in {"writing", "failed"}
     THEN UNCHANGED <<commandTimer, execAnswer>>
     ELSE /\ commandTimer' = FALSE
          /\ Answer(IF Path = "execFile" THEN ExecFileAnswer(cause)
                    ELSE IF fed = "failed" THEN "stdin" ELSE "ok")
  /\ UNCHANGED <<adapter, wants, cause, killSent, overflowed, fed, timedOut, spawnVars>>

\* The timeout kills the child.  execFile then waits for its end, the others answer.
CommandTimesOut ==
  /\ commandTimer
  /\ commandTimer' = FALSE /\ timedOut' = TRUE
  /\ killSent' = (killSent \/ Alive)
  /\ IF Path = "execFile" THEN UNCHANGED execAnswer ELSE Answer("timeout")
  /\ UNCHANGED <<adapter, wants, child, cause, overflowed, fed, spawnVars>>

\* execFile kills a child whose output is too long (maxBuffer).
OutputOverflows ==
  /\ Path = "execFile" /\ Alive /\ execAnswer = "none" /\ ~overflowed
  /\ overflowed' = TRUE /\ killSent' = TRUE
  /\ UNCHANGED <<adapter, wants, child, cause, fed, commandTimer, timedOut, execAnswer, spawnVars>>

execVars == <<killSent, overflowed, fed, commandTimer, timedOut, execAnswer>>

-----------------------------------------------------------------------------
(* spawn. *)

\* Bun answers with the child at once, Node.js at its "spawn" event.  What the child ends
\* with is collected from here on, whether or not anyone waits.
Spawn ==
  /\ child = "none" /\ execAnswer = "uncalled" /\ handle = "uncalled" /\ line = "uncalled"
  /\ \/ child' = "running" /\ handle' = IF adapter = "bun" THEN "ok" ELSE "none"
     \/ child' = "failed" /\ handle' = IF adapter = "bun" THEN "spawn" ELSE "none"
  /\ UNCHANGED <<adapter, wants, cause, execVars, waits, line>>

\* The "spawn" or the "error" event of the child.
Started ==
  /\ handle = "none"
  /\ handle' = IF child = "failed" THEN "spawn" ELSE "ok"
  /\ UNCHANGED <<adapter, wants, child, cause, execVars, waits, line>>

\* The stored result answers the waits there are, and those that come later.
SpawnedCloses ==
  /\ child = "exited" /\ handle = "ok"
  /\ child' = "closed"
  /\ waits' = [w \in Waiter |-> IF waits[w] = "none" THEN "ok" ELSE waits[w]]
  /\ UNCHANGED <<adapter, wants, cause, execVars, handle, line>>

Wait(w) ==
  /\ handle = "ok" /\ waits[w] = "unasked"
  /\ waits' = [waits EXCEPT ![w] = IF child = "closed" THEN "ok" ELSE "none"]
  /\ UNCHANGED <<adapter, wants, child, cause, execVars, handle, line>>

-----------------------------------------------------------------------------
(* readLine. *)

ReadLine ==
  /\ child = "none" /\ line = "uncalled" /\ execAnswer = "uncalled" /\ handle = "uncalled"
  /\ line' = "none"
  /\ UNCHANGED <<adapter, wants, child, cause, execVars, handle, waits>>

\* The text of a line is kept from the "close" event that iface.close() raises inside
\* the callback: settled is set before it.
LineGiven ==
  /\ line = "none"
  /\ line' = "text"
  /\ UNCHANGED <<adapter, wants, child, cause, execVars, handle, waits>>

\* End of input, or a close from elsewhere.
InputCloses ==
  /\ line = "none"
  /\ line' = "null"
  /\ UNCHANGED <<adapter, wants, child, cause, execVars, handle, waits>>

-----------------------------------------------------------------------------

SubprocessNext ==
  \/ Exec \/ ChildExits \/ ChildError \/ StdinWritten \/ StdinFails \/ ChildCloses
  \/ CommandTimesOut \/ OutputOverflows
  \/ Spawn \/ Started \/ SpawnedCloses \/ (\E w \in Waiter : Wait(w))
  \/ ReadLine \/ LineGiven \/ InputCloses

\* Timers fire and events of the platform arrive; the child itself may run for ever.
SubprocessFairness ==
  /\ WF_subprocessVars(CommandTimesOut)
  /\ WF_subprocessVars(ChildError)
  /\ WF_subprocessVars(ChildCloses)
  /\ WF_subprocessVars(StdinWritten \/ StdinFails)

-----------------------------------------------------------------------------

\* Whatever wins the race of exit, stdin error and timeout, a settled exec leaves no timer
\* and no child that nobody told to stop; an exit code is reported only of a child that
\* ended and was read to its end, a timeout only if it passed (or, by execFile, if the
\* child was killed for its output); and a child that ended leaves no wait() pending.
CommandSettled ==
  /\ execAnswer \notin {"none", "uncalled"} =>
       /\ ~commandTimer
       /\ Alive => killSent
       /\ execAnswer = "ok" => child = "closed" /\ ~overflowed
       /\ execAnswer = "timeout" => timedOut \/ overflowed
       /\ execAnswer = "stdin" => fed = "failed"
  /\ child = "closed" => \A w \in Waiter : waits[w] # "none"

\* An exec with a timeout answers even if its child never ends, except that execFile
\* waits for a child it has killed; and every exec whose child ends answers.
ExecAnswers ==
  /\ (execAnswer = "none" /\ "timeout" \in wants) ~>
       (execAnswer # "none" \/ (Path = "execFile" /\ Alive /\ killSent))
  /\ (execAnswer = "none" /\ child \in {"failed", "exited"}) ~> execAnswer # "none"
=============================================================================
