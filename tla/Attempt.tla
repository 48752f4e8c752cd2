------------------------------ MODULE Attempt ------------------------------
(***************************************************************************)
(* Timeouts, retries, memoize and deadlines, composed as callers compose   *)
(* them:                                                                   *)
(*                                                                         *)
(*   Timer.deadline(d, Retry.apply(policy, task.timeout(ms)).memoize())    *)
(*                                                                         *)
(* (src/async/task.ts, retry.ts and timer.ts).  Nothing is ever cancelled: *)
(* an attempt that lost its race runs on beside its successors, and a      *)
(* timer that lost fires all the same.                                     *)
(***************************************************************************)
EXTENDS Naturals, FiniteSets

CONSTANTS MaxAttempts, \* policy.maxAttempts, or retry's first argument
          Caller       \* the calls of run()

ASSUME AttemptAssumption == MaxAttempts \in Nat /\ IsFiniteSet(Caller)

VARIABLES phase,    \* the retry loop: "idle", "attempting", "sleeping" or "settled"
          attempt,  \* the attempts begun
          task,     \* per attempt, "running" or how the task ended
          ticking,  \* the attempts whose timeout has not fired
          answer,   \* what memoize's promise is settled with, or "none"
          caller    \* per call: "out", "waiting", "timeout" or an answer

attemptVars == <<phase, attempt, task, ticking, answer, caller>>

Ending == {"ok", "err", "rejected"}

\* The loop runs once at least.
Attempts == 1..(IF MaxAttempts = 0 THEN 1 ELSE MaxAttempts)

AttemptInit ==
  /\ phase = "idle" /\ attempt = 0
  /\ task = [i \in Attempts |-> "unstarted"]
  /\ ticking = {}
  /\ answer = "none"
  /\ caller = [c \in Caller |-> "out"]

\* Seeded fault: only the first attempt has a timer.
BeginWithOneTimer(ended, left) ==
  /\ phase' = "attempting" /\ attempt' = attempt + 1
  /\ task' = [ended EXCEPT ![attempt + 1] = "running"]
  /\ ticking' = IF attempt = 0 THEN left \cup {1} ELSE left
  /\ UNCHANGED answer

\* The next attempt: timeout() runs the task and sets its timer.
Begin(ended, left) ==
  /\ phase' = "attempting" /\ attempt' = attempt + 1
  /\ task' = [ended EXCEPT ![attempt + 1] = "running"]
  /\ ticking' = left \cup {attempt + 1}
  /\ UNCHANGED answer

\* The loop ends, memoize's promise is settled, and with it every call that waits.
Finish(ending) ==
  /\ phase' = "settled" /\ answer' = ending
  /\ caller' = [c \in Caller |-> IF caller[c] = "waiting" THEN ending ELSE caller[c]]
  /\ UNCHANGED attempt

\* The current attempt's race is over.  An Err is retried while attempts are left
\* and shouldRetry says so (it may throw), after a delay or, if that is 0, at once.
Decide(ending, ended, left) ==
  \/ Finish(ending) /\ task' = ended /\ ticking' = left
  \/ ending = "err" /\ attempt < MaxAttempts /\ Finish("rejected") /\ task' = ended /\ ticking' = left
  \/ ending = "err" /\ attempt < MaxAttempts /\ Begin(ended, left) /\ UNCHANGED caller
  \/ /\ ending = "err" /\ attempt < MaxAttempts
     /\ phase' = "sleeping" /\ task' = ended /\ ticking' = left
     /\ UNCHANGED <<attempt, answer, caller>>

\* Seeded fault: the answer of any attempt is taken.
RacingAny(i) == phase = "attempting"

\* Attempt i is the one the loop awaits.
Racing(i) == phase = "attempting" /\ i = attempt

\* The task of attempt i ends; a late end changes nothing else.
TaskEnds(i, ending) ==
  /\ task[i] = "running"
  /\ LET ended == [task EXCEPT ![i] = ending]
     IN  \/ Racing(i) /\ Decide(ending, ended, ticking)
         \/ ~Racing(i) /\ task' = ended /\ UNCHANGED <<phase, attempt, ticking, answer, caller>>

\* The timer of attempt i fires: an Err, also when onTimeout throws.
TimerFires(i) ==
  /\ i \in ticking
  /\ LET left == ticking \ {i}
     IN  \/ Racing(i) /\ Decide("err", task, left)
         \/ ~Racing(i) /\ ticking' = left /\ UNCHANGED <<phase, attempt, task, answer, caller>>

\* The delay between two attempts is over.
Wake == phase = "sleeping" /\ Begin(task, ticking) /\ UNCHANGED caller

\* run(): the first call starts the loop, the others share its promise.
Call(c) ==
  /\ caller[c] = "out"
  /\ \/ /\ phase = "idle"
        /\ Begin(task, ticking)
        /\ caller' = [caller EXCEPT ![c] = "waiting"]
     \/ /\ phase # "idle"
        /\ caller' = [caller EXCEPT ![c] = IF answer = "none" THEN "waiting" ELSE answer]
        /\ UNCHANGED <<phase, attempt, task, ticking, answer>>

\* A call's own deadline: the loop goes on without it.
Deadline(c) ==
  /\ caller[c] = "waiting"
  /\ caller' = [caller EXCEPT ![c] = "timeout"]
  /\ UNCHANGED <<phase, attempt, task, ticking, answer>>

AttemptNext ==
  \/ \E i \in Attempts : TimerFires(i) \/ \E ending \in Ending : TaskEnds(i, ending)
  \/ Wake
  \/ \E c \in Caller : Call(c) \/ Deadline(c)

AttemptSpec == AttemptInit /\ [][AttemptNext]_attemptVars

\* Timers fire.  No task need ever end, and no deadline need be short enough to matter.
AttemptFairness == WF_attemptVars(Wake) /\ \A i \in Attempts : WF_attemptVars(TimerFires(i))

-----------------------------------------------------------------------------
(* Properties. *)

AttemptTypeOK ==
  /\ phase \in {"idle", "attempting", "sleeping", "settled"}
  /\ attempt \in {0} \cup Attempts
  /\ task \in [Attempts -> {"unstarted", "running"} \cup Ending]
  /\ ticking \subseteq 1..attempt
  /\ (answer # "none") <=> phase = "settled"
  /\ caller \in [Caller -> {"out", "waiting", "timeout"} \cup Ending]

\* An Ok is the last attempt's own, and no attempt follows one that ended other
\* than with Err unless its timeout had fired first, however attempts overlap and
\* whatever an abandoned one answers (timeout's race, applyRetry's loop).
SuccessEndsTheCall ==
  /\ answer = "ok" => task[attempt] = "ok"
  /\ \A i \in Attempts : i < attempt /\ task[i] \in {"ok", "rejected"} => i \notin ticking

\* Every call is answered although no task ever ends and no deadline passes: each
\* attempt has its timeout, and there are finitely many of them.
CallsSettle == \A c \in Caller : caller[c] = "waiting" ~> caller[c] # "waiting"
=============================================================================
