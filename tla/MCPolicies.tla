----------------------------- MODULE MCPolicies -----------------------------
(***************************************************************************)
(* Instances for TLC of what surrounds one task, one stream or one         *)
(* request: the channel between two of them, the policies (Breaker,        *)
(* RateLimiter, Cache, Attempt), the combinators (Tasks, Operators), the   *)
(* state machine, a subprocess, and a request's way through the server     *)
(* (Exchange, Pipeline).  They share no state, so a behaviour is one of    *)
(* one of them: part says which, and the others keep their initial states. *)
(***************************************************************************)
EXTENDS Channel, Breaker, RateLimiter, Cache, Attempt, Tasks, Operators, Machine, Subprocess,
        Exchange, Pipeline

VARIABLE part

vars == <<channelVars, breakerVars, limiterVars, cacheVars, attemptVars, now, clock, parallelVars,
          lazyVars, operatorVars, machineVars, subprocessVars, exchangeVars, pipelineVars, part>>

-----------------------------------------------------------------------------
(* Constants. *)

\* One iterator with two next() calls at a time and one with a single call.
CONSTANTS n1, n2, n3, i1, i2
MCIteratorOf == [n \in {n1, n2, n3} |-> IF n = n3 THEN i2 ELSE i1]

MCPolicySet == [delay : {0, 1, 3}, backoff : {"fixed", "linear", "exponential"},
                maxDelay : {4}, jitter : BOOLEAN]

\* Up to three elements of two values and a failure.
MCSupplies ==
  UNION {[1..k -> {Okay(<<1>>), Okay(<<2>>), Failure}] : k \in 0..3}
    \cup {Append(FromArray(values), Thrown) : values \in {<<>>, <<<<1>>>>, <<<<1>>, <<2>>>>, <<<<1>>, <<1>>>>}}
    \cup {Unfold(seed, [s \in 1..4 |-> <<<<1 + (s % 2)>>, s + 1>>]) : seed \in 1..5}

\* Three states: a guarded way to b, a self-transition, one with an action and a target
\* that may be unknown; b may have no hooks.
MCTransition(t, g, a) == [target |-> t, guard |-> g, action |-> a]
MCBothHooks == {"onEntry", "onExit"}
MCMachineConfigs ==
  {[initial |-> "a",
    states |-> [a |-> MCBothHooks, b |-> hooks, c |-> MCBothHooks],
    transitions |-> [a |-> [go   |-> MCTransition("b", guard, TRUE),
                            stay |-> MCTransition("a", "none", FALSE)],
                     b |-> [go   |-> MCTransition(target, "none", TRUE),
                            stay |-> MCTransition("b", "even", TRUE)]]] :
     hooks \in {MCBothHooks, {}}, guard \in {"none", "even", "never"},
     target \in {"a", "c", "gone"}}

-----------------------------------------------------------------------------

\* Where another part runs, one of a component's initial states stands for all of them.
Unused ==
  /\ part # "channel" => capacity = 0
  /\ part # "parallel" => combinator = "all"
  /\ part # "operators" => /\ supply = <<>> /\ chain = <<"map", "none">>
                           /\ terminal = "iterate"
  /\ part # "machine" => config = CHOOSE c \in MachineConfigs : TRUE
  /\ part # "subprocess" => adapter = "node" /\ wants = {}
  /\ part # "exchange" => host = "node"
  /\ part # "pipeline" => builders = <<CHOOSE b \in Builders : Layers(b) = 0>>

Init ==
  /\ part \in {"channel", "breaker", "limiter", "cache", "attempt", "parallel", "lazy", "operators",
               "machine", "subprocess", "exchange", "pipeline"}
  /\ now = 0 /\ clock = 0 /\ Unused
  /\ ChannelInit /\ BreakerInit /\ LimiterInit /\ CacheInit /\ AttemptInit /\ TasksInit /\ LazyInit
  /\ OperatorsInit /\ MachineInit /\ SubprocessInit /\ ExchangeInit /\ PipelineInit

Only(p) ==
  /\ part = p /\ UNCHANGED part
  /\ p # "channel"    => UNCHANGED channelVars
  /\ p # "breaker"    => UNCHANGED breakerVars
  /\ p # "limiter"    => UNCHANGED <<limiterVars, now>>
  /\ p # "cache"      => UNCHANGED <<cacheVars, clock>>
  /\ p # "attempt"    => UNCHANGED attemptVars
  /\ p # "parallel"   => UNCHANGED parallelVars
  /\ p # "lazy"       => UNCHANGED lazyVars
  /\ p # "operators"  => UNCHANGED operatorVars
  /\ p # "machine"    => UNCHANGED machineVars
  /\ p # "subprocess" => UNCHANGED subprocessVars
  /\ p # "exchange"   => UNCHANGED exchangeVars
  /\ p # "pipeline"   => UNCHANGED pipelineVars

Next ==
  \/ Only("channel") /\ ChannelNext
  \/ Only("breaker") /\ BreakerNext
  \/ Only("limiter") /\ LimiterNext
  \/ Only("cache") /\ CacheNext
  \/ Only("attempt") /\ AttemptNext
  \/ Only("parallel") /\ \E t \in TaskId : TaskSettles(t)
  \/ Only("lazy") /\ LazyNext
  \/ Only("operators") /\ OperatorsNext
  \/ Only("machine") /\ MachineNext
  \/ Only("subprocess") /\ SubprocessNext
  \/ Only("exchange") /\ ExchangeNext
  \/ Only("pipeline") /\ PipelineNext

\* At the breaker, time passes, callers keep calling, and every task ends.
BreakerFairness ==
  /\ WF_breakerVars(part = "breaker" /\ Elapse)
  /\ \A r \in Request :
       /\ WF_breakerVars(part = "breaker" /\ Admit(r))
       /\ WF_breakerVars(part = "breaker" /\ (Succeed(r) \/ Fail(r) \/ Reject(r)))

\* A consumer of the channel that has had its answer asks again, as for-await does.
ChannelFairness == \A n \in Receiver : WF_channelVars(part = "channel" /\ NextCall(n))

\* No fair action is enabled but those of the part that runs.
Spec == /\ Init /\ [][Next]_vars
        /\ BreakerFairness /\ ChannelFairness
        /\ AttemptFairness /\ SubprocessFairness /\ ExchangeFairness

-----------------------------------------------------------------------------
(* Properties; those not named here are the components' own. *)

\* The type invariants.
PoliciesTypeOK ==
  /\ BreakerTypeOK /\ LimiterTypeOK /\ CacheTypeOK /\ AttemptTypeOK
  /\ SubprocessTypeOK /\ ExchangeTypeOK

\* CombinedByPosition, DelaysGrow and LazyStable: results in the order of the tasks
\* whatever the order they settle in, delays that grow to their cap, and one answer from
\* a Lazy.
TasksSound ==
  /\ part = "parallel" => CombinedByPosition /\ DelaysGrow
  /\ part = "lazy" => LazyStable

\* CommandSettled and ExchangeSound: no order of the platform's events leaves a child, a
\* timer, a stream or a reply behind, or has a listener throw once a handler is called.
AdaptersSound ==
  /\ part = "subprocess" => CommandSettled
  /\ part = "exchange" => ExchangeSound

\* CallsSettle, ExecAnswers, WriterEnds and BlockedSendSettles: a call with a timeout, a
\* command with one and a response's writer come to their end whatever the task, the child
\* and the client do, and a blocked send() as long as a consumer goes on.
AnswersArrive == CallsSettle /\ ExecAnswers /\ WriterEnds /\ BlockedSendSettles
=============================================================================
