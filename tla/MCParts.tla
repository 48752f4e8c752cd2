------------------------------ MODULE MCParts ------------------------------
(***************************************************************************)
(* Instances for TLC of the components that need only a small one.  A      *)
(* behaviour is one of a single component, as part says; merge and         *)
(* debounce each have the queue of Streams, and only one of them runs.     *)
(***************************************************************************)
EXTENDS Streams, Lifecycle, Router, Emitter, Cron, Release

VARIABLE part

ownMerge    == <<opened, asked, sent, over, returned, remaining, stopped>>
ownDebounce == <<pulling, okGiven, errGiven, timer, sourceExhausted, cancelled, released>>
vars == <<ownMerge, ownDebounce, queueVars, lifecycleVars, routes, emitterVars, parsed,
          runnerVars, releaseVars, part>>

-----------------------------------------------------------------------------
(* Constants. *)

\* A year of 3 and 2 days, a week of 3; one list of parts per form, and three that err.
MCDaysIn == <<3, 2>>
MCStarts == 0..40
Every == Part("wildcard", 0, 0, 1)
MCFieldParts ==
  [minute  |-> {<<Every>>, <<Part("single", 1, 1, 1)>>, <<Part("range", 0, 2, 2)>>, <<Part("wildcard", 0, 0, 0)>>},
   hour    |-> {<<Every>>, <<Part("single", 1, 1, 2)>>, <<Part("single", 0, 0, 1), Part("range", 1, 1, 1)>>},
   day     |-> {<<Every>>, <<Part("single", 3, 3, 1)>>, <<Part("wildcard", 0, 0, 2)>>},
   month   |-> {<<Every>>, <<Part("single", 2, 2, 1)>>, <<Part("single", 3, 3, 1)>>},
   weekday |-> {<<Every>>, <<Part("range", 1, 2, 1)>>, <<Part("range", 2, 1, 1)>>}]

At(month, date, hours, minutes) ==
  [year |-> 2026, month |-> month, date |-> date, hours |-> hours, minutes |-> minutes]

\* The turn of a month of 31 days: the minutes that match "0 0,10 * * *",
\* "0,1 0,10 * * *" or "1 0 * * *", and an hour that does not.
MCMoments ==
  << At(0, 31, 0, 0), At(0, 31, 0, 1), At(0, 31, 5, 0), At(0, 31, 10, 0), At(0, 31, 10, 1),
     At(1, 1, 0, 0), At(1, 1, 0, 1), At(1, 1, 10, 0) >>

MCSchedules == {[minutes |-> {0}, hours |-> {0, 10}],
                [minutes |-> {0, 1}, hours |-> {0, 10}],
                [minutes |-> {1}, hours |-> {0}]}

-----------------------------------------------------------------------------

Init ==
  /\ part \in {"merge", "debounce", "lifecycle", "router", "emitter", "cron", "runner", "release"}
  /\ part # "lifecycle" => runtime = "node"
  /\ part # "runner" => schedule = CHOOSE s \in Schedules : TRUE
  /\ MergeInit /\ DebounceInit /\ LifecycleInit
  /\ RouterInit /\ EmitterInit /\ CronInit /\ RunnerInit /\ ReleaseInit

Only(p) ==
  /\ part = p /\ UNCHANGED part
  /\ p # "merge"     => UNCHANGED ownMerge
  /\ p # "debounce"  => UNCHANGED ownDebounce
  /\ p \notin {"merge", "debounce"} => UNCHANGED queueVars
  /\ p # "lifecycle" => UNCHANGED lifecycleVars
  /\ p # "router"    => UNCHANGED routes
  /\ p # "emitter"   => UNCHANGED emitterVars
  /\ p # "cron"      => UNCHANGED parsed
  /\ p # "runner"    => UNCHANGED runnerVars
  /\ p # "release"   => UNCHANGED releaseVars

Next ==
  \/ Only("merge") /\ MergeNext
  \/ Only("debounce") /\ DebounceNext
  \/ Only("lifecycle") /\ LifecycleNext
  \/ Only("router") /\ AddRoute
  \/ Only("emitter") /\ EmitterNext
  \/ Only("cron") /\ Parse
  \/ Only("runner") /\ RunnerNext
  \/ Only("release") /\ ReleaseNext

Spec == /\ Init /\ [][Next]_vars
        /\ part = "lifecycle" => LifecycleFairness

\* The behaviours of the cron runner alone.
RunnerPart == part = "runner" /\ Init /\ [][Next]_vars

-----------------------------------------------------------------------------
(* Properties; those not named here are the components' own. *)

\* A source that is merged is asked for one value at a time.  Neither merge nor debounce
\* leaves a source open, or a timer running, behind; merge loses, doubles and reorders
\* nothing of a source up to where it stopped; debounce replaces a value by a later one
\* only, and gives the last.
StreamsFaithful ==
  /\ QueueTypeOK
  /\ part = "merge" => EachSourceOnce /\ SourcesReleased /\ MergedInOrder
  /\ part = "debounce" => NothingLeftRunning /\ LatestIsFlushed

\* LifecycleTypeOK, ShutdownEnds and DrainIsGraceful: a signalled process exits, with 130,
\* and until the drain timer no connection that is serving a request is closed.
ServerStops == []LifecycleTypeOK /\ ShutdownEnds /\ DrainIsGraceful

\* NextIsFirstMatch and FiresOncePerMinute: what next answers is what matches says of
\* every minute up to it, and the runner fires once in a minute that matches.
CronKeepsSchedule == NextIsFirstMatch /\ FiresOncePerMinute
=============================================================================
