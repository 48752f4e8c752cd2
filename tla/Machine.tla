------------------------------ MODULE Machine ------------------------------
(***************************************************************************)
(* StateMachine of src/src/async/state-machine.ts, driven by events that   *)
(* come in any order, valid or not.  The context is what the guards read   *)
(* and the hooks and actions change: here the list of the calls made on it *)
(* so far, which a guard can count.                                        *)
(***************************************************************************)
EXTENDS Naturals, Sequences

CONSTANTS
  MachineConfigs, \* configurations: [initial, states, transitions], see MachineInit
  Events,
  MaxSends        \* bound: the events that are sent

\* States are strings, as their type says.
ASSUME MachineAssumption ==
  \A c \in MachineConfigs :
    /\ c.initial \in STRING
    /\ \A s \in DOMAIN c.transitions : \A e \in DOMAIN c.transitions[s] :
         c.transitions[s][e].target \in STRING

VARIABLES config, state, ctx, sends, refused \* refused: how the last event came out

machineVars == <<config, state, ctx, sends, refused>>

\* states: per state the hooks it has; transitions: per state a function from events to
\* a target, a guard and whether there is an action.
MachineInit ==
  /\ config \in MachineConfigs
  /\ state = config.initial
  /\ ctx = <<>> /\ sends = 0 /\ refused = "none"

OwnTransitions(s) ==
  IF s \in DOMAIN config.transitions THEN config.transitions[s] ELSE [e \in {} |-> {}]

CanTransition(s, e) == e \in DOMAIN OwnTransitions(s)

Allows(guard) == CASE guard = "none" -> TRUE [] guard = "never" -> FALSE
                   [] guard = "even" -> Len(ctx) % 2 = 0

\* A target that is not among the states has no hooks, and no transitions.
Hook(s, name) ==
  IF s \in DOMAIN config.states /\ name \in config.states[s] THEN <<<<name, s>>>> ELSE <<>>

\* Seeded fault: the target is entered before the source is left.
HooksEntryFirst(s, entry) ==
  Hook(entry.target, "onEntry") \o Hook(s, "onExit")
    \o (IF entry.action THEN <<<<"action", s>>>> ELSE <<>>)

\* onExit of the source, the action, onEntry of the target.
Hooks(s, entry) ==
  Hook(s, "onExit") \o (IF entry.action THEN <<<<"action", s>>>> ELSE <<>>)
    \o Hook(entry.target, "onEntry")

\* send, with the caller keeping the state and context it gets; transition throws where
\* send answers Err, and the caller keeps those it had.
SendEvent(e) ==
  /\ sends < MaxSends
  /\ sends' = sends + 1
  /\ IF ~CanTransition(state, e) THEN refused' = "invalid" /\ UNCHANGED <<state, ctx>>
     ELSE LET entry == OwnTransitions(state)[e] IN
          IF ~Allows(entry.guard) THEN refused' = "guard" /\ UNCHANGED <<state, ctx>>
          ELSE /\ state' = entry.target
               /\ ctx' = ctx \o Hooks(state, entry)
               /\ refused' = "no"
  /\ UNCHANGED config

MachineNext == \E e \in Events : SendEvent(e)

\* The calls of ctx that are of hooks; one that no other follows before place j; and the
\* states that have both hooks.
IsHook(i) == ctx[i][1] \in {"onEntry", "onExit"}
LastHookBefore(i, j) == i < j /\ IsHook(i) /\ \A k \in (i + 1)..(j - 1) : ~IsHook(k)
Hooked(s) == s \in DOMAIN config.states /\ config.states[s] = {"onEntry", "onExit"}

\* Through any sequence of events the hooks bracket each stay in a state: what was entered
\* last is what is left next, actions run between the two, and a refused event calls
\* nothing.  (The initial state is not entered.)
HooksBracketStates ==
  /\ \A i, j \in 1..Len(ctx) :
       LastHookBefore(i, j) /\ IsHook(j) /\ ctx[i][1] = "onEntry" /\ Hooked(ctx[i][2])
         => ctx[j] = <<"onExit", ctx[i][2]>>
  /\ \A i \in 1..Len(ctx) : ctx[i][1] = "action" /\ Hooked(ctx[i][2])
       => i > 1 /\ ctx[i - 1] = <<"onExit", ctx[i][2]>>
  /\ \A i \in 1..Len(ctx) : LastHookBefore(i, Len(ctx) + 1) /\ Hooked(state)
       => ctx[i] = <<"onEntry", state>>
=============================================================================
