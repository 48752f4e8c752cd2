------------------------------ MODULE Emitter ------------------------------
(***************************************************************************)
(* One event of src/async/event-emitter.ts; the events share nothing.      *)
(*                                                                         *)
(* emit calls the handlers of a Set while they may change it, remove it    *)
(* from the map, or emit again.  A Set that was removed lives on in the    *)
(* emits that iterate it, so sets has all there were, the event's being    *)
(* sets[current].  A Set is the sequence of what was added, where deleting *)
(* leaves a hole, as JavaScript defines its iteration.                     *)
(***************************************************************************)
EXTENDS Naturals, FiniteSets, SequencesExt

CONSTANTS Listener,   \* handlers given to on and off
          OnceCall,   \* calls of once, each with a wrapper of its own
          Hole,       \* the place of a deleted handler
          MaxAdded,   \* bound: handlers added to one Set
          MaxSets,    \* bound: Sets that are made
          MaxNested   \* bound: emits under way at a time

ASSUME EmitterAssumption == Hole \notin Listener \cup OnceCall /\ Listener \cap OnceCall = {}

VARIABLES sets,      \* the Sets of handlers made so far
          current,   \* listeners.get(event), 0 for undefined
          emits,     \* emits under way: the Set, and the place of the handler that runs
          called,     \* history: how often each once-handler was called
          orphans    \* history: once-handlers removed by removeAll during an emit of their Set

emitterVars == <<sets, current, emits, called, orphans>>

EmitterInit ==
  /\ sets = <<>> /\ current = 0 /\ emits = <<>>
  /\ called = [w \in OnceCall |-> 0] /\ orphans = {}

Handlers(s) == ToSet(sets[s]) \ {Hole}

\* Set.delete.
Removed(set, handler) == [i \in DOMAIN set |-> IF set[i] = handler THEN Hole ELSE set[i]]

-----------------------------------------------------------------------------
(* What the code outside, or a handler that runs, may call. *)

\* getOrCreate and Set.add.
Add(handler) ==
  \/ /\ current = 0 /\ Len(sets) < MaxSets
     /\ sets' = Append(sets, <<handler>>) /\ current' = Len(sets')
  \/ /\ current # 0
     /\ handler \in Handlers(current) \/ Len(sets[current]) < MaxAdded
     /\ sets' = IF handler \in Handlers(current) THEN sets ELSE [sets EXCEPT ![current] = Append(@, handler)]
     /\ UNCHANGED current

On(h) == Add(h) /\ UNCHANGED <<emits, called, orphans>>

Once(w) ==
  /\ \A s \in DOMAIN sets : w \notin ToSet(sets[s])
  /\ called[w] = 0
  /\ Add(w)
  /\ UNCHANGED <<emits, called, orphans>>

Off(h) ==
  /\ current # 0
  /\ sets' = [sets EXCEPT ![current] = Removed(@, h)]
  /\ UNCHANGED <<current, emits, called, orphans>>

RemoveAll ==
  /\ current # 0
  /\ current' = 0
  /\ orphans' = orphans \cup
       {w \in Handlers(current) \cap OnceCall : \E i \in DOMAIN emits : emits[i].set = current}
  /\ UNCHANGED <<sets, emits, called>>

-----------------------------------------------------------------------------
(* Emitting. *)

\* Seeded fault: a wrapper looks for itself in the Set only if no other emit is under way.
CallHandlerOutermost(handler) ==
  \/ handler \notin OnceCall /\ UNCHANGED <<sets, called>>
  \/ /\ handler \in OnceCall
     /\ called' = [called EXCEPT ![handler] = @ + 1]
     /\ sets' = IF current = 0 \/ Len(emits) > 0 THEN sets ELSE [sets EXCEPT ![current] = Removed(@, handler)]

\* A handler is called; the wrapper of once first takes itself out of the event's Set.
CallHandler(handler) ==
  \/ handler \notin OnceCall /\ UNCHANGED <<sets, called>>
  \/ /\ handler \in OnceCall
     /\ called' = [called EXCEPT ![handler] = @ + 1]
     /\ sets' = IF current = 0 THEN sets ELSE [sets EXCEPT ![current] = Removed(@, handler)]

\* The loop of emit goes on in Set s after place at, with the emits of outer around it.
Iterate(s, at, outer) ==
  LET left == {i \in DOMAIN sets[s] : i > at /\ sets[s][i] # Hole}
  IN  \/ /\ left = {}
         /\ emits' = outer /\ UNCHANGED <<sets, called>>
      \/ /\ left # {}
         /\ emits' = Append(outer, [set |-> s, at |-> Min(left)])
         /\ CallHandler(sets[s][Min(left)])

Emit ==
  /\ current # 0 /\ Len(emits) < MaxNested
  /\ Iterate(current, 0, emits)
  /\ UNCHANGED <<current, orphans>>

HandlerReturned ==
  /\ emits # <<>>
  /\ Iterate(Last(emits).set, Last(emits).at, Front(emits))
  /\ UNCHANGED <<current, orphans>>

\* A handler throws: its emit is given up, and the error is its caller's.
HandlerThrew ==
  /\ emits # <<>>
  /\ emits' = Front(emits)
  /\ UNCHANGED <<sets, current, called, orphans>>

EmitterNext ==
  \/ \E h \in Listener : On(h) \/ Off(h)
  \/ \E w \in OnceCall : Once(w)
  \/ RemoveAll \/ Emit \/ HandlerReturned \/ HandlerThrew

EmitterSpec == EmitterInit /\ [][EmitterNext]_emitterVars

-----------------------------------------------------------------------------
(* Properties. *)

\* No Set holds a handler twice; a handler of once is called a second time only if
\* removeAll took its Set away during an emit, and once called it is in no Set that
\* will be emitted (once, emit).
OnceUnlessOrphaned ==
  /\ \A s \in DOMAIN sets : \A i, j \in DOMAIN sets[s] : sets[s][i] = sets[s][j] /\ i # j => sets[s][i] = Hole
  /\ \A w \in OnceCall \ orphans :
       called[w] <= 1 /\ (called[w] = 1 => \A s \in DOMAIN sets : w \notin ToSet(sets[s]))

\* "Register a handler that fires at most once, then removes itself" (once).
OnceFiresOnce == \A w \in OnceCall : called[w] <= 1
=============================================================================
