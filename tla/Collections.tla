---------------------------- MODULE Collections ----------------------------
(***************************************************************************)
(* The data structures of src/src/data that hide a mutable part behind a   *)
(* simple promise: StableVec, whose handles outlive the moves of the       *)
(* elements (stable-vec.ts); NonEmptyList over List (non-empty-list.ts,    *)
(* list.ts); and the draft a record's produce hands to its recipe, which   *)
(* records assignments and replays them (internals.ts, record.ts).         *)
(***************************************************************************)
EXTENDS Integers, FiniteSets, SequencesExt

CONSTANTS
  MaxInserts,   \* bound on the inserts of a vector
  MaxItems,     \* bound on the length of a list
  MaxSteps      \* bound on the steps of a recipe

ASSUME CollectionsAssumption == {MaxInserts, MaxItems, MaxSteps} \subseteq Nat

VARIABLES
  data, meta,   \* a StableVec: dense values, and the slot of each
  slots,        \* the indirection: place in data (0: none) and generation
  freeSlots,
  issued,       \* history: the handles given out, with what they were given for
  live          \* history: those not removed since

vecVars == <<data, meta, slots, freeSlots, issued, live>>

VARIABLES
  listKind,     \* "list" or "nonEmpty"
  items
listVars == <<listKind, items>>

VARIABLES
  mutations,    \* what the draft has recorded
  held,         \* an inner draft the recipe keeps, and whether it is still the place it was
  plain,        \* history: the value if the recipe had been run on a mutable copy
  outcome,      \* "running", or the step that "threw"
  steps
draftVars == <<mutations, held, plain, outcome, steps>>

VARIABLES
  pathBuf, pathRecording, \* what the recorders of accessors share
  accessors,    \* those that run, the innermost last: its kind, path and (history) own reads
  leaked,       \* an accessor has kept the shared proxy; "stray": one read it later, of another
  misread       \* history: recordPath has returned what its accessor had not read
accessVars == <<pathBuf, pathRecording, accessors, leaked, misread>>

-----------------------------------------------------------------------------
(* StableVec. *)

VecInit ==
  /\ data = <<>> /\ meta = <<>> /\ slots = <<>> /\ freeSlots = <<>>
  /\ issued = {} /\ live = {}

\* Removed slots are used again, the last one first.
AllocSlot == IF freeSlots # <<>> THEN Last(freeSlots) ELSE Len(slots) + 1

ResolveSlot(h) ==
  h.index \in DOMAIN slots /\ slots[h.index].generation = h.generation
                           /\ slots[h.index].place # 0

InsertValue ==
  /\ Cardinality(issued) < MaxInserts
  /\ LET i == AllocSlot
         generation == IF freeSlots # <<>> THEN slots[i].generation ELSE 0
         value == Cardinality(issued) + 1
         handle == [index |-> i, generation |-> generation, value |-> value]
     IN  /\ data' = Append(data, value) /\ meta' = Append(meta, i)
         /\ slots' = [j \in DOMAIN slots \cup {i} |->
                        IF j = i THEN [place |-> Len(data) + 1, generation |-> generation] ELSE slots[j]]
         /\ freeSlots' = IF freeSlots # <<>> THEN Front(freeSlots) ELSE freeSlots
         /\ issued' = issued \cup {handle} /\ live' = live \cup {handle}

\* Seeded fault: the removed slot keeps its generation.
FillGapSameGeneration(h) ==
  [[slots EXCEPT ![Last(meta)].place = slots[h.index].place] EXCEPT ![h.index].place = 0]

\* The slots after the last element has moved into the gap.
FillGap(h) ==
  [[slots EXCEPT ![Last(meta)].place = slots[h.index].place]
     EXCEPT ![h.index] = [place |-> 0, generation |-> @.generation + 1]]

Moved(s, place) == Front(IF place = Len(s) THEN s ELSE [s EXCEPT ![place] = Last(s)])

RemoveValue(h) ==
  /\ ResolveSlot(h)
  /\ LET place == slots[h.index].place
     IN  data' = Moved(data, place) /\ meta' = Moved(meta, place)
  /\ slots' = FillGap(h)
  /\ freeSlots' = Append(freeSlots, h.index)
  /\ live' = {l \in live : l # h}
  /\ UNCHANGED issued

\* A handle that is no longer valid removes nothing.
RemoveStale(h) == ~ResolveSlot(h) /\ UNCHANGED vecVars

ClearVec ==
  /\ data # <<>>
  /\ slots' = [j \in DOMAIN slots |->
                 IF slots[j].place # 0 THEN [place |-> 0, generation |-> slots[j].generation + 1] ELSE slots[j]]
  /\ freeSlots' = freeSlots \o SelectSeq([j \in DOMAIN slots |-> j], LAMBDA j : slots[j].place # 0)
  /\ data' = <<>> /\ meta' = <<>> /\ live' = {}
  /\ UNCHANGED issued

GetValue(h) == IF ResolveSlot(h) THEN {data[slots[h.index].place]} ELSE {}

\* entries and forEach: each element with the handle its slot stands for.
Entries == {[index |-> meta[i], generation |-> slots[meta[i]].generation, value |-> data[i]] : i \in DOMAIN data}

VecNext == InsertValue \/ ClearVec \/ \E h \in issued : RemoveValue(h) \/ RemoveStale(h)

-----------------------------------------------------------------------------
(* List and NonEmptyList, whose operations differ in what they return. *)

Element == {1, 2}

ListInit == listKind = "list" /\ items = <<>>

Returns(kind, xs) == Len(xs) <= MaxItems /\ listKind' = kind /\ items' = xs

FromItems == listKind = "list" /\ items # <<>> /\ Returns("nonEmpty", items)

\* append, prepend and concat.
Extends == \E x \in Element : \E xs \in {Append(items, x), <<x>> \o items, items \o <<x, x>>} : Returns(listKind, xs)

\* map and sortBy.
Rearranges == \E p \in [DOMAIN items -> Element] : Returns(listKind, p)

UniqBy(xs) == FoldLeft(LAMBDA kept, x : IF x \in ToSet(kept) THEN kept ELSE Append(kept, x), <<>>, xs)
Dedupes == Returns(listKind, UniqBy(items))

\* Indices count from 0.  setAt beyond the end leaves holes behind, and before the start it
\* sets a property that is no element.
Hole == 0
SetAt(xs, i, x) ==
  IF i < 0 THEN xs
  ELSE [j \in 1..(IF i < Len(xs) THEN Len(xs) ELSE i + 1) |->
          IF j = i + 1 THEN x ELSE IF j \in DOMAIN xs THEN xs[j] ELSE Hole]

\* An Option is a sequence of at most one value.
ListAt(xs, index) ==
  LET n == IF index < 0 THEN Len(xs) + index ELSE index
  IN  IF n >= 0 /\ n < Len(xs) THEN <<xs[n + 1]>> ELSE <<>>
FirstOf(xs) == IF Len(xs) > 0 THEN <<xs[1]>> ELSE <<>>
LastOf(xs)  == IF Len(xs) > 0 THEN <<xs[Len(xs)]>> ELSE <<>>

\* Out of range the function is given undefined.
UpdateAt(xs, i, fn) == SetAt(xs, i, fn[IF i \in 0..Len(xs) - 1 THEN xs[i + 1] ELSE Hole])

RemoveIndex(xs, i) == IF i \in 0..Len(xs) - 1 THEN RemoveAt(xs, i + 1) ELSE xs

\* wanted is what the predicate is true of; an undefined that is found is None.
FindIndex(xs, wanted) ==
  LET i == SelectInSeq(xs, LAMBDA x : x \in wanted) IN IF i = 0 THEN <<>> ELSE <<i - 1>>
FindValue(xs, wanted) ==
  LET i == SelectInSeq(xs, LAMBDA x : x \in wanted) IN IF i = 0 \/ xs[i] = Hole THEN <<>> ELSE <<xs[i]>>

\* The groups by the key fn gives each value.
GroupBy(xs, fn) ==
  FoldLeft(LAMBDA groups, x : [k \in DOMAIN groups \cup {fn[x]} |->
                                 IF k # fn[x] THEN groups[k]
                                 ELSE IF k \in DOMAIN groups THEN Append(groups[k], x) ELSE <<x>>],
           <<>>, xs)

SetsAt == \E i \in -1..Len(items) + 1, x \in Element : Returns(listKind, SetAt(items, i, x))

\* filter, flatMap, slice and removeAt, which a NonEmptyList takes from its List.
Narrows ==
  \/ \E x \in Element : Returns("list", SelectSeq(items, LAMBDA y : y = x))
  \/ \E i \in -1..Len(items) : Returns("list", RemoveIndex(items, i))
  \/ \E i \in 0..Len(items) : Returns("list", SubSeq(items, 1, i))

\* produce: the recipe may leave any array; one that is empty has a NonEmptyList throw.
ProduceList(xs) ==
  IF listKind = "nonEmpty" /\ xs = <<>> THEN UNCHANGED listVars ELSE Returns(listKind, xs)

ListNext ==
  \/ FromItems \/ Extends \/ Rearranges \/ SetsAt \/ Dedupes \/ Narrows
  \/ \E xs \in {<<>>, <<1>>, <<2, 1>>} : ProduceList(xs)

-----------------------------------------------------------------------------
(* The draft of a record.  A node is an atom, an object or an array; a key *)
(* of an array is its index.  Objects and arrays are frozen or not.        *)

Atom(v)    == [kind |-> "atom", value |-> v, at |-> <<>>, frozen |-> FALSE]
Object(fs) == [kind |-> "object", value |-> "", at |-> fs, frozen |-> FALSE]
Array(xs)  == [kind |-> "array", value |-> "", at |-> xs, frozen |-> FALSE]
Undefined  == Atom("undefined")

\* Freezing goes no further where it finds something frozen.
RECURSIVE DeepFreeze(_)
DeepFreeze(n) == IF n.kind = "atom" \/ n.frozen THEN n
                 ELSE [n EXCEPT !.frozen = TRUE, !.at = [k \in DOMAIN n.at |-> DeepFreeze(n.at[k])]]

Item(v) == Object([d |-> Atom(v)])
Base == DeepFreeze(Object([a |-> Atom("zero"), o |-> Object([x |-> Atom("zero")]),
                           list |-> Array(<<Item("zero"), Item("one")>>)]))

Child(n, k) == IF k \in DOMAIN n.at THEN n.at[k] ELSE Undefined
WithKey(n, k, v) == [n EXCEPT !.frozen = FALSE,
                              !.at = [j \in DOMAIN n.at \cup {k} |-> IF j = k THEN v ELSE n.at[j]]]

RECURSIVE GetByPath(_, _)
GetByPath(n, path) == IF path = <<>> THEN n ELSE GetByPath(Child(n, Head(path)), Tail(path))

RECURSIVE SetByPath(_, _, _)
SetByPath(n, path, v) ==
  IF path = <<>> THEN v
  ELSE WithKey(n, Head(path), SetByPath(Child(n, Head(path)), Tail(path), v))

ApplyMutations(n, ms) == FoldLeft(LAMBDA result, m : SetByPath(result, m.path, m.value), n, ms)

CurrentValueAt(n, path) ==
  LET beneath == SelectSeq(mutations, LAMBDA m : IsPrefix(path, m.path))
  IN  ApplyMutations(n, [i \in DOMAIN beneath |->
        [path |-> SubSeq(beneath[i].path, Len(path) + 1, Len(beneath[i].path)), value |-> beneath[i].value]])

FindMutation(path) == SelectLastInSeq(mutations, LAMBDA m : m.path = path)

\* Where a recipe stands: at a draft of a node, or within the value a mutation recorded,
\* which a draft of an object hands out as it is.
DraftOf(n, path) == [draft |-> TRUE, node |-> n, path |-> path, from |-> 0, rest |-> <<>>]
RawValue(i)      == [draft |-> FALSE, node |-> mutations[i].value, path |-> <<>>, from |-> i, rest |-> <<>>]

Enter(w, k) ==
  IF ~w.draft THEN [w EXCEPT !.node = Child(w.node, k), !.rest = Append(w.rest, k)]
  ELSE IF w.node.kind = "array"
  THEN DraftOf(Child(CurrentValueAt(w.node, w.path), k), Append(w.path, k))
  ELSE LET i == FindMutation(Append(w.path, k))
       IN  IF i # 0 THEN RawValue(i) ELSE DraftOf(Child(w.node, k), Append(w.path, k))

Reach(path) == FoldLeft(Enter, DraftOf(Base, <<>>), path)

NoDraft == [at |-> DraftOf(Undefined, <<>>), fresh |-> FALSE]

DraftInit ==
  /\ mutations = <<>> /\ held = NoDraft /\ plain = Base /\ outcome = "running" /\ steps = 0

Record(path, v) == mutations' = Append(mutations, [path |-> path, value |-> v]) /\ UNCHANGED outcome

\* A write within a recorded value changes it, or throws if it belongs to the base.
WriteWithin(w, path, v) ==
  IF w.node.frozen THEN outcome' = "threw" /\ UNCHANGED mutations
  ELSE mutations' = [mutations EXCEPT ![w.from].value = SetByPath(@, path, v)] /\ UNCHANGED outcome

Assign(w, k, v) ==
  IF w.draft THEN Record(Append(w.path, k), v) ELSE WriteWithin(w, Append(w.rest, k), v)

Methods == {"push", "pop", "reverse"}
Changed(xs, method) ==
  CASE method = "push" -> Append(xs, Item("new"))
    [] method = "pop" -> IF xs = <<>> THEN xs ELSE Front(xs)
    [] method = "reverse" -> Reverse(xs)

\* A mutating array method runs on a copy of what the array is by now.
CallMethod(w, method) ==
  IF w.draft
  THEN Record(w.path, Array(Changed(CurrentValueAt(w.node, w.path).at, method)))
  ELSE WriteWithin(w, w.rest, Array(Changed(w.node.at, method)))

-----------------------------------------------------------------------------
(* The steps of a recipe. *)

Assignments ==
  {<< <<"a">>, Atom("one")>>, << <<"a">>, Undefined>>, << <<"o">>, Object([x |-> Atom("two")])>>,
   << <<"o", "x">>, Atom("three")>>, << <<"list">>, Array(<<Item("two")>>)>>,
   << <<"list", 1>>, Item("three")>>, << <<"list", 1, "d">>, Atom("four")>>,
   << <<"list", 2, "d">>, Atom("five")>>}

Holdable == {<<"o">>, <<"list">>, <<"list", 1>>}

Takes(path) == plain.kind # "atom" /\ GetByPath(plain, Front(path)).kind # "atom" /\ GetByPath(plain, path).value # "undefined"

Step ==
  /\ outcome = "running" /\ steps < MaxSteps
  /\ steps' = steps + 1

\* A held draft is no longer the place it was once something at or above it was replaced.
Replaces(path) == held' = [held EXCEPT !.fresh = @ /\ ~IsPrefix(path, held.at.path)]

\* draft.o.x = v; delete draft.a records undefined.
AssignStep ==
  /\ Step
  /\ \E a \in Assignments :
       /\ Takes(a[1])
       /\ Assign(Reach(Front(a[1])), Last(a[1]), a[2])
       /\ plain' = SetByPath(plain, a[1], a[2])
       /\ Replaces(a[1])

MethodStep ==
  /\ Step
  /\ \E method \in Methods :
       /\ Takes(<<"list">>)
       /\ CallMethod(Reach(<<"list">>), method)
       /\ plain' = SetByPath(plain, <<"list">>, Array(Changed(plain.at["list"].at, method)))
       /\ Replaces(<<"list">>)

\* const o = draft.o
HoldStep ==
  /\ Step
  /\ \E path \in Holdable :
       /\ Takes(path) /\ Reach(path).draft
       /\ held' = [at |-> Reach(path), fresh |-> TRUE]
  /\ UNCHANGED <<mutations, plain, outcome>>

\* o.x = v, items.push(v): it is the plain value's only as long as o is fresh.
HeldStep ==
  /\ Step /\ held.at.path # <<>>
  /\ \/ \E k \in DOMAIN held.at.node.at :
          LET v == IF held.at.node.kind = "array" THEN Item("six") ELSE Atom("six")
          IN  Assign(held.at, k, v) /\ plain' = IF held.fresh THEN SetByPath(plain, Append(held.at.path, k), v) ELSE Undefined
     \/ \E method \in Methods :
          /\ held.at.node.kind = "array"
          /\ CallMethod(held.at, method)
          /\ plain' = IF held.fresh THEN SetByPath(plain, held.at.path, Array(Changed(GetByPath(plain, held.at.path).at, method)))
                      ELSE Undefined
  /\ UNCHANGED held

-----------------------------------------------------------------------------
(* recordPath: which properties an accessor reads of what it is given.     *)

AccessInit ==
  /\ pathBuf = <<>> /\ pathRecording = FALSE /\ accessors = <<>> /\ leaked = "no"
  /\ misread = FALSE

\* An accessor within an accessor (its update is another record's) has a recorder of its own.
RecordPath ==
  /\ Len(accessors) < 3
  /\ accessors' = Append(accessors, [shared |-> ~pathRecording, path |-> <<>>, own |-> <<>>])
  /\ IF pathRecording THEN UNCHANGED <<pathBuf, pathRecording>> ELSE pathBuf' = <<>> /\ pathRecording' = TRUE
  /\ UNCHANGED <<leaked, misread>>

\* The innermost one reads a property, key i, of what it or one around it was given.
ReadProperty(i) ==
  /\ Len(accessors[i].own) < 2
  /\ LET a == [accessors[i] EXCEPT !.own = Append(@, i)] IN
     IF a.shared THEN pathBuf' = Append(pathBuf, i) /\ accessors' = [accessors EXCEPT ![i] = a]
     ELSE accessors' = [accessors EXCEPT ![i] = [a EXCEPT !.path = Append(@, i)]] /\ UNCHANGED pathBuf
  /\ UNCHANGED <<pathRecording, leaked, misread>>

\* The shared proxy, kept by an accessor that is over, is read.
ReadLeaked ==
  /\ leaked # "no" /\ Len(pathBuf) < 3
  /\ pathBuf' = Append(pathBuf, 0)
  /\ leaked' = IF \E i \in DOMAIN accessors : accessors[i].shared THEN "stray" ELSE leaked
  /\ UNCHANGED <<pathRecording, accessors, misread>>

PathOf(a) == IF a.shared THEN pathBuf ELSE a.path

AccessorReturns ==
  /\ accessors # <<>>
  /\ LET a == Last(accessors) IN
     /\ misread' = (misread \/ PathOf(a) # a.own)
     /\ IF a.shared THEN pathBuf' = <<>> /\ pathRecording' = FALSE ELSE UNCHANGED <<pathBuf, pathRecording>>
     /\ leaked' \in IF a.shared /\ leaked = "no" THEN {"no", "kept"} ELSE {leaked}
  /\ accessors' = Front(accessors)

\* An accessor that throws resets nothing: the shared recorder is not used again.
AccessorThrows ==
  /\ accessors # <<>>
  /\ accessors' = Front(accessors)
  /\ UNCHANGED <<pathBuf, pathRecording, leaked, misread>>

AccessNext ==
  RecordPath \/ AccessorReturns \/ AccessorThrows \/ ReadLeaked
  \/ \E i \in DOMAIN accessors : ReadProperty(i)

DraftNext == AssignStep \/ MethodStep \/ HoldStep \/ HeldStep

-----------------------------------------------------------------------------

\* However elements are moved by removals and slots used again, a handle finds the value
\* it was given for as long as that is in the vector, never another one, and iteration
\* meets exactly the live values, each with its handle; a slot is free or used, once.
VecKeepsHandles ==
  /\ \A h \in issued : GetValue(h) = IF h \in live THEN {h.value} ELSE {}
  /\ Entries = live /\ Len(data) = Cardinality(live)
  /\ IsInjective(freeSlots) /\ ToSet(freeSlots) = DOMAIN slots \ ToSet(meta)

\* No chain of operations makes a NonEmptyList empty.
NonEmptyHolds == listKind = "nonEmpty" => items # <<>>

\* What is written at an index is read there, by at from either end, and nowhere else; to
\* remove an index that was not there changes nothing; the groups hold every value once, in
\* the list's order; find answers with the value at findIndex, unless that is a hole.
ListLawful ==
  /\ \A i \in -1..Len(items) + 1, x \in Element :
       LET ys == SetAt(items, i, x)
       IN  /\ i >= 0 => ListAt(ys, i) = <<x>> /\ ListAt(ys, i - Len(ys)) = <<x>>
           /\ \A j \in 0..Len(items) - 1 : j # i => ListAt(ys, j) = ListAt(items, j)
           /\ i \in 0..Len(items) - 1 => UpdateAt(ys, i, [e \in Element \cup {Hole} |-> e]) = ys
           /\ RemoveIndex(InsertAt(items, Len(items) + 1, x), Len(items)) = items
           /\ i \notin 0..Len(items) - 1 => RemoveIndex(items, i) = items
  /\ FirstOf(items) = ListAt(items, 0) /\ LastOf(items) = ListAt(items, -1)
  /\ \A fn \in [Element \cup {Hole} -> {"odd", "even"}] :
       LET groups == GroupBy(items, fn)
       IN  /\ \A k \in {"odd", "even"} :
                SelectSeq(items, LAMBDA x : fn[x] = k) = IF k \in DOMAIN groups THEN groups[k] ELSE <<>>
           /\ \A k \in DOMAIN groups : groups[k] # <<>>
  /\ \A wanted \in SUBSET (Element \cup {Hole}) :
       LET i == FindIndex(items, wanted)
       IN  FindValue(items, wanted) = IF i = <<>> \/ ListAt(items, i[1]) = <<Hole>> THEN <<>> ELSE ListAt(items, i[1])

RECURSIVE Alike(_, _)
Alike(m, n) ==
  /\ m.kind = n.kind /\ m.value = n.value
  /\ DOMAIN m.at = DOMAIN n.at
  /\ \A k \in DOMAIN m.at : Alike(m.at[k], n.at[k])

Leaves == {path \in {<<"a">>, <<"o", "x">>, <<"list", 1, "d">>, <<"list", 2, "d">>} :
             Takes(path) /\ GetByPath(plain, path).kind = "atom"}

\* Two ways in which the draft hides a write.  An element was written into and then
\* assigned as a whole: a draft of the new one still finds the old one's keys.  A held array
\* was written into after one of its methods: the record's draft hands out that method's
\* result without the write, and what is written there is replayed before it.
Shadowed == \E i, j \in DOMAIN mutations :
  i < j /\ mutations[j].path \in {<<"list", 1>>, <<"list", 2>>} /\ IsStrictPrefix(mutations[j].path, mutations[i].path)
Overtaken == \E i, j \in DOMAIN mutations :
  i < j /\ mutations[i].path = <<"list">> /\ IsStrictPrefix(<<"list">>, mutations[j].path)

\* What a recipe does to the draft comes out of produce as if it had been done to a
\* mutable copy, and is read back within the recipe; inner drafts it holds included, until
\* something at or above them is replaced.  The base is never written to: the only step
\* that throws is one into an element of it after a mutating method of its array.
DraftFaithful ==
  /\ (plain.kind # "atom" /\ outcome = "running" /\ ~Overtaken) =>
       /\ Alike(ApplyMutations(Base, mutations), plain)
       /\ ~Shadowed => \A path \in Leaves : Alike(Reach(path).node, GetByPath(plain, path))
  /\ outcome = "threw" => \E i \in DOMAIN mutations : mutations[i].path = <<"list">>

\* The path of set, update and at is what its own accessor read of what it was given, however
\* accessors are nested, read what those around them were given, and throw; the exception is
\* a proxy that outlives its accessor and is read within another one.
PathsRecorded == misread => leaked = "stray"

CollectionsFaithful == PathsRecorded /\ VecKeepsHandles /\ NonEmptyHolds /\ ListLawful /\ DraftFaithful
=============================================================================
