------------------------------ MODULE Algebra ------------------------------
(***************************************************************************)
(* The algebraic types of src/src/core: the chains of Result, Option and   *)
(* Validation, what collects many of them, the optics of lens.ts, State,   *)
(* Ord and Match with the variants of adt.ts.  A callback is known by the  *)
(* number of the step it is given at, and a value by the callbacks that    *)
(* made it; what optics read and write are the nodes of Collections.       *)
(***************************************************************************)
EXTENDS Collections

CONSTANTS
  MaxMethods,   \* bound on the calls of a chain
  MaxGathered,  \* bound on the containers collected
  MaxPuts,      \* bound on the writes through optics
  MaxBinds,     \* bound on the steps of a State
  MaxArms       \* bound on the arms of a Match

ASSUME AlgebraAssumption == {MaxMethods, MaxGathered, MaxPuts, MaxBinds, MaxArms} \subseteq Nat

VARIABLES
  carrier,   \* "result", "option" or "validation"
  subject,   \* the container the next method is called on
  ran,       \* history: the callbacks that were run, in order
  trail,     \* history: what the chain started with and the methods called
  left       \* what the chain was left with, in a sequence of at most one
railwayVars == <<carrier, subject, ran, trail, left>>

VARIABLE gathered           \* containers to collect

VARIABLES
  source,    \* what optics look at
  puts
opticVars == <<source, puts>>

VARIABLES
  program,   \* a State, from a state to a value and a state
  binds      \* history: the steps flatMap has added to it
stateVars == <<program, binds>>

VARIABLES
  matched,   \* the value of a Match
  arms,
  chosen     \* history: the first arm that applied, 0 for none
matchVars == <<matched, arms, chosen>>

algebraVars == <<railwayVars, gathered, opticVars, stateVars, matchVars>>

-----------------------------------------------------------------------------
(* Result, Option and Validation. *)

Success(v)  == [ok |-> TRUE, value |-> v, errors |-> <<>>]
Failure(es) == [ok |-> FALSE, value |-> <<>>, errors |-> es]

\* What a method returns, and whether it ran its callback.
Gives(s)      == [subject |-> s, runs |-> FALSE]
Runs(s)       == [subject |-> s, runs |-> TRUE]

\* The methods of an Ok: n is the number of the call, good what its callback or its
\* argument turns out to be.
OkMethod(s, name, n, good) ==
  LET next == IF good THEN Success(Append(s.value, n)) ELSE Failure(<<<<n>>>>)
  IN CASE name = "map"     -> Runs(Success(Append(s.value, n)))
       [] name = "flatMap" -> Runs(next)
       [] name = "tap"     -> Runs(s)
       [] name = "zip"     -> Gives(next)
       [] name = "ap"      -> IF good THEN Runs(next) ELSE Gives(next)
       [] OTHER            -> Gives(s)

ErrMethod(s, name, n, good) ==
  CASE name = "mapErr" -> Runs(Failure([i \in DOMAIN s.errors |-> Append(s.errors[i], n)]))
    [] name = "tapErr" -> Runs(s)
    [] OTHER           -> Gives(s)

SomeMethod(s, name, n, good) ==
  IF name = "filter" THEN Runs(IF good THEN s ELSE Failure(<<>>)) ELSE
  LET next == OkMethod(s, name, n, good) IN [next EXCEPT !.subject.errors = <<>>]

NoneMethod(s, name, n, good) ==
  IF name = "or" /\ good THEN Gives(Success(<<n>>)) ELSE Gives(s)

ValidMethod(s, name, n, good) == OkMethod(s, name, n, good)

\* zip and ap keep the errors of both.
InvalidMethod(s, name, n, good) ==
  IF name \in {"zip", "ap"} /\ ~good THEN Gives(Failure(Append(s.errors, <<n>>)))
  ELSE ErrMethod(s, name, n, good)

MethodsOf(c) ==
  {"map", "flatMap", "tap", "zip", "ap"} \cup
  IF c = "option" THEN {"filter", "or"} ELSE {"mapErr", "tapErr"}

MethodOf(c, s, name, n, good) ==
  CASE c = "result"     -> IF s.ok THEN OkMethod(s, name, n, good) ELSE ErrMethod(s, name, n, good)
    [] c = "option"     -> IF s.ok THEN SomeMethod(s, name, n, good) ELSE NoneMethod(s, name, n, good)
    [] c = "validation" -> IF s.ok THEN ValidMethod(s, name, n, good) ELSE InvalidMethod(s, name, n, good)

RailwayInit ==
  /\ carrier \in {"result", "option", "validation"}
  /\ \E good \in BOOLEAN :
       /\ subject = IF good THEN Success(<<1>>) ELSE Failure(IF carrier = "option" THEN <<>> ELSE <<<<1>>>>)
       /\ trail = <<[name |-> "start", good |-> good]>>
  /\ ran = <<>> /\ left = <<>>

\* The methods whose outcome is up to their callback or their argument.
Fallible == {"flatMap", "zip", "ap", "filter", "or"}

Calls(name, good) ==
  /\ Len(trail) <= MaxMethods /\ left = <<>>
  /\ good \/ name \in Fallible
  /\ trail' = Append(trail, [name |-> name, good |-> good])

CallOn ==
  \E name \in MethodsOf(carrier), good \in BOOLEAN :
    LET n == Len(trail) + 1
        m == MethodOf(carrier, subject, name, n, good)
    IN  /\ Calls(name, good)
        /\ subject' = m.subject
        /\ ran' = IF m.runs THEN Append(ran, n) ELSE ran
        /\ UNCHANGED <<carrier, left>>

\* toOption forgets the error, an Option's toResult takes a new one, a Validation's its
\* errors as one, and fromResult makes a Validation of one error.
Convert ==
  \E c \in {"option", "result", "validation"} \ {carrier} :
    LET errors == IF c = "option" THEN <<>>
                  ELSE IF carrier = "option" THEN <<<<Len(trail) + 1>>>>
                  ELSE IF c = "result" THEN <<FlattenSeq(subject.errors)>>
                  ELSE subject.errors
    IN  /\ ~(carrier = "option" /\ c = "validation")
        /\ Calls("convert", TRUE)
        /\ carrier' = c
        /\ subject' = IF subject.ok THEN subject ELSE Failure(errors)
        /\ UNCHANGED <<ran, left>>

\* unwrap, unwrapErr, unwrapOr and unwrapOrElse.
Leave ==
  \E name \in {"unwrap", "unwrapOr", "unwrapOrElse"} \cup (IF carrier = "option" THEN {} ELSE {"unwrapErr"}) :
    /\ Calls(name, TRUE)
    /\ left' = << IF name = "unwrapErr" THEN (IF subject.ok THEN "threw" ELSE "error")
                 ELSE IF subject.ok THEN "value"
                 ELSE IF name = "unwrap" THEN "threw" ELSE "fallback" >>
    /\ ran' = IF name = "unwrapOrElse" /\ ~subject.ok THEN Append(ran, Len(trail) + 1) ELSE ran
    /\ UNCHANGED <<carrier, subject>>

RailwayNext == CallOn \/ Convert \/ Leave

-----------------------------------------------------------------------------
(* collect and traverse. *)

Containers == {Success(<<1>>), Success(<<2>>), Failure(<<<<1>>>>), Failure(<<<<2>>>>), Failure(<<<<1>>, <<2>>>>)}

Gather ==
  /\ Len(gathered) < MaxGathered
  /\ \E c \in Containers : gathered' = Append(gathered, c)

Successes(cs) == FlattenSeq([i \in DOMAIN cs |-> cs[i].value])

\* Results and Options: the first failure ends it.
CollectResults(cs) ==
  LET first == SelectInSeq(cs, LAMBDA c : ~c.ok)
  IN  IF first = 0 THEN Success(Successes(cs)) ELSE cs[first]

\* Validations: all errors.
CollectValidations(cs) ==
  LET errors == FlattenSeq([i \in DOMAIN cs |-> cs[i].errors])
  IN  IF errors # <<>> THEN Failure(errors) ELSE Success(Successes(cs))

\* traverse: calls its function item by item, and Results end at the first failure.
Traverse(c, cs) ==
  FoldLeft(LAMBDA r, a :
             IF c = "result" /\ ~r.answer.ok THEN r
             ELSE [calls |-> r.calls + 1,
                   answer |-> IF r.answer.ok /\ a.ok THEN Success(r.answer.value \o a.value)
                              ELSE IF a.ok THEN r.answer
                              ELSE Failure(r.answer.errors \o a.errors)],
           [calls |-> 0, answer |-> Success(<<>>)], cs)

Partition(cs) ==
  LET failures == SelectSeq(cs, LAMBDA c : ~c.ok)
  IN  [ok |-> Successes(cs), err |-> [i \in DOMAIN failures |-> failures[i].errors]]

-----------------------------------------------------------------------------
(* Optics: of two, one after the other, the second looks at what the first finds. *)

PropLens(key)     == [form |-> "prop", key |-> key]
NullableProp(key) == [form |-> "nullable", key |-> key]
AtIndex(i)        == [form |-> "index", at |-> i]
TagPrism(tags)    == [form |-> "prism", tags |-> tags]
SwapIso           == [form |-> "iso"]
Then(o, p)        == [form |-> "then", outer |-> o, inner |-> p]

Found(n) == [found |-> TRUE, node |-> n]
Absent   == [found |-> FALSE, node |-> Undefined]

Variant(tag, n) == Object([tag |-> Atom(tag), value |-> n])
Swapped(n) == Object([l |-> Child(n, "r"), r |-> Child(n, "l")])

\* A negative index counts from the end.
Place(i, n) == IF i < 0 THEN Len(n.at) + i + 1 ELSE i + 1

\* A composed prism goes through the variants one in the other.
RECURSIVE GetVariant(_, _)
GetVariant(tags, n) ==
  IF tags = <<>> THEN Found(n)
  ELSE IF n.kind = "object" /\ Child(n, "tag").value = Head(tags) THEN GetVariant(Tail(tags), Child(n, "value"))
  ELSE Absent

ReverseGet(tags, n) == FoldRight(LAMBDA tag, inner : Variant(tag, inner), tags, n)

RECURSIVE GetOption(_, _)
GetOption(o, n) ==
  CASE o.form = "prop"     -> Found(Child(n, o.key))
    [] o.form = "nullable" -> IF Child(n, o.key).value \in {"null", "undefined"} THEN Absent ELSE Found(Child(n, o.key))
    [] o.form = "index"    -> IF Place(o.at, n) \in DOMAIN n.at THEN Found(n.at[Place(o.at, n)]) ELSE Absent
    [] o.form = "prism"    -> GetVariant(o.tags, n)
    [] o.form = "iso"      -> Found(Swapped(n))
    [] o.form = "then"     -> LET a == GetOption(o.outer, n)
                              IN  IF a.found THEN GetOption(o.inner, a.node) ELSE Absent

\* set: an index out of range and a composition whose outer part is absent change nothing;
\* a nullable property and a prism write without looking.
RECURSIVE SetThrough(_, _, _)
SetThrough(o, v, n) ==
  CASE o.form \in {"prop", "nullable"} -> WithKey(n, o.key, v)
    [] o.form = "index"    -> IF Place(o.at, n) \in DOMAIN n.at THEN Array([n.at EXCEPT ![Place(o.at, n)] = v]) ELSE n
    [] o.form = "prism"    -> ReverseGet(o.tags, v)
    [] o.form = "iso"      -> Swapped(v)
    [] o.form = "then"     -> LET a == GetOption(o.outer, n)
                              IN  IF a.found THEN SetThrough(o.outer, SetThrough(o.inner, v, a.node), n) ELSE n

\* modify, where fn makes every atom a two.
ModifyThrough(o, n) ==
  LET current == GetOption(o, n) IN IF current.found THEN SetThrough(o, Atom("two"), n) ELSE n

\* A traversal of an array's elements, from a property on.
TraverseSet(key, v, n) == WithKey(n, key, Array([i \in DOMAIN Child(n, key).at |-> v]))

\* The optics of an instance.
Whole == {PropLens("a"), PropLens("xs"), NullableProp("b"), NullableProp("o"), PropLens("res")}
Inner == {AtIndex(0), AtIndex(-1), AtIndex(2), Then(SwapIso, PropLens("l")), PropLens("r"),
          TagPrism(<<"Ok">>), TagPrism(<<"Ok", "Some">>)}
Fits(o, p) ==
  CASE o.key = "xs" -> p.form = "index" [] o.key = "o" -> p.form \in {"then", "prop"}
    [] o.key = "res" -> p.form = "prism" [] OTHER -> FALSE
Optics == Whole \cup {Then(f[1], f[2]) : f \in {g \in Whole \X Inner : Fits(g[1], g[2])}}

OpticInit ==
  /\ \E o \in {Atom("null"), Object([l |-> Atom("zero"), r |-> Atom("one")])},
        res \in {Variant("Err", Atom("zero")), Variant("Ok", Atom("zero")), Variant("Ok", Variant("Some", Atom("zero")))} :
       source = Object([a |-> Atom("zero"), b |-> Atom("null"), o |-> o, res |-> res,
                        xs |-> Array(<<Atom("zero"), Atom("one")>>)])
  /\ puts = 0

Put == puts < MaxPuts /\ puts' = puts + 1

PutStep == Put /\ \E o \in Optics \ Whole : source' = SetThrough(o, Atom("three"), source)
ModifyStep == Put /\ \E o \in Optics \ {PropLens("xs"), PropLens("res"), NullableProp("o")} : source' = ModifyThrough(o, source)
TraverseStep == Put /\ source' = TraverseSet("xs", Atom("four"), source)

OpticNext == PutStep \/ ModifyStep \/ TraverseStep

-----------------------------------------------------------------------------
(* State: a computation from a state to a value and the next state. *)

States == 0..3

Of(a)         == [s \in States |-> <<a, s>>]
Get           == [s \in States |-> <<s, s>>]
Replace(a)       == [s \in States |-> <<0, a>>]
Increment     == [s \in States |-> <<0, (s + 1) % 4>>]
MapState(m)   == [s \in States |-> <<(m[s][1] + 1) % 4, m[s][2]>>]
FlatMap(m, K) == [s \in States |-> K[m[s][1]][m[s][2]]]

\* What a flatMap is given: from the value so far to a State.
Binders == {"of", "get", "set", "modify", "map"}
Binder(b) ==
  [a \in States |-> CASE b = "of" -> Of(a) [] b = "get" -> Get [] b = "set" -> Replace((a + 2) % 4)
                      [] b = "modify" -> Increment [] b = "map" -> MapState(Get)]

StateInit == program = Get /\ binds = <<>>
BindStep ==
  /\ Len(binds) < MaxBinds
  /\ \E b \in Binders : binds' = Append(binds, b) /\ program' = FlatMap(program, Binder(b))

-----------------------------------------------------------------------------
(* ADT and Match. *)

\* A variant's constructor, where the fields of its payload come last.
Construct(tag, payload) == Object([k \in {"tag"} \cup DOMAIN payload |-> IF k \in DOMAIN payload THEN payload[k] ELSE Atom(tag)])

IsVariant(tag, n) == n.kind = "object" /\ Child(n, "tag").value = tag

TagArm(tag)   == [kind |-> "tag", tags |-> {tag}]
WhenArm(tags) == [kind |-> "when", tags |-> tags]

\* The predicate of a when arm is of all that has no tag, or of those of some tags.
Applies(arm, n) ==
  IF arm.kind = "tag" THEN \E tag \in arm.tags : IsVariant(tag, n)
  ELSE IF n.kind = "object" THEN \E tag \in arm.tags : IsVariant(tag, n) ELSE arm.tags = {}

TryMatch(n, as) == SelectInSeq(as, LAMBDA arm : Applies(arm, n))

Tags == {"Red", "Green", "Blue"}

MatchInit ==
  /\ \E n \in {Construct("Red", <<>>), Construct("Blue", [intensity |-> Atom("one")]),
                Construct("Blue", [tag |-> Atom("Green")]), Object([intensity |-> Atom("one")]), Atom("one")} : matched = n
  /\ arms = <<>> /\ chosen = 0

AddArm ==
  /\ Len(arms) < MaxArms
  /\ \E arm \in {TagArm(tag) : tag \in Tags} \cup {WhenArm({}), WhenArm({"Red", "Green"})} :
       /\ arms' = Append(arms, arm)
       /\ chosen' = IF chosen = 0 /\ Applies(arm, matched) THEN Len(arms) + 1 ELSE chosen
  /\ UNCHANGED matched

-----------------------------------------------------------------------------
(* Ord and Eq, of numbers: -1, 0 and 1, with the infinities and NaN. *)

Floats == {"-Infinity", "-1", "0", "1", "Infinity", "NaN"}
Rank == [f \in Floats |-> CASE f = "-Infinity" -> -9 [] f = "-1" -> -1 [] f = "0" -> 0 [] f = "1" -> 1 [] f = "Infinity" -> 9 [] f = "NaN" -> 0]

\* a - b, which is not a number for two like infinities.
Difference(a, b) ==
  IF "NaN" \in {a, b} \/ (a = b /\ a \in {"-Infinity", "Infinity"}) THEN "NaN"
  ELSE CASE Rank[a] < Rank[b] -> "-1" [] Rank[a] = Rank[b] -> "0" [] OTHER -> "1"

\* sign makes 0 of NaN, and equals does not.
Compare(a, b) == Rank[Difference(a, b)]
Equals(a, b)  == Difference(a, b) = "0"

MinOf(a, b) == IF Compare(a, b) <= 0 THEN a ELSE b
MaxOf(a, b) == IF Compare(a, b) >= 0 THEN a ELSE b
Clamp(low, high, v) == IF Compare(v, low) < 0 THEN low ELSE IF Compare(v, high) > 0 THEN high ELSE v
Between(low, high, v) == Compare(v, low) >= 0 /\ Compare(v, high) <= 0

-----------------------------------------------------------------------------

\* The chain up to a call: whether it was on the success side when the call was made.
OnTrack ==
  LET on[i \in 1..Len(trail)] ==
        IF i = 1 THEN TRUE
        ELSE LET was == trail[i - 1]
             IN  IF i = 2 THEN was.good
                 ELSE IF on[i - 1] THEN was.good \/ was.name = "or" ELSE was.good /\ was.name = "or"
  IN  on

\* In any chain of methods and conversions, the first failure ends the run of callbacks on
\* values, and only it lets those on errors run; the value is made of what succeeded, in
\* order; a Result keeps the first failure and a Validation those of every zip and ap too,
\* in the order of the calls, and unwrap throws exactly on the other side.
RailwaySound ==
  LET on == OnTrack
      steps_ == [i \in DOMAIN trail |-> i]
      onValues(i) == trail[i].name \in {"map", "flatMap", "tap", "filter"} \/ (trail[i].name = "ap" /\ trail[i].good)
      onErrors(i) == trail[i].name \in {"mapErr", "tapErr", "unwrapOrElse"}
      fails(i) == ~trail[i].good /\ trail[i].name # "or" /\
                    (on[i] \/ (carrier = "validation" /\ trail[i].name \in {"zip", "ap"}))
      converted == \E i \in DOMAIN trail : trail[i].name = "convert"
  IN  /\ ran = SelectSeq(steps_, LAMBDA i : IF on[i] THEN onValues(i) ELSE onErrors(i))
      /\ (~converted /\ carrier # "option" /\ ~subject.ok) =>
           [j \in DOMAIN subject.errors |-> Head(subject.errors[j])] = SelectSeq(steps_, fails)
      /\ subject.ok => (\A i, j \in DOMAIN subject.value : i < j => subject.value[i] < subject.value[j])
      /\ left # <<>> => /\ (left[1] = "value") <=> (subject.ok /\ Last(trail).name # "unwrapErr")
                        /\ (left[1] = "threw") <=> (Last(trail).name = IF subject.ok THEN "unwrapErr" ELSE "unwrap")

\* collect, traverse and partition agree: success of all the values or, of the failures
\* partition puts apart, the first for Results and all of them for Validations.
CollectAgrees ==
  LET results == CollectResults(gathered)
      validation == CollectValidations(gathered)
      apart == Partition(gathered)
  IN  /\ results.ok = validation.ok /\ results.ok = (apart.err = <<>>)
      /\ results.ok => results.value = apart.ok /\ validation.value = apart.ok
      /\ ~results.ok => validation.errors = FlattenSeq(apart.err) /\ results.errors = Head(apart.err)
      /\ \A c \in {"result", "validation"} :
           Traverse(c, gathered).answer = IF c = "result" THEN results ELSE validation
      /\ \A i \in 1..Traverse("result", gathered).calls - 1 : gathered[i].ok

\* The laws of optics, for compositions of lenses, optionals, prisms and isos: what was set
\* is found, setting what is found or nothing at all changes nothing, the last of two sets
\* stays, and optics of different properties do not disturb each other.
OpticsLawful ==
  LET three == Atom("three")
      top(o) == IF o.form = "then" THEN o.outer.key ELSE o.key
  IN \A o \in Optics :
       LET found == GetOption(o, source)
           set == SetThrough(o, three, source)
       IN  /\ Alike(ModifyThrough(o, source), IF found.found THEN SetThrough(o, Atom("two"), source) ELSE source)
           /\ found.found => /\ Alike(SetThrough(o, found.node, source), source)
                             /\ Alike(GetOption(o, set).node, three)
                             /\ Alike(SetThrough(o, three, SetThrough(o, Atom("two"), source)), set)
           /\ \A p \in Optics : top(o) # top(p) =>
                /\ GetOption(p, set).found = GetOption(p, source).found
                /\ Alike(GetOption(p, set).node, GetOption(p, source).node)

\* However flatMaps are nested, a State threads one state through its steps in order.
StateThreads ==
  LET nested[i \in 1..Len(binds) + 1] ==
        IF i > Len(binds) THEN [a \in States |-> Of(a)]
        ELSE [a \in States |-> FlatMap(Binder(binds[i])[a], nested[i + 1])]
      stepwise(s) == FoldLeft(LAMBDA r, b : Binder(b)[r[1]][r[2]], <<s, s>>, binds)
  IN  program = FlatMap(Get, nested[1]) /\ \A s \in States : program[s] = stepwise(s)

\* A match ends in the arm that was first to apply, later ones notwithstanding, and one
\* with an arm for each variant is exhaustive for what has a tag among them.
MatchFirst ==
  /\ TryMatch(matched, arms) = chosen
  /\ (Tags \subseteq UNION {arms[i].tags : i \in DOMAIN arms} /\ matched.kind = "object" /\ "tag" \in DOMAIN matched.at) => chosen # 0

\* Comparing is antisymmetric and total, infinities and NaN included; it is transitive, and
\* clamp stays within its bounds, only without NaN, which compares equal to everything.
OrdLawful ==
  LET numbers == Floats \ {"NaN"}
  IN  /\ \A a, b \in Floats : Compare(a, b) = -Compare(b, a) /\ (Equals(a, b) => Compare(a, b) = 0)
      /\ \A a, b, c \in numbers :
           /\ Compare(a, b) <= 0 /\ Compare(b, c) <= 0 => Compare(a, c) <= 0
           /\ Compare(a, b) <= 0 => Between(a, b, Clamp(a, b, c))
           /\ MinOf(a, b) = MinOf(b, a) /\ {MinOf(a, b), MaxOf(a, b)} = {a, b}
=============================================================================
