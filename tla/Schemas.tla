------------------------------ MODULE Schemas ------------------------------
(***************************************************************************)
(* The schemas of src/src/data/schema.ts, the codecs of codec.ts and the   *)
(* branded types over them (types/type-def.ts, types/runtime).  A schema   *)
(* is a tree, one form per combinator, and Parse what createSchema's       *)
(* closures do with an input.  Values are the nodes of Collections, of     *)
(* more kinds; texts and numbers are told apart by the predicates of the   *)
(* ready-made schemas alone.                                               *)
(***************************************************************************)
EXTENDS Collections

CONSTANTS
  SchemaNames,   \* the schemas and codecs of an instance
  Inputs         \* the nodes they are given, in a sequence

VARIABLES
  which,     \* the schema
  input,
  stage,     \* "given", "parsed", and then "marked" or "sent"
  answer,    \* what parse returned
  second     \* what unsafe, or decode of encode, returned for its value

schemaVars == <<which, input, stage, answer, second>>

-----------------------------------------------------------------------------
(* Values. *)

Texts   == {"", "x", "2026", "Some", "None", "Left", "Right"}
Numbers == {"-1", "0", "7", "1.5"}

\* typeof, with null and NaN apart.
TypeOf(n) ==
  CASE n.kind # "atom" -> "object"
    [] n.kind = "atom" /\ n.value \in Numbers -> "number"
    [] n.kind = "atom" /\ n.value \in {"true", "false"} -> "boolean"
    [] n.kind = "atom" /\ n.value \in {"undefined", "null", "NaN"} -> n.value
    [] OTHER -> "string"

Node(kind, at) == [kind |-> kind, value |-> "", at |-> at, frozen |-> FALSE]
Text(n)        == Atom(n)
IsArray(n)     == n.kind \in {"array", "list"}
IsRecord(n)    == TypeOf(n) = "object" /\ ~IsArray(n)

\* The immutables deepFreezeRaw leaves alone.
IsImmutable(n) == n.kind \in {"list", "hashMap", "record", "dateTime"}

\* The enumerable keys: a HashMap's are its own fields, not its entries.
Own(n) == IF n.kind # "hashMap" THEN n.at
          ELSE [root |-> IF DOMAIN n.at = {} THEN Undefined ELSE Node("object", <<>>), size |-> Atom("7")]

\* A frozen view of bytes cannot be: Object.freeze throws, and so does what called it.
RECURSIVE HoldsBytes(_)
HoldsBytes(n) == /\ n.kind # "atom" /\ ~n.frozen /\ ~IsImmutable(n)
                 /\ n.kind = "bytes" \/ \E k \in DOMAIN n.at : HoldsBytes(n.at[k])

-----------------------------------------------------------------------------
(* Results. *)

Ok(v) == [tag |-> "Ok", value |-> v, path |-> <<>>, expected |-> ""]
SchemaErr(path, expected) == [tag |-> "Err", value |-> Undefined, path |-> path, expected |-> expected]
Thrown == [SchemaErr(<<>>, "") EXCEPT !.tag = "threw"]

\* Seeded fault: the key goes to the end of the path.
AppendPath(r, key) == [r EXCEPT !.path = Append(@, key)]

PrependPath(r, key) == [r EXCEPT !.path = <<key>> \o @]

\* The loop of object, array, tuple and record: all values in order, or the first failure.
Each(n, Key(_), Answer(_)) ==
  FoldLeft(LAMBDA r, j :
             IF r.tag # "Ok" THEN r
             ELSE LET a == Answer(j)
                  IN  IF a.tag = "Ok" THEN Ok(Array(Append(r.value.at, a.value))) ELSE PrependPath(a, Key(j)),
           Ok(Array(<<>>)), [j \in 1..n |-> j])

Keyed(r, keys) ==
  IF r.tag # "Ok" THEN r
  ELSE Ok(Object([k \in ToSet(keys) |-> r.value.at[CHOOSE j \in DOMAIN keys : keys[j] = k]]))

Index(j) == ToString(j - 1)

\* What transform's functions return: composers freeze or wrap what was parsed.
Transformed(fn, v) ==
  CASE fn = "freeze"   -> IF HoldsBytes(v) THEN Thrown ELSE Ok(DeepFreeze(v))
    [] fn = "record"   -> IF HoldsBytes(v) THEN Thrown ELSE Ok([DeepFreeze(v) EXCEPT !.kind = "record"])
    [] fn = "some"     -> Ok(Node("some", [tag |-> Atom("Some"), value |-> v.at["value"]]))
    [] fn = "none"     -> Ok(Node("none", [tag |-> Atom("None")]))
    [] fn = "dateTime" -> Ok([Node("dateTime", <<>>) EXCEPT !.value = v.value])
    [] OTHER           -> Ok([v EXCEPT !.kind = fn])

-----------------------------------------------------------------------------
(* Schemas. *)

Typed(type)           == [form |-> "typed", type |-> type]
Guard(kinds)          == [form |-> "guard", kinds |-> kinds]
Literal(v)            == [form |-> "literal", value |-> v]
Enum(vs)              == [form |-> "enum", values |-> vs]
Refine(s, rejects)    == [form |-> "refine", of |-> s, rejects |-> rejects]
Transform(s, fn)      == [form |-> "transform", of |-> s, fn |-> fn]
Optional(s)           == [form |-> "optional", of |-> s]
Default(s, v)         == [form |-> "default", of |-> s, fallback |-> v]
ObjectOf(keys, ss)    == [form |-> "object", keys |-> keys, parts |-> ss]
ArrayOf(s)            == [form |-> "array", of |-> s]
Tuple(ss)           == [form |-> "tuple", parts |-> ss]
RecordOf(s, key)      == [form |-> "record", of |-> s, key |-> key]
Union(ss)             == [form |-> "union", parts |-> ss]
TaggedUnion(key, arms) == [form |-> "tagged", key |-> key, arms |-> arms]
Intersection(a, b)    == [form |-> "intersection", parts |-> <<a, b>>]
Lazy(name)            == [form |-> "lazy", name |-> name]

\* The ready-made predicates, by what they reject.
Fractional == {"1.5"}
Negative   == {"-1"}
EmptyText  == {""}
NotADate   == Texts \ {"2026"}

String == Typed("string")
Number == Typed("number")
IsNull == Guard({"null"})

\* types/runtime: the scalars and the composers.
WholeNumber        == Refine(Number, Fractional)
Natural       == Refine(WholeNumber, Negative)
Bytes      == Guard({"bytes"})
Vec(s)     == Transform(ArrayOf(s), "freeze")
Pair(a, b) == Transform(Tuple(<<a, b>>), "freeze")
Dict(k, s) == Transform(RecordOf(s, k), "freeze")
ListOf(s)  == Transform(ArrayOf(s), "list")
MapOf(k, s) == Transform(RecordOf(s, k), "hashMap")
Maybe(s) == Union(<<Transform(ObjectOf(<<"tag", "value">>, <<Literal("Some"), s>>), "some"),
                    Transform(ObjectOf(<<"tag">>, <<Literal("None")>>), "none"),
                    Transform(IsNull, "none"), Transform(Guard({"undefined"}), "none")>>)
Either(l, r) == Transform(Union(<<ObjectOf(<<"tag", "value">>, <<Literal("Left"), l>>),
                                  ObjectOf(<<"tag", "value">>, <<Literal("Right"), r>>)>>), "freeze")
Struct(keys, ss) == Transform(ObjectOf(keys, ss), "record")
DateTime == Union(<<Guard({"dateTime"}), Transform(Guard({"date"}), "dateTime"),
                    Transform(Refine(String, NotADate), "dateTime"), Transform(Number, "dateTime")>>)

\* The schema of a name, which a lazy one looks up as it parses.
SchemaOf(name) ==
  LET named == ObjectOf(<<"name", "age">>, <<Refine(String, EmptyText), Optional(WholeNumber)>>)
      arm(tag, s) == ObjectOf(<<"tag", "value">>, <<Literal(tag), s>>)
  IN CASE name = "Str" -> String
       [] name = "UInt" -> Natural
       [] name = "flag" -> Enum({"true", "0"})
       [] name = "user" -> ObjectOf(<<"name", "more">>, <<named, Default(ArrayOf(named), Array(<<>>))>>)
       [] name = "tuple" -> Tuple(<<String, WholeNumber>>)
       [] name = "record" -> RecordOf(WholeNumber, Refine(String, EmptyText))
       [] name = "shape" -> TaggedUnion("tag", [Left |-> arm("Left", String), Right |-> arm("Right", ArrayOf(WholeNumber))])
       [] name = "tree" -> ObjectOf(<<"value", "next">>, <<String, ArrayOf(Lazy("tree"))>>)
       [] name = "person" -> Intersection(ObjectOf(<<"value">>, <<String>>), ObjectOf(<<"name">>, <<WholeNumber>>))
       [] name = "text" -> Intersection(String, Refine(String, EmptyText))
       [] name = "date" -> Transform(Refine(String, NotADate), "date")
       [] name = "DateTime" -> DateTime
       [] name = "Vec" -> Vec(Maybe(String))
       [] name = "VecBytes" -> Vec(Bytes)
       [] name = "VecAny" -> Vec(Guard({"object"}))
       [] name = "Pair" -> Pair(Vec(WholeNumber), DateTime)
       [] name = "Dict" -> Dict(Refine(String, EmptyText), Vec(WholeNumber))
       [] name = "ListOf" -> ListOf(WholeNumber)
       [] name = "MapOf" -> MapOf(String, WholeNumber)
       [] name = "Maybe" -> Maybe(Vec(WholeNumber))
       [] name = "Either" -> Either(WholeNumber, ListOf(WholeNumber))
       [] name = "Struct" -> Struct(<<"tag", "value">>, <<String, MapOf(String, WholeNumber)>>)

RECURSIVE Parse(_, _)

ParseRefined(s, i) ==
  LET r == Parse(s.of, i)
  IN  IF r.tag # "Ok" \/ r.value.value \notin s.rejects THEN r ELSE SchemaErr(<<>>, "refinement")

ParseTransformed(s, i) ==
  LET r == Parse(s.of, i) IN IF r.tag = "Ok" THEN Transformed(s.fn, r.value) ELSE r

ParseObject(s, i) ==
  IF ~IsRecord(i) THEN SchemaErr(<<>>, "object")
  ELSE Keyed(Each(Len(s.keys), LAMBDA j : s.keys[j], LAMBDA j : Parse(s.parts[j], Child(i, s.keys[j]))), s.keys)

ParseArray(s, i) ==
  IF ~IsArray(i) THEN SchemaErr(<<>>, "array")
  ELSE Each(Len(i.at), Index, LAMBDA j : Parse(s.of, i.at[j]))

ParseTuple(s, i) ==
  IF ~IsArray(i) \/ Len(i.at) # Len(s.parts) THEN SchemaErr(<<>>, "tuple")
  ELSE Each(Len(i.at), Index, LAMBDA j : Parse(s.parts[j], i.at[j]))

\* The keys of an object come in some order.
ParseRecord(s, i) ==
  IF ~IsRecord(i) THEN SchemaErr(<<>>, "record")
  ELSE LET own == Own(i)
           keys == SetToSeq(DOMAIN own)
           entry(j) == LET k == Parse(s.key, Text(keys[j]))
                       IN  IF k.tag = "Ok" THEN Parse(s.of, own[keys[j]]) ELSE k
       IN  Keyed(Each(Len(keys), LAMBDA j : keys[j], entry), keys)

\* The first that accepts.
ParseUnion(s, i) ==
  LET answers == [j \in DOMAIN s.parts |-> Parse(s.parts[j], i)]
      first == SelectInSeq(answers, LAMBDA r : r.tag # "Err")
  IN  IF first = 0 THEN SchemaErr(<<>>, "union") ELSE answers[first]

\* An unknown tag, or none, is an error at the discriminant.
ParseTagged(s, i) ==
  IF ~IsRecord(i) THEN SchemaErr(<<>>, "object with discriminant")
  ELSE LET tag == Child(i, s.key)
       IN  IF TypeOf(tag) = "string" /\ tag.value \in DOMAIN s.arms THEN Parse(s.arms[tag.value], i)
           ELSE SchemaErr(<<s.key>>, "discriminant")

\* {...a, ...b}: a text is spread into its characters, and anything else but an object
\* into nothing.
Spread(a, b) ==
  LET fields(n) == IF TypeOf(n) = "string" /\ n.value # "" THEN [c \in {"0"} |-> n] ELSE n.at
  IN  Object([k \in DOMAIN fields(a) \cup DOMAIN fields(b) |->
                IF k \in DOMAIN fields(b) THEN fields(b)[k] ELSE fields(a)[k]])

ParseIntersection(s, i) ==
  LET a == Parse(s.parts[1], i)
      b == Parse(s.parts[2], i)
  IN  IF a.tag # "Ok" THEN a ELSE IF b.tag # "Ok" THEN b ELSE Ok(Spread(a.value, b.value))

Accept(holds, i, expected) == IF holds THEN Ok(i) ELSE SchemaErr(<<>>, expected)

\* optional and default answer for undefined, default for null too.
Parse(s, i) ==
  CASE s.form = "typed"        -> Accept(TypeOf(i) = s.type, i, s.type)
    [] s.form = "guard"        -> Accept(TypeOf(i) \in s.kinds \/ i.kind \in s.kinds, i, "guard")
    [] s.form = "literal"      -> Accept(i.kind = "atom" /\ i.value = s.value, i, "literal")
    [] s.form = "enum"         -> Accept(i.kind = "atom" /\ i.value \in s.values, i, "enum")
    [] s.form = "refine"       -> ParseRefined(s, i)
    [] s.form = "transform"    -> ParseTransformed(s, i)
    [] s.form = "optional"     -> IF i.value = "undefined" THEN Ok(i) ELSE Parse(s.of, i)
    [] s.form = "default"      -> IF i.value \in {"undefined", "null"} THEN Ok(s.fallback) ELSE Parse(s.of, i)
    [] s.form = "object"       -> ParseObject(s, i)
    [] s.form = "array"        -> ParseArray(s, i)
    [] s.form = "tuple"        -> ParseTuple(s, i)
    [] s.form = "record"       -> ParseRecord(s, i)
    [] s.form = "union"        -> ParseUnion(s, i)
    [] s.form = "tagged"       -> ParseTagged(s, i)
    [] s.form = "intersection" -> ParseIntersection(s, i)
    [] s.form = "lazy"         -> Parse(SchemaOf(s.name), i)

-----------------------------------------------------------------------------
(* Codecs. *)

\* string, number and boolean are a codec as they are a schema; pipe runs a second codec
\* on what the first decoded.
ListCodec(c)     == [form |-> "array", of |-> c]
FieldsCodec(keys, cs) == [form |-> "object", keys |-> keys, parts |-> cs]
Nullable(c)      == [form |-> "nullable", of |-> c]
Pipe(c, d)       == [form |-> "pipe", parts |-> <<c, d>>]
From(s, forth, back) == [form |-> "from", schema |-> s, forth |-> forth, back |-> back]

\* Decodes a text to a number of its own, and null to 0.
Count   == From(Union(<<String, IsNull>>), [v \in {"", "x", "null"} |-> CASE v = "" -> "-1" [] v = "x" -> "7" [] OTHER -> "0"],
                                           [v \in {"-1", "0", "7"} |-> CASE v = "-1" -> "" [] v = "7" -> "x" [] OTHER -> "null"])
\* Decodes a number to its negation.
Negated == From(WholeNumber, [v \in {"-1", "7"} |-> IF v = "7" THEN "-1" ELSE "7"], [v \in {"-1", "7"} |-> IF v = "7" THEN "-1" ELSE "7"])

CodecOf(name) ==
  CASE name = "counts" -> ListCodec(Nullable(Pipe(From(String, [v \in {"", "x"} |-> v], [v \in {"", "x"} |-> v]), Count)))
    [] name = "fields" -> FieldsCodec(<<"name", "value">>, <<String, ListCodec(Pipe(Count, Negated))>>)
    [] name = "nullCount" -> Nullable(Count)

CodecNames == {"counts", "fields", "nullCount"}

RECURSIVE Decode(_, _), Encode(_, _)

Decode(c, i) ==
  CASE c.form = "nullable" -> IF i.value = "null" THEN Ok(i) ELSE Decode(c.of, i)
    [] c.form = "pipe" -> LET r == Decode(c.parts[1], i) IN IF r.tag = "Ok" THEN Decode(c.parts[2], r.value) ELSE r
    [] c.form = "from" -> LET r == Parse(c.schema, i)
                          IN  IF r.tag # "Ok" THEN r
                              ELSE IF r.value.value \in DOMAIN c.forth THEN Ok(Atom(c.forth[r.value.value])) ELSE SchemaErr(<<>>, "from")
    [] c.form = "array" -> IF ~IsArray(i) THEN SchemaErr(<<>>, "array")
                           ELSE Each(Len(i.at), Index, LAMBDA j : Decode(c.of, i.at[j]))
    [] c.form = "object" -> IF ~IsRecord(i) THEN SchemaErr(<<>>, "object")
                            ELSE Keyed(Each(Len(c.keys), LAMBDA j : c.keys[j], LAMBDA j : Decode(c.parts[j], Child(i, c.keys[j]))), c.keys)
    [] OTHER -> Parse(c, i)

Encode(c, v) ==
  CASE c.form = "nullable" -> IF v.value = "null" THEN v ELSE Encode(c.of, v)
    [] c.form = "pipe" -> Encode(c.parts[1], Encode(c.parts[2], v))
    [] c.form = "from" -> Atom(c.back[v.value])
    [] c.form = "array" -> Array([j \in DOMAIN v.at |-> Encode(c.of, v.at[j])])
    [] c.form = "object" -> Object([k \in ToSet(c.keys) |->
                              Encode(c.parts[CHOOSE j \in DOMAIN c.keys : c.keys[j] = k], Child(v, k))])
    [] OTHER -> v

-----------------------------------------------------------------------------
(* A value parsed from outside, and what is done with it then. *)

SchemasInit ==
  /\ which \in SchemaNames
  /\ \E j \in DOMAIN Inputs : input = Inputs[j]
  /\ stage = "given" /\ answer = Thrown /\ second = Thrown

Read(i) == IF which \in CodecNames THEN Decode(CodecOf(which), i) ELSE Parse(SchemaOf(which), i)

ParseInput ==
  /\ stage = "given" /\ stage' = "parsed"
  /\ answer' = Read(input)
  /\ UNCHANGED <<which, input, second>>

\* unsafe, and new, of a value that parse returned; in production unsafe parses nothing.
Unsafe(production, v) == IF production THEN Ok(v) ELSE Read(v)

MarkParsed ==
  /\ stage = "parsed" /\ answer.tag = "Ok" /\ which \notin CodecNames
  /\ stage' = "marked"
  /\ \E production \in BOOLEAN : second' = Unsafe(production, answer.value)
  /\ UNCHANGED <<which, input, answer>>

SendParsed ==
  /\ stage = "parsed" /\ answer.tag = "Ok" /\ which \in CodecNames
  /\ stage' = "sent"
  /\ second' = Read(Encode(CodecOf(which), answer.value))
  /\ UNCHANGED <<which, input, answer>>

SchemasNext == ParseInput \/ MarkParsed \/ SendParsed

-----------------------------------------------------------------------------

Missing == Node("missing", <<>>)

RECURSIVE At(_, _)
At(n, path) ==
  IF path = <<>> THEN n
  ELSE LET keys == {k \in DOMAIN Own(n) : Head(path) = IF IsArray(n) THEN Index(k) ELSE k}
       IN  IF keys = {} THEN Missing ELSE At(Own(n)[CHOOSE k \in keys : TRUE], Tail(path))

\* The path of an error leads to what alone is enough to reject the input: every other
\* input with the same there, a missing key included, is rejected too, as long as the place
\* above it is there, and the arm of a tagged union the same.
PathsPinpoint ==
  (stage = "parsed" /\ answer.tag = "Err") =>
    \A j \in DOMAIN Inputs :
      LET same(path) == Alike(At(Inputs[j], path), At(input, path))
      IN  (/\ same(answer.path)
           /\ answer.path # <<>> => IsRecord(At(Inputs[j], Front(answer.path))) = IsRecord(At(input, Front(answer.path)))
           /\ which = "shape" => same(<<"tag">>))
          => Read(Inputs[j]).tag = "Err"

\* What a schema has returned it accepts, unchanged: unsafe does not throw in development
\* what it lets pass in production.  Not of a text that became a Date, of a HashMap, whose
\* keys are its fields, and of an intersection of texts, which is no text.
ParsedIsStable ==
  (stage = "marked" /\ which \notin {"date", "MapOf", "Struct", "text"}) =>
    second.tag = "Ok" /\ Alike(second.value, answer.value)

\* What was decoded is encoded to what decodes to it again, through nested codecs, pipes
\* that reverse their order and null, which nullable keeps from the codec within.
RoundTrips == stage = "sent" => second.tag = "Ok" /\ Alike(second.value, answer.value)

RECURSIVE DeepFrozen(_)
DeepFrozen(n) == n.kind = "atom" \/ IsImmutable(n) \/ (n.frozen /\ \A k \in DOMAIN n.at : DeepFrozen(n.at[k]))

RECURSIVE HalfFrozen(_)
HalfFrozen(n) == /\ n.kind # "atom"
                 /\ (n.frozen /\ ~DeepFrozen(n)) \/ \E k \in DOMAIN n.at : HalfFrozen(n.at[k])

\* The values of the freezing composers are frozen to the last leaf, and no parse throws;
\* but for what had frozen its top alone, and for bytes, which cannot be frozen.
ComposersFreeze ==
  /\ (stage = "parsed" /\ answer.tag = "Ok" /\ which \in {"Vec", "VecAny", "Pair", "Dict", "Either"}) =>
       HalfFrozen(input) \/ DeepFrozen(answer.value)
  /\ (stage # "given" /\ answer.tag = "threw") => HoldsBytes(input)

SchemasFaithful == PathsPinpoint /\ ParsedIsStable /\ RoundTrips /\ ComposersFreeze
=============================================================================
