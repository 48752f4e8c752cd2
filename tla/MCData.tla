------------------------------- MODULE MCData -------------------------------
(***************************************************************************)
(* Instances for TLC of the data structures, the schemas, the algebraic    *)
(* types, the wrappers around the terminal, the sockets and the            *)
(* cryptography of the platform, and its paths.  A behaviour is one of a   *)
(* single one of them, as part says.                                       *)
(***************************************************************************)
EXTENDS HashMap, Schemas, Algebra, Crypto, Terminal, Sockets, Values

VARIABLE part

vars == <<hashMapVars, vecVars, listVars, draftVars, accessVars, schemaVars,
          algebraVars, cryptoVars, terminalVars, socketVars, pathVars, valueVars, part>>

\* Two pairs of keys that collide, one of which shares its first part with the other.
MCHashOf == [k \in MapKey |-> CASE k \in {"k1", "k2"} -> <<0, 0>>
                                [] k \in {"k3", "k5"} -> <<1, 0>>
                                [] OTHER -> <<0, 1>>]

MCSchemaNames ==
  {"Str", "UInt", "flag", "user", "tuple", "record", "shape", "tree", "person", "text", "date",
   "DateTime", "Vec", "VecBytes", "VecAny", "Pair", "Dict", "ListOf", "MapOf", "Maybe", "Either",
   "Struct"} \cup CodecNames

\* Inputs that each schema accepts, and those that differ from one of them in one place.
A(v) == Atom(v)
Named(n, a) == Object([name |-> A(n), age |-> A(a)])
Tree(v, ns) == Object([value |-> A(v), next |-> Array(ns)])
Tagged(t, v) == Object([tag |-> A(t), value |-> v])

MCLeaves == <<"", "x", "2026", "Some", "-1", "0", "7", "1.5", "NaN", "true", "null", "undefined">>
MCArrays ==
  <<<<>>, <<A("x")>>, <<A("7")>>, <<A("x"), A("7")>>, <<A("7"), A("x")>>, <<A("null"), A("x")>>,
    <<A("x"), A("7"), A("7")>>, <<A("null"), A("")>>, <<Array(<<A("7")>>), A("2026")>>,
    <<Array(<<A("7"), A("x")>>), A("0")>>, <<Node("bytes", <<>>)>>, <<Object([x |-> A("x")])>>,
    <<[Object([x |-> Object([x |-> A("x")])]) EXCEPT !.frozen = TRUE]>>,
    <<Node("some", [tag |-> A("Some"), value |-> A("x")]), A("undefined")>>,
    <<Tagged("Some", A("x")), Object([tag |-> A("None")])>>>>
MCObjects ==
  <<Object(<<>>), Node("dateTime", <<>>), Node("date", <<>>),
    Object([name |-> Named("x", "7")]), Object([name |-> Named("", "7"), more |-> A("null")]),
    Object([name |-> Named("x", "undefined"), more |-> Array(<<Named("x", "0"), Named("x", "1.5")>>)]),
    Object([name |-> Named("x", "0"), more |-> Array(<<Named("x", "0"), Named("", "0")>>)]),
    Object([name |-> A("7"), value |-> A("x")]), Object([name |-> A("x"), value |-> A("x")]),
    Object([name |-> A("x"), value |-> Array(<<A("x"), A("")>>)]),
    Object([name |-> A("x"), value |-> Array(<<A("x"), A("null")>>)]),
    Object([x |-> A("7")]), Object([x |-> A("x")]), Object([x |-> Array(<<A("7")>>)]),
    Object([k \in {""} |-> A("7")]), Object([tag |-> A("x")]), Object([tag |-> A("None")]),
    Object([tag |-> A("7")]), Tagged("Left", A("x")), Tagged("Left", A("7")),
    Tagged("Right", Array(<<A("7")>>)), Tagged("Right", Array(<<A("7"), A("x")>>)),
    Tagged("Some", Array(<<A("7")>>)), Tagged("x", Object([x |-> A("7")])),
    Tree("x", <<>>), Tree("x", <<Tree("x", <<>>)>>), Tree("x", <<Tree("x", <<>>), Tree("7", <<>>)>>),
    Tree("x", <<Tree("x", <<>>), Tree("x", <<Tree("0", <<>>)>>)>>)>>
MCInputs == [j \in DOMAIN MCLeaves |-> A(MCLeaves[j])] \o [j \in DOMAIN MCArrays |-> Array(MCArrays[j])] \o MCObjects

Init ==
  /\ part \in {"map", "vec", "list", "draft", "access", "schema", "railway", "gather", "optics",
              "state", "match", "crypto", "terminal", "sockets", "paths"} \cup ValueKinds
  /\ HashMapInit /\ VecInit /\ ListInit /\ DraftInit /\ AccessInit /\ SocketsInit /\ ValuesInit
  /\ SchemasInit /\ (part # "schema" => which = "Str" /\ input = MCInputs[1])
  /\ RailwayInit /\ (part # "railway" => carrier = "result" /\ subject.ok)
  /\ OpticInit
  /\ part # "optics" => source.at["res"].at["tag"].value = "Err" /\ source.at["o"].kind = "atom"
  /\ gathered = <<>> /\ StateInit
  /\ MatchInit /\ (part # "match" => matched.kind = "atom")
  /\ CryptoInit /\ (part # "crypto" => algorithm = "HMAC")
  /\ TerminalInit /\ (part # "terminal" => tty)
  /\ PathsInit /\ (part # "paths" => platform = "posix")

Only(p) ==
  /\ part = p /\ UNCHANGED part
  /\ p # "map"     => UNCHANGED hashMapVars
  /\ p # "vec"     => UNCHANGED vecVars
  /\ p # "list"    => UNCHANGED listVars
  /\ p # "draft"   => UNCHANGED draftVars
  /\ p # "access"  => UNCHANGED accessVars
  /\ p # "schema"  => UNCHANGED schemaVars
  /\ p # "railway" => UNCHANGED railwayVars
  /\ p # "gather"  => UNCHANGED gathered
  /\ p # "optics"  => UNCHANGED opticVars
  /\ p # "state"   => UNCHANGED stateVars
  /\ p # "match"   => UNCHANGED matchVars
  /\ p # "crypto"  => UNCHANGED cryptoVars
  /\ p # "terminal" => UNCHANGED terminalVars
  /\ p # "sockets" => UNCHANGED socketVars
  /\ p # "paths"   => UNCHANGED pathVars
  /\ p \notin ValueKinds => UNCHANGED valueVars

Next ==
  \/ Only("map") /\ HashMapNext
  \/ Only("vec") /\ VecNext
  \/ Only("list") /\ ListNext
  \/ Only("draft") /\ DraftNext
  \/ Only("access") /\ AccessNext
  \/ Only("schema") /\ SchemasNext
  \/ Only("railway") /\ RailwayNext
  \/ Only("gather") /\ Gather
  \/ Only("optics") /\ OpticNext
  \/ Only("state") /\ BindStep
  \/ Only("match") /\ AddArm
  \/ Only("crypto") /\ CryptoNext
  \/ Only("terminal") /\ TerminalNext
  \/ Only("sockets") /\ SocketsNext
  \/ Only("paths") /\ PathsNext
  \/ \E kind \in ValueKinds : Only(kind) /\ ValuesStep(kind)

Spec == Init /\ [][Next]_vars

\* Schemas fail where the input is wrong and accept what they returned, and codecs
\* round-trip; the chains of methods, the collectors, the optics, State and the matches keep the laws
\* that their modules state, and numbers those of an order; and so do errors, command lines,
\* durations, instants, hexadecimal text and loggers; and paths are resolved as cd would.
ValuesLawful ==
  /\ SchemasFaithful
  /\ part = "railway" => RailwaySound
  /\ part = "gather" => CollectAgrees
  /\ part = "optics" => OpticsLawful
  /\ part = "state" => StateThreads
  /\ part = "match" => MatchFirst
  /\ OrdLawful
  /\ part = "errors" => ErrorsLawful
  /\ part = "args" => ArgsLawful
  /\ part = "durations" => DurationsLawful
  /\ part = "instants" => InstantsLawful
  /\ part = "hex" => HexLawful
  /\ part = "loggers" => LoggersLawful
  /\ part = "paths" => PathsLawful
=============================================================================
