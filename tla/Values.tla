------------------------------- MODULE Values -------------------------------
(***************************************************************************)
(* Errors with their causes (src/src/types/error.ts), durations and        *)
(* instants (types/duration.ts, types/runtime/date-time.ts), hexadecimal   *)
(* text (io/encoding.ts), command lines and configurations                 *)
(* (runtime/process.ts, config.ts), loggers (runtime/logger.ts), and at    *)
(* the end paths (runtime/platform.ts).                                    *)
(***************************************************************************)
EXTENDS Integers, Sequences, FiniteSets, SequencesExt, Folds

CONSTANTS
  MaxLinks,    \* bound on the causes of an error
  MaxArgs,     \* and on the words of a command line
  MaxSums,     \* on the sums that make a duration
  NsPerMs,     \* nanoseconds of a millisecond
  MaxInstant,  \* bound on the nanoseconds of an instant
  HexBase,     \* values of a digit
  MaxText,     \* bound on the characters of a text
  MaxLoggers   \* and on the loggers

ASSUME ValuesAssumption ==
  /\ {MaxLinks, MaxArgs, MaxSums, MaxInstant, MaxText, MaxLoggers} \subseteq Nat
  /\ NsPerMs \in Nat \ {0} /\ HexBase \in Nat \ {0, 1}

VARIABLES
  chain,           \* an error and its causes, the innermost last
  argv,            \* the words of a command line
  duration, sums,  \* milliseconds, and how many sums made them
  instant,         \* nanoseconds since the epoch
  hexText,
  loggers,         \* each with the one it comes from and what that was given
  logged           \* the records its sink was given

valueVars == <<chain, argv, duration, sums, instant, hexText, loggers, logged>>

-----------------------------------------------------------------------------
(* Errors.  A value is the sequence of its links: an instance of an        *)
(* ErrType, what its toJSON returned, an Error of JavaScript, the object   *)
(* toJSON makes of one, or another value.                                  *)

Link(form, tag, code, metadata) == [form |-> form, tag |-> tag, code |-> code, metadata |-> metadata]
Foreign(form) == Link(form, "", "", {})

\* "X" is given one code by one part of a program and another by another.
Constructors == {<<"X", "X">>, <<"X", "X_OLD">>, <<"Y", "Y">>}

\* isErrType does not ask for the brand.
IsErrType(e) == e[1].form \in {"instance", "json"}
IsOf(ctor, e) == IsErrType(e) /\ <<e[1].tag, e[1].code>> = ctor
HasTagOf(ctor, e) == e[1].tag = ctor[1]

\* Options with a cause, even an undefined one, have their metadata in a field, and the
\* rest of them is dropped; other options are the metadata.
NewError(ctor, options, causes) ==
  IF "cause" \in options
  THEN <<Link("instance", ctor[1], ctor[2], IF "metadata" \in options THEN {"m"} ELSE {})>> \o causes
  ELSE <<Link("instance", ctor[1], ctor[2], options)>>

RECURSIVE ToJSON(_)
ToJSON(e) ==
  LET causes == Tail(e)
  IN  <<[e[1] EXCEPT !.form = "json"]>> \o
        CASE causes # <<>> /\ causes[1].form = "instance" -> ToJSON(causes)
          [] causes # <<>> /\ causes[1].form = "error" -> <<Foreign("summary")>>
          [] OTHER -> causes

\* toString, and what a template makes of any other value.
RECURSIVE ToText(_)
ToText(e) ==
  IF e[1].form # "instance" THEN <<IF e[1].form = "error" THEN "Error" ELSE "[object Object]">>
  ELSE <<e[1].tag>> \o (IF Tail(e) = <<>> THEN <<>> ELSE ToText(Tail(e)))

OptionKeys == {{}, {"metadata", "id"}, {"cause"}, {"cause", "metadata", "id"}}

\* The caller throws, wraps what was thrown, or sends it as JSON.
ErrorStep ==
  \/ chain = <<>> /\ \E form \in {"error", "other"} : chain' = <<Foreign(form)>>
  \/ Len(chain) < MaxLinks /\ \E ctor \in Constructors, options \in OptionKeys :
       chain' = NewError(ctor, options, chain)
  \/ chain # <<>> /\ Len(chain) < MaxLinks /\ chain' = <<Foreign("error")>> \o chain
  \/ chain # <<>> /\ chain[1].form = "instance" /\ chain' = ToJSON(chain)

-----------------------------------------------------------------------------
(* Command lines and configurations.  A word that begins with two dashes   *)
(* has a key, and a value if it has a "=".                                 *)

Dashed(key, value) == [dashes |-> TRUE, text |-> key, value |-> value]
Word(text) == [dashes |-> FALSE, text |-> text, value |-> <<>>]
Words == {Dashed("a", <<>>), Dashed("b", <<>>), Dashed("", <<>>), Dashed("a", <<"1">>), Dashed("b", <<"">>), Word("x"), Word("y")}

Put1(result, key, value) == [k \in DOMAIN result \cup {key} |-> IF k = key THEN value ELSE result[k]]

\* A word that was taken for a value is passed over.
ParseArgv(words) ==
  LET step(s, i) ==
        CASE s.skip -> [s EXCEPT !.skip = FALSE]
          [] ~s.skip /\ ~words[i].dashes -> s
          [] ~s.skip /\ words[i].dashes /\ words[i].value # <<>> ->
               [s EXCEPT !.result = Put1(@, words[i].text, words[i].value[1])]
          [] OTHER ->
               IF i < Len(words) /\ ~words[i + 1].dashes
               THEN [result |-> Put1(s.result, words[i].text, words[i + 1].text), skip |-> TRUE]
               ELSE [s EXCEPT !.result = Put1(@, words[i].text, "true")]
  IN  FoldLeft(step, [result |-> <<>>, skip |-> FALSE], [i \in DOMAIN words |-> i]).result

\* The fields of a shape, with what their schemas accept and their defaults.
Shape == <<[key |-> "a", accepts |-> {"1", "x", "true"}, default |-> <<>>],
           [key |-> "b", accepts |-> {"x", ""}, default |-> <<"d">>],
           [key |-> "", accepts |-> {"y"}, default |-> <<"d">>]>>

\* The value a field's schema makes of what there is under its key.
FieldValue(field, given) ==
  CASE field.key \notin DOMAIN given -> field.default
    [] field.key \in DOMAIN given /\ given[field.key] \in field.accepts -> <<given[field.key]>>
    [] OTHER -> <<>>

\* loadConfig and parseArgs: up to the first field that fails.
LoadFields(shape, given) ==
  FoldLeft(LAMBDA loaded, field :
             IF loaded.failed # <<>> THEN loaded
             ELSE IF FieldValue(field, given) = <<>> THEN [loaded EXCEPT !.failed = <<field.key>>]
             ELSE [loaded EXCEPT !.values = Put1(@, field.key, FieldValue(field, given)[1])],
           [values |-> <<>>, failed |-> <<>>], shape)

ArgStep == Len(argv) < MaxArgs /\ \E w \in Words : argv' = Append(argv, w)

-----------------------------------------------------------------------------
(* Durations, in milliseconds. *)

UnitMs == <<86400000, 3600000, 60000, 1000, 1>>

Durations == {UnitMs[1], 999} \cup {n * UnitMs[u] : n \in {1, 2, 23, 59}, u \in 2..5}

AddDuration(a, b) == a + b
SubtractDuration(a, b) == a - b
MultiplyDuration(d, factor) == d * factor

DurationStep ==
  /\ sums < MaxSums /\ sums' = sums + 1
  /\ \/ \E d \in Durations : duration' \in {AddDuration(duration, d), SubtractDuration(duration, d)}
     \/ duration' = MultiplyDuration(duration, -2)

\* How much of each unit, the largest first; what there is none of is left out.
FormatDuration(ms) ==
  LET abs == IF ms < 0 THEN -ms ELSE ms
      amount(u) == (IF u = 1 THEN abs ELSE abs % UnitMs[u - 1]) \div UnitMs[u]
      part(u) == [amount |-> amount(u), unit |-> u]
  IN  [minus |-> ms < 0,
       parts |-> IF abs = 0 THEN <<[amount |-> 0, unit |-> 5]>>
                 ELSE SelectSeq([u \in 1..5 |-> part(u)], LAMBDA p : p.amount > 0)]

-----------------------------------------------------------------------------
(* Instants. *)

\* Math.trunc, and the division of a bigint: towards zero.
Truncated(n) == IF n < 0 THEN -((-n) \div NsPerMs) ELSE n \div NsPerMs

\* The milliseconds are given in fractions as fine as a nanosecond.
FromEpochMillis(fraction) == Truncated(fraction) * NsPerMs
ToEpochMillis(x) == Truncated(x)
Plus(x, d)  == x + d * NsPerMs
Minus(x, d) == x - d * NsPerMs
CompareInstants(x, y) == CASE x < y -> -1 [] x > y -> 1 [] OTHER -> 0

Instants == -MaxInstant..MaxInstant

InstantStep ==
  /\ instant' \in UNION {{Plus(instant, d), Minus(instant, d)} : d \in -2..2}
                  \cup {FromEpochMillis(n) : n \in Instants} \cup {ToEpochMillis(instant) * NsPerMs} \cup Instants
  /\ instant' \in Instants

-----------------------------------------------------------------------------
(* Hexadecimal text.  A character is a digit, a capital for one of the     *)
(* last two, or none.                                                      *)

Characters == -1..HexBase + 1
NoDigit(c) == c < 0
DigitOf(c) == IF c >= HexBase THEN c - 2 ELSE c

HexEncode(bytes) == FoldLeft(LAMBDA text, b : text \o <<b \div HexBase, b % HexBase>>, <<>>, bytes)

\* The position at which it failed, or the bytes.
HexDecode(text) ==
  LET bad == {i \in 1..Len(text) \div 2 : NoDigit(text[2 * i - 1]) \/ NoDigit(text[2 * i])}
  IN  CASE Len(text) % 2 # 0 -> [ok |-> FALSE, bytes |-> <<>>, position |-> -1]
        [] Len(text) % 2 = 0 /\ bad # {} ->
             [ok |-> FALSE, bytes |-> <<>>, position |-> 2 * (CHOOSE i \in bad : \A j \in bad : i <= j) - 2]
        [] OTHER -> [ok |-> TRUE, position |-> -1,
                     bytes |-> [i \in 1..Len(text) \div 2 |-> DigitOf(text[2 * i - 1]) * HexBase + DigitOf(text[2 * i])]]

HexStep == Len(hexText) < MaxText /\ \E c \in Characters : hexText' = Append(hexText, c)

-----------------------------------------------------------------------------
(* Loggers.  A level is its number. *)

MinLevel == 1
Spreads(base, context) == [k \in DOMAIN base \cup DOMAIN context |-> IF k \in DOMAIN context THEN context[k] ELSE base[k]]

Contexts == {[k \in {"id"} |-> 1], [k \in {"id"} |-> 2], [k \in {"user"} |-> 1], [k \in {"id", "user"} |-> 2]}

\* child and named keep what the logger has and is not given anew.
DeriveLogger ==
  /\ Len(loggers) < MaxLoggers
  /\ \E i \in DOMAIN loggers :
       \/ \E given \in Contexts :
            loggers' = Append(loggers, [loggers[i] EXCEPT !.context = Spreads(@, given), !.parent = i, !.given = given])
       \/ loggers' = Append(loggers, [loggers[i] EXCEPT !.name = "named", !.parent = i, !.given = <<>>])
  /\ UNCHANGED logged

\* Only a record of the level or above is merged and given to the sink.
LogRecord ==
  /\ \E i \in DOMAIN loggers, level \in 0..3, given \in {<<>>} \cup Contexts :
       /\ level >= MinLevel
       /\ logged' = <<[level |-> level, name |-> loggers[i].name, by |-> i, given |-> given,
                       context |-> Spreads(loggers[i].context, given)]>>
  /\ UNCHANGED loggers

-----------------------------------------------------------------------------

ValuesInit ==
  /\ chain = <<>> /\ argv = <<>> /\ duration = 0 /\ sums = 0 /\ instant = 0 /\ hexText = <<>>
  /\ LET context == [k \in {"id"} |-> 0]
     IN  loggers = <<[name |-> "root", context |-> context, parent |-> 0, given |-> context]>>
  /\ logged = <<>>

\* A program does with each kind of value what it likes; they have nothing in common.
ValuesStep(kind) ==
  \/ kind = "errors" /\ ErrorStep /\ UNCHANGED <<argv, duration, sums, instant, hexText, loggers, logged>>
  \/ kind = "args" /\ ArgStep /\ UNCHANGED <<chain, duration, sums, instant, hexText, loggers, logged>>
  \/ kind = "durations" /\ DurationStep /\ UNCHANGED <<chain, argv, instant, hexText, loggers, logged>>
  \/ kind = "instants" /\ InstantStep /\ UNCHANGED <<chain, argv, duration, sums, hexText, loggers, logged>>
  \/ kind = "hex" /\ HexStep /\ UNCHANGED <<chain, argv, duration, sums, instant, loggers, logged>>
  \/ kind = "loggers" /\ (DeriveLogger \/ LogRecord) /\ UNCHANGED <<chain, argv, duration, sums, instant, hexText>>

ValueKinds == {"errors", "args", "durations", "instants", "hex", "loggers"}

ValuesNext == \E kind \in ValueKinds : ValuesStep(kind)

-----------------------------------------------------------------------------

\* However errors are wrapped, sent as JSON and wrapped again: JSON has every link down to
\* the first Error of JavaScript, whose own cause is lost, and text down to the first that
\* is no instance; a cause may have been JSON before without a difference; and the guards
\* know an error by its JSON.
ErrorsLawful ==
  (chain # <<>> /\ chain[1].form = "instance") =>
    LET json == ToJSON(chain)
        end == SelectInSeq(chain, LAMBDA l : l.form # "instance")
        kept == IF end # 0 /\ chain[end].form # "error" THEN Len(chain) ELSE IF end = 0 THEN Len(chain) ELSE end
    IN  /\ Len(json) = kept
        /\ \A i \in 1..kept :
             json[i] = [chain[i] EXCEPT !.form = CASE @ = "instance" -> "json" [] @ = "error" /\ i = end -> "summary" [] OTHER -> @]
        /\ Len(ToText(chain)) = IF end = 0 THEN Len(chain) ELSE end
        /\ chain[1].tag = ToText(chain)[1]
        /\ \A ctor \in Constructors :
             /\ IsOf(ctor, chain) = IsOf(ctor, json) /\ (IsOf(ctor, chain) => HasTagOf(ctor, chain))
             /\ ToJSON(NewError(ctor, {"cause"}, chain)) = ToJSON(NewError(ctor, {"cause"}, json))

\* A key has what its last mention gives it: what follows "=", or the next word if that has
\* no dashes, or "true"; whatever was taken for a value before.  Loading answers with the
\* values of all fields if none fails, and otherwise with one that does.
ArgsLawful ==
  LET of(k) == {i \in DOMAIN argv : argv[i].dashes /\ argv[i].text = k}
      last(k) == CHOOSE i \in of(k) : \A j \in of(k) : j <= i
      given(i) == CASE argv[i].value # <<>> -> argv[i].value[1]
                    [] argv[i].value = <<>> /\ i < Len(argv) /\ ~argv[i + 1].dashes -> argv[i + 1].text
                    [] OTHER -> "true"
      result == ParseArgv(argv)
      loaded == LoadFields(Shape, result)
      fails(f) == IF Shape[f].key \in DOMAIN result THEN result[Shape[f].key] \notin Shape[f].accepts
                  ELSE Shape[f].default = <<>>
  IN  /\ DOMAIN result = {k \in {"a", "b", ""} : of(k) # {}}
      /\ \A k \in DOMAIN result : result[k] = given(last(k))
      /\ IF \A f \in DOMAIN Shape : ~fails(f)
         THEN loaded.failed = <<>> /\ DOMAIN loaded.values = {Shape[f].key : f \in DOMAIN Shape}
         ELSE \E f \in DOMAIN Shape : fails(f) /\ loaded.failed = <<Shape[f].key>>

\* The text of a duration adds up to it, and has no unit that a larger one could hold.
DurationsLawful ==
  LET text == FormatDuration(duration)
      total == FoldLeft(LAMBDA n, p : n + p.amount * UnitMs[p.unit], 0, text.parts)
  IN  /\ (IF text.minus THEN -total ELSE total) = duration
      /\ \A i \in DOMAIN text.parts :
           LET p == text.parts[i]
           IN  /\ p.unit > 1 => p.amount * UnitMs[p.unit] < UnitMs[p.unit - 1]
               /\ i > 1 => text.parts[i - 1].unit < p.unit
               /\ p.amount = 0 => duration = 0

\* What is added can be taken off again and keeps the order; milliseconds keep it too, and
\* are off by less than one, towards the epoch, so that they move along with an instant only
\* as long as it does not pass the epoch.
InstantsLawful ==
  /\ \A d \in -2..2, y \in Instants :
       /\ Minus(Plus(instant, d), d) = instant
       /\ CompareInstants(Plus(instant, d), Plus(y, d)) = CompareInstants(instant, y)
       /\ CompareInstants(instant, y) <= 0 => ToEpochMillis(instant) <= ToEpochMillis(y)
       /\ (instant >= 0) = (Plus(instant, d) >= 0) => ToEpochMillis(Plus(instant, d)) = ToEpochMillis(instant) + d
  /\ LET back == FromEpochMillis(instant)
     IN  /\ back - instant < NsPerMs /\ instant - back < NsPerMs
         /\ IF instant < 0 THEN instant <= back /\ back <= 0 ELSE 0 <= back /\ back <= instant

\* Text of an even length, all digits, is that of its bytes, but for capitals; any other is
\* refused, at its first bad pair.
HexLawful ==
  LET read == HexDecode(hexText)
  IN  /\ read.ok <=> Len(hexText) % 2 = 0 /\ \A i \in DOMAIN hexText : ~NoDigit(hexText[i])
      /\ read.ok => /\ HexEncode(read.bytes) = [i \in DOMAIN hexText |-> DigitOf(hexText[i])]
                    /\ HexDecode(HexEncode(read.bytes)) = read
      /\ read.position >= 0 =>
           LET bad == SelectInSeq(hexText, NoDigit) IN read.position = bad - 1 - ((bad - 1) % 2)

\* A record has what was given nearest to it: with itself, to its logger, or to the nearest
\* of those its logger comes from; loggers made from the same one do not see each other's.
LoggersLawful ==
  LET near(k) ==
        LET from[i \in 0..Len(loggers)] ==
              IF i = 0 THEN <<>>
              ELSE IF k \in DOMAIN loggers[i].given THEN <<loggers[i].given[k]>> ELSE from[loggers[i].parent]
        IN  from
      has(context, k) == IF k \in DOMAIN context THEN <<context[k]>> ELSE <<>>
  IN  \A k \in {"id", "user"} :
        /\ \A i \in DOMAIN loggers : has(loggers[i].context, k) = near(k)[i]
        /\ \A r \in ToSet(logged) : has(r.context, k) = IF k \in DOMAIN r.given THEN <<r.given[k]>> ELSE near(k)[r.by]

-----------------------------------------------------------------------------
(***************************************************************************)
(* Path of src/src/runtime/platform.ts.  The text of a path is the         *)
(* sequence of its names and separators: "/", "\\", "." and "..", "C:" for *)
(* a drive, and names, no two of which follow each other.                  *)
(***************************************************************************)

CONSTANTS
  Names,       \* names of files and directories
  MaxTokens    \* bound on the names and separators of a path

ASSUME PathAssumption == MaxTokens \in Nat /\ {"/", "\\", ".", "..", "C:"} \cap Names = {}

VARIABLES
  platform,    \* "posix" or "windows"
  path, other  \* two paths

pathVars == <<platform, path, other>>

Slashes == {"/", "\\"}
Tokens  == Slashes \cup {".", "..", "C:"} \cup Names

\* A drive is only ever first.
IsPathText(text) ==
  \A i \in DOMAIN text :
    /\ i > 1 => (text[i] \in Slashes \/ text[i - 1] \in Slashes) /\ text[i] # "C:"
    /\ text[i] = "C:" => platform = "windows"

Separator == IF platform = "windows" THEN "\\" ELSE "/"

\* process.cwd()
Cwd == IF platform = "windows" THEN <<"C:", "\\", "w">> ELSE <<"/", "w">>

-----------------------------------------------------------------------------

ToForwardSlash(text) == [i \in DOMAIN text |-> IF text[i] = "\\" THEN "/" ELSE text[i]]
ToNative(text) == [i \in DOMAIN text |-> IF text[i] = "/" THEN Separator ELSE text[i]]

SplitSegments(text) == SelectSeq(text, LAMBDA t : t \notin Slashes)

JoinBy(segments, sep) ==
  FoldLeft(LAMBDA text, s : IF text = <<>> THEN <<s>> ELSE text \o <<sep, s>>, <<>>, segments)

BeginsWithSlash(text) == text # <<>> /\ Head(text) \in Slashes

\* One separator between two segments, and none at the end but that of the root.
NormalizeSlashes(text, sep) ==
  (IF BeginsWithSlash(text) THEN <<sep>> ELSE <<>>) \o JoinBy(SplitSegments(text), sep)
Normalize(text) == NormalizeSlashes(text, Separator)

Join(texts) ==
  Normalize(FoldLeft(LAMBDA joined, t : IF joined = <<>> THEN t ELSE joined \o <<Separator>> \o t,
                     <<>>, SelectSeq(texts, LAMBDA t : t # <<>>)))

LastSlash(text) == SelectLastInSeq(text, LAMBDA t : t \in Slashes)

Basename(text) == SubSeq(text, LastSlash(text) + 1, Len(text))

Dirname(text) ==
  CASE LastSlash(text) = 0 -> <<".">>
    [] LastSlash(text) = 1 -> <<"/">>
    [] OTHER -> ToNative(ToForwardSlash(SubSeq(text, 1, LastSlash(text) - 1)))

IsDrive(text) == platform = "windows" /\ Len(text) > 1 /\ text[1] = "C:" /\ text[2] \in Slashes

IsAbsolute(text) ==
  \/ text # <<>> /\ text[1] = "/"
  \/ IsDrive(text)
  \/ platform = "windows" /\ Len(text) > 1 /\ text[1] = "\\" /\ text[2] = "\\"

\* parse: the root; dir and base are those above.
Root(text) ==
  CASE BeginsWithSlash(text) -> <<Separator>>
    [] IsDrive(text) -> <<"C:", "\\">>
    [] OTHER -> <<>>

\* A ".." takes the name before it away, stays where there is none, or is dropped at the root.
ProcessDotSegment(resolved, segment, absolute) ==
  CASE segment = "." -> resolved
    [] segment = ".." /\ resolved # <<>> /\ Last(resolved) # ".." -> Front(resolved)
    [] segment = ".." /\ (resolved = <<>> \/ Last(resolved) = "..") ->
         IF absolute THEN resolved ELSE Append(resolved, "..")
    [] OTHER -> Append(resolved, segment)

FormatResolved(segments, sep, absolute) ==
  CASE absolute -> <<sep>> \o JoinBy(segments, sep)
    [] ~absolute /\ segments = <<>> -> <<".">>
    [] OTHER -> JoinBy(segments, sep)

ResolveDotSegments(text, sep) ==
  LET absolute == BeginsWithSlash(text)
      step(resolved, segment) == ProcessDotSegment(resolved, segment, absolute)
  IN  FormatResolved(FoldLeft(step, <<>>, SplitSegments(text)), sep, absolute)

\* From the last text that is absolute on, or from the working directory.
Resolve(texts) ==
  LET start == SelectLastInSeq(texts, LAMBDA t : IsAbsolute(t))
      taken == SelectSeq(SubSeq(texts, IF start = 0 THEN 1 ELSE start, Len(texts)), LAMBDA t : t # <<>>)
      whole == FoldLeft(LAMBDA text, t : IF text = <<>> THEN t ELSE text \o <<"/">> \o t, <<>>, taken)
  IN  ResolveDotSegments(Normalize(IF start = 0 THEN Cwd \o <<"/">> \o whole ELSE whole), Separator)

Relative(from, to) ==
  LET segments(text) == SplitSegments(ResolveDotSegments(NormalizeSlashes(text, "/"), "/"))
      common == Len(LongestCommonPrefix({segments(from), segments(to)}))
      parts == [i \in 1..Len(segments(from)) - common |-> ".."] \o SubSeq(segments(to), common + 1, Len(segments(to)))
  IN  IF parts = <<>> THEN <<".">> ELSE JoinBy(parts, Separator)

-----------------------------------------------------------------------------

PathsInit == platform \in {"posix", "windows"} /\ path = <<>> /\ other = <<>>

PathsNext ==
  /\ \E t \in Tokens :
       \/ Len(path) < MaxTokens /\ path' = Append(path, t) /\ IsPathText(path') /\ UNCHANGED other
       \/ Len(other) < MaxTokens /\ other' = Append(other, t) /\ IsPathText(other') /\ UNCHANGED path
  /\ UNCHANGED platform

PathsSpec == PathsInit /\ [][PathsNext]_pathVars

-----------------------------------------------------------------------------

\* The directory one is in after cd to each of the texts in turn: what was before an
\* absolute one is forgotten, and the root has no parent.
Cd(dir, text) ==
  FoldLeft(LAMBDA d, s : CASE s = "." -> d [] s = ".." -> (IF d = <<>> THEN d ELSE Front(d)) [] OTHER -> Append(d, s),
           IF IsAbsolute(text) THEN <<>> ELSE dir, SplitSegments(text))
WhereTo(texts) == FoldLeft(Cd, SplitSegments(Cwd), texts)

\* A backslash in front is none of POSIX: isAbsolute takes it for a name, the rest for a root.
Plain(text) == platform = "posix" /\ (text # <<>> => text[1] # "\\")

\* Below the working directory: relative takes a "." or ".." that is left in its first path
\* for a name.
Below(text) == {".", ".."} \cap Range(ResolveDotSegments(text, "/")) = {}

\* resolve is a cd through its arguments, if no ".." meets a drive, which would go like any
\* name; dirname and basename together are the path, join
\* does not care how its arguments are grouped, and relative leads from the one path to the
\* other if both are absolute, or neither is and the first leads below the working directory.
PathsLawful ==
  /\ Normalize(Normalize(path)) = Normalize(path)
  /\ Join(<<Join(<<path, other>>), <<"a">>>>) = Join(<<path, Join(<<other, <<"a">>>>)>>)
  /\ (platform = "windows" => ".." \notin Range(path \o other) /\ other # <<"C:">>) =>
       LET at == WhereTo(<<path, other>>)
           root == IF at # <<>> /\ at[1] = "C:" THEN <<>> ELSE <<Separator>>
       IN  Resolve(<<path, other>>) = root \o JoinBy(at, Separator)
  /\ Plain(path) => Resolve(<<Dirname(path), Basename(path)>>) = Resolve(<<path>>)
  /\ Plain(path) => (Root(path) # <<>> <=> IsAbsolute(path)) /\ IsAbsolute(Resolve(<<path>>))
  /\ (Plain(path) /\ Plain(other) /\ Below(path) /\ (IsAbsolute(path) <=> IsAbsolute(other))) =>
       Resolve(<<path, Relative(path, other)>>) = Resolve(<<other>>)
=============================================================================
