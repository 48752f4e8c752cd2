------------------------------ MODULE Terminal ------------------------------
(***************************************************************************)
(* readLine, readPassword, confirm and readAll of src/src/io/terminal.ts   *)
(* over the stdin adapter of src/src/runtime/adapters/stdin.ts, called one *)
(* after the other.  A call that timed out is over for its caller, but its *)
(* readline interface, or its listener on "data", stays on stdin: such an  *)
(* interface still puts a terminal in raw mode, writes the keys of a later *)
(* password as they are, and pauses stdin when it is closed.               *)
(*                                                                         *)
(* On a terminal stdin gives keys, and what an "enter" ends is a line; a   *)
(* pipe gives chunks of whole lines, which are known by their numbers.     *)
(***************************************************************************)
EXTENDS Naturals, Sequences, SequencesExt, FiniteSets

CONSTANTS
  MaxAsked,  \* bound on the calls
  MaxKeys,   \* bound on the keys pressed
  MaxLines   \* the lines of a pipe

ASSUME TerminalAssumption == {MaxAsked, MaxKeys, MaxLines} \subseteq Nat

VARIABLES
  tty,         \* stdin is a terminal
  rawMode,     \* keys are given as they are pressed, and are not echoed
  flowing,     \* stdin is not paused
  inputEnded,
  asked,       \* how many calls there were
  call,        \* the call that runs, "none" of its own kind between two of them
  readTimer,   \* the timer of the read that runs
  listeners,   \* of readPassword: whose, and the characters so far
  interfaces,  \* the calls whose readline interface is open
  pressed,     \* how many keys were pressed
  nextLine     \* the next line of the pipe

\* History: the keys of the last call, the answers to its question, the asterisks written on
\* the screen's last line and not taken back, the characters of the last password that were
\* written as they are, the lines answered, those nobody got, and the last call's answer.
VARIABLES keys, replies, stars, echoed, handed, lost, told

terminalVars == <<tty, rawMode, flowing, inputEnded, asked, call, readTimer, listeners, interfaces,
                  pressed, nextLine, keys, replies, stars, echoed, handed, lost, told>>

Kinds == {"line", "password", "confirm", "readAll"}
Presses == {"text", "delete", "enter", "abort", "eof", "other"}
NoCall == [kind |-> "none", timed |-> FALSE, text |-> <<>>]

Got(form, text) == [form |-> form, text |-> text]
Nobody == Got("none", <<>>)

TerminalInit ==
  /\ tty \in BOOLEAN
  /\ rawMode = FALSE /\ flowing = FALSE /\ inputEnded = FALSE
  /\ asked = 0 /\ call = NoCall /\ readTimer = FALSE /\ listeners = {} /\ interfaces = {}
  /\ pressed = 0 /\ nextLine = 1
  /\ keys = <<>> /\ replies = <<>> /\ stars = 0 /\ echoed = {} /\ handed = <<>> /\ lost = {}
  /\ told = [kind |-> "none", answer |-> Nobody]

TerminalTypeOK ==
  /\ {tty, rawMode, flowing, inputEnded, readTimer} \subseteq BOOLEAN
  /\ asked \in 0..MaxAsked /\ pressed \in 0..MaxKeys /\ nextLine \in 1..MaxLines + 1
  /\ call.kind \in Kinds \cup {"none"} /\ interfaces \subseteq 1..asked
  /\ \A l \in listeners : l.owner \in 1..asked /\ l.chars \in Seq(1..MaxKeys)

Tells(kind, answer) ==
  /\ told' = [kind |-> kind, answer |-> answer]
  /\ handed' = IF kind \in {"line", "readAll"} /\ ~tty THEN handed \o answer.text ELSE handed

\* The promise of the call that runs is settled, and its timer cleared.
Settles(answer) == Tells(call.kind, answer) /\ call' = NoCall /\ readTimer' = FALSE
Goes == UNCHANGED <<told, handed, call, readTimer>>

-----------------------------------------------------------------------------
(* The calls. *)

Begins == asked < MaxAsked /\ call = NoCall /\ asked' = asked + 1 /\ keys' = <<>> /\ replies' = <<>>

ReadBegins(kind, timed) ==
  /\ call' = [kind |-> kind, timed |-> timed, text |-> <<>>] /\ readTimer' = timed /\ flowing' = TRUE
  /\ UNCHANGED <<told, handed>>

\* Without a terminal there is no raw mode; switching to it may throw too.
ReadPassword(timed) ==
  /\ Begins
  /\ \/ Tells("password", Got("error", <<>>)) /\ UNCHANGED <<call, readTimer, rawMode, flowing, listeners, stars, echoed>>
     \/ /\ tty /\ ReadBegins("password", timed)
        /\ rawMode' = TRUE /\ stars' = 0 /\ echoed' = {}
        /\ listeners' = listeners \cup {[owner |-> asked', chars |-> <<>>]}
  /\ UNCHANGED <<tty, inputEnded, interfaces, pressed, nextLine, lost>>

\* readLine, and the first one of confirm.  An interface on a terminal takes it raw.
ReadTerminalLine(kind, timed) ==
  /\ ~inputEnded /\ Begins /\ ReadBegins(kind, timed)
  /\ interfaces' = interfaces \cup {asked'} /\ rawMode' = tty
  /\ UNCHANGED <<tty, inputEnded, listeners, pressed, nextLine, stars, echoed, lost>>

ReadAll ==
  /\ ~inputEnded /\ Begins
  /\ IF tty THEN Tells("readAll", Got("some", <<>>)) /\ UNCHANGED <<call, readTimer, flowing>>
            ELSE ReadBegins("readAll", FALSE)
  /\ UNCHANGED <<tty, rawMode, inputEnded, listeners, interfaces, pressed, nextLine, stars, echoed, lost>>

-----------------------------------------------------------------------------
(* Keys. *)

\* A character is known by the number of its key.
Struck(chars, key) ==
  IF key = "text" THEN Append(chars, pressed')
  ELSE IF key = "delete" /\ chars # <<>> THEN Front(chars) ELSE chars

Ends(key) == key \in {"enter", "abort", "eof"}

\* Seeded fault: the end of the input is an answer though nothing was typed.
PasswordAtEnd(chars, key) == IF key \in {"enter", "eof"} THEN Got("some", chars) ELSE Nobody

\* What a password is after its last key.
Password(chars, key) ==
  IF key = "enter" \/ (key = "eof" /\ chars # <<>>) THEN Got("some", chars) ELSE Nobody

\* Every listener writes an asterisk, takes one back or begins a new line; an interface
\* that is open writes the character itself.
Shown(key) ==
  IF Ends(key) /\ listeners # {} THEN 0
  ELSE stars + Cardinality({l \in listeners : key = "text"})
             - Cardinality({l \in listeners : key = "delete" /\ l.chars # <<>>})
Echoed(key) == IF key = "text" /\ interfaces # {} THEN echoed \cup {pressed'} ELSE echoed

\* Question(reply) is what a line answers: readLine has it, and confirm is content with yes
\* or no, asks again, and only of a pipe takes anything else for a no.
Question(reply, n) ==
  \/ call.kind = "line" /\ interfaces' = {} /\ Settles(Got("some", <<n>>))
  \/ /\ call.kind = "confirm" /\ (reply # "other" \/ ~tty) /\ interfaces' = {}
     /\ Settles(Got(IF reply = "yes" THEN "true" ELSE "false", <<>>))
  \/ /\ call.kind = "confirm" /\ reply = "other" /\ tty /\ interfaces' = {asked}
     /\ readTimer' = call.timed /\ UNCHANGED <<told, handed, call>>
  \/ call.kind \notin {"line", "confirm"} /\ interfaces' = {} /\ Goes

\* No line: the end of the input.
NoLine == Settles(IF call.kind = "confirm" THEN Got("false", <<>>) ELSE Nobody)

\* The interfaces that a key may leave open: "eof" ends one that has no text, and so those
\* that were opened after it.
StillOpen(key) ==
  IF key = "eof" THEN {{i \in interfaces : i < n} : n \in interfaces \cup {asked + 1}}
  ELSE IF Ends(key) THEN {{}} ELSE {interfaces}

\* An interface that is closed pauses stdin and ends the raw mode, and one that is opened
\* resumes and begins them.
PasswordKey(key) ==
  /\ call.kind = "password" /\ UNCHANGED replies /\ echoed' = Echoed(key)
  /\ listeners' = IF Ends(key) THEN {} ELSE {[l EXCEPT !.chars = Struck(l.chars, key)] : l \in listeners}
  /\ interfaces' \in StillOpen(key)
  /\ IF Ends(key)
     THEN /\ \E l \in listeners : l.owner = asked /\ Settles(Password(l.chars, key))
          /\ rawMode' = FALSE /\ flowing' = FALSE
     ELSE Goes /\ UNCHANGED <<rawMode, flowing>>

LineKey(key) ==
  /\ call.kind # "password" /\ interfaces # {}
  /\ listeners' = IF Ends(key) THEN {} ELSE {[l EXCEPT !.chars = Struck(l.chars, key)] : l \in listeners}
  /\ \/ /\ key = "enter"
        /\ \E reply \in {"yes", "no", "other"} :
             replies' = Append(replies, reply) /\ Question(reply, pressed')
        /\ flowing' = (interfaces' # {}) /\ rawMode' = flowing'
     \/ /\ key \in {"abort", "eof"} /\ UNCHANGED replies
        /\ \E open \in StillOpen(key) :
             /\ interfaces' = open
             /\ IF open = interfaces THEN UNCHANGED <<rawMode, flowing>> ELSE rawMode' = FALSE /\ flowing' = FALSE
             /\ IF asked \in interfaces \ open /\ call # NoCall THEN NoLine ELSE Goes
     \/ ~Ends(key) /\ Goes /\ UNCHANGED <<interfaces, replies, rawMode, flowing>>
  /\ UNCHANGED echoed

Pressed(key) ==
  /\ tty /\ flowing /\ pressed < MaxKeys
  /\ pressed' = pressed + 1 /\ keys' = (IF call = NoCall THEN keys ELSE Append(keys, key)) /\ stars' = Shown(key)
  /\ PasswordKey(key) \/ LineKey(key)
  /\ UNCHANGED <<tty, inputEnded, asked, nextLine, lost>>

-----------------------------------------------------------------------------
(* Pipes. *)

\* A chunk: an interface answers its first line and is closed, and the rest of the chunk
\* is lost with it; readAll keeps all of it, and if an interface got it too it is the last.
LinesCome(k) ==
  /\ ~tty /\ flowing /\ nextLine + k <= MaxLines + 1
  /\ nextLine' = nextLine + k /\ UNCHANGED keys
  /\ IF call.kind = "readAll"
     THEN /\ call' = [call EXCEPT !.text = @ \o [i \in 1..k |-> nextLine + i - 1]]
          /\ interfaces' = {} /\ flowing' = (interfaces = {})
          /\ lost' = lost /\ UNCHANGED <<told, handed, readTimer, replies>>
     ELSE /\ interfaces # {}
          /\ \E reply \in {"yes", "no", "other"} : replies' = Append(replies, reply) /\ Question(reply, nextLine)
          /\ lost' = lost \cup ((nextLine + (IF call = NoCall THEN 0 ELSE 1))..(nextLine + k - 1))
          /\ flowing' = FALSE
  /\ UNCHANGED <<tty, rawMode, inputEnded, asked, listeners, pressed, stars, echoed>>

InputEnds ==
  /\ ~tty /\ flowing /\ ~inputEnded
  /\ inputEnded' = TRUE /\ flowing' = FALSE /\ interfaces' = {}
  /\ UNCHANGED <<keys, replies>>
  /\ \/ call.kind = "readAll" /\ Settles(Got("some", call.text))
     \/ call = NoCall /\ Goes
     \/ call.kind \notin {"readAll", "none"} /\ NoLine
  /\ UNCHANGED <<tty, rawMode, asked, listeners, pressed, nextLine, stars, echoed, lost>>

\* Of all calls only readAll hears an error of stdin, which ends the process if an interface
\* is open, for nothing hears its own.
InputFails ==
  /\ ~tty /\ call.kind = "readAll" /\ interfaces = {} /\ ~inputEnded
  /\ inputEnded' = TRUE /\ flowing' = FALSE
  /\ UNCHANGED <<keys, replies>> /\ Settles(Got("error", <<>>))
  /\ UNCHANGED <<tty, rawMode, asked, listeners, interfaces, pressed, nextLine, stars, echoed, lost>>

-----------------------------------------------------------------------------

\* The caller is answered, and what read for it goes on.
ReadTimesOut ==
  /\ readTimer
  /\ UNCHANGED <<keys, replies>>
  /\ NoLine
  /\ IF call.kind = "password" THEN rawMode' = FALSE /\ flowing' = FALSE /\ stars' = 0
                               ELSE UNCHANGED <<rawMode, flowing, stars>>
  /\ UNCHANGED <<tty, inputEnded, asked, listeners, interfaces, pressed, nextLine, echoed, lost>>

TerminalNext ==
  \/ \E timed \in BOOLEAN : ReadPassword(timed) \/ \E kind \in {"line", "confirm"} : ReadTerminalLine(kind, timed)
  \/ ReadAll
  \/ \E key \in Presses : Pressed(key)
  \/ \E k \in 1..MaxLines : LinesCome(k)
  \/ InputEnds \/ InputFails \/ ReadTimesOut

TerminalSpec == TerminalInit /\ [][TerminalNext]_terminalVars

-----------------------------------------------------------------------------

\* The character of the key at i is not taken back by a later one.
Stays(i) ==
  LET count(key, j) == Cardinality({n \in i + 1..j : keys[n] = key})
  IN  \A j \in i + 1..Len(keys) : count("delete", j) <= count("text", j)

\* The characters of the call's keys that were not taken back, in their order, where the
\* first key of the call is the one after start.
AreTyped(chars, start) ==
  /\ \A m, n \in DOMAIN chars : m < n => chars[m] < chars[n]
  /\ Range(chars) = {start + n : n \in {m \in DOMAIN keys : keys[m] = "text" /\ Stays(m)}}

\* However calls time out and leave their listeners and interfaces on stdin: a terminal is
\* raw exactly while keys are listened to, all the time a password is read, and otherwise
\* only while an interface is open; a password is the characters that were not taken back,
\* of this call alone, and None if it was aborted or empty at its end; the screen has an
\* asterisk for each and nothing else, unless a listener or an interface of an earlier call
\* writes too; and confirm takes the first yes or no, and of a pipe the first line.
TypedAnswers ==
  /\ IF tty THEN rawMode = flowing ELSE ~rawMode
  /\ call.kind = "password" => rawMode
  /\ rawMode => call.kind = "password" \/ interfaces # {}
  /\ \A l \in listeners :
       (l.owner = asked /\ call.kind = "password") =>
          /\ AreTyped(l.chars, pressed - Len(keys))
          /\ listeners = {l} /\ interfaces = {} => stars = Len(l.chars) /\ echoed = {}
  /\ call = NoCall /\ told.kind = "password" /\ told.answer.form = "some" =>
       /\ Last(keys) = "enter" \/ (Last(keys) = "eof" /\ told.answer.text # <<>>)
       /\ \E start \in 0..pressed : AreTyped(told.answer.text, start)
  /\ call = NoCall /\ told.kind = "confirm" =>
       /\ told.answer.form = "true" => Last(replies) = "yes"
       /\ \A n \in 1..Len(replies) - 1 : replies[n] \notin {"yes", "no"}
       /\ ~tty => Len(replies) <= 1

\* Of a pipe every line that was read is lost or, in the order of the input, answered to
\* one call and one only.
LinesOnce ==
  ~tty =>
    LET answered == handed \o call.text
    IN  /\ \A i, j \in DOMAIN answered : i < j => answered[i] < answered[j]
        /\ Range(answered) \cap lost = {} /\ Range(answered) \cup lost \subseteq 1..nextLine - 1

\* What is typed and what comes by a pipe reaches the call that it is for, and no other.
TerminalSound == TypedAnswers /\ LinesOnce
=============================================================================
