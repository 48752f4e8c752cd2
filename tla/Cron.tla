-------------------------------- MODULE Cron --------------------------------
(***************************************************************************)
(* Cron expressions, and at the end the runner of their schedules.         *)
(*                                                                         *)
(* src/types/cron.ts: the values of a field (parseField), the match of a   *)
(* date (matchesCron), and the search for the next one (nextOccurrence).   *)
(*                                                                         *)
(* Date is external: the search uses it only to move to the start of the   *)
(* next month, day, hour or minute, on a calendar whose sizes are          *)
(* constants.  Minutes are numbered from 0; time zones that skip or repeat *)
(* hours are left out.                                                     *)
(***************************************************************************)
EXTENDS Integers, FiniteSets, SequencesExt

CONSTANTS DaysIn,       \* the days of each month of a year, a sequence
          DaysInWeek, HoursInDay, MinutesInHour,
          YearsAhead,   \* how far the search goes
          Never,        \* None, and an Err of the parser
          Parts,        \* bound: per field, the lists of parts that are parsed
          Starts        \* bound: the minutes searched from

ASSUME CalendarAssumption ==
  /\ DaysIn \in Seq(Nat \ {0}) /\ DaysIn # <<>>
  /\ DaysInWeek \in Nat \ {0} /\ HoursInDay \in Nat \ {0} /\ MinutesInHour \in Nat \ {0}
  /\ YearsAhead \in Nat /\ Starts \subseteq Nat

-----------------------------------------------------------------------------
(* Parsing: a part is "*", a range or a number (lo = hi), with a step. *)

Part(kind, lo, hi, step) == [kind |-> kind, lo |-> lo, hi |-> hi, step |-> step]

ValidPart(part, min, max) ==
  /\ part.step >= 1
  /\ \/ part.kind = "wildcard"
     \/ part.kind = "range" /\ part.lo >= min /\ part.hi <= max /\ part.lo <= part.hi
     \/ part.kind = "single" /\ part.lo >= min /\ part.lo <= max

\* expandWildcard, expandFieldRange, expandSingle; a single value ignores its step.
Expand(part, min, max) ==
  LET from == IF part.kind = "wildcard" THEN min ELSE part.lo
      to   == IF part.kind = "wildcard" THEN max ELSE part.hi
  IN  IF part.kind = "single" THEN {part.lo}
      ELSE {i \in from..to : (i - from) % part.step = 0}

\* parseField; Never stands for an Err.
ParseField(parts, min, max) ==
  IF \A i \in DOMAIN parts : ValidPart(parts[i], min, max)
  THEN UNION {Expand(parts[i], min, max) : i \in DOMAIN parts}
  ELSE Never

FieldRange ==
  [minute |-> <<0, MinutesInHour - 1>>, hour |-> <<0, HoursInDay - 1>>,
   day |-> <<1, Max(ToSet(DaysIn))>>, month |-> <<1, Len(DaysIn)>>, weekday |-> <<0, DaysInWeek - 1>>]

\* parseCron: a field each, or an Err.
ParseCron(parts) ==
  LET fields == [f \in DOMAIN FieldRange |-> ParseField(parts[f], FieldRange[f][1], FieldRange[f][2])]
  IN  IF \E f \in DOMAIN fields : fields[f] = Never THEN Never ELSE fields

\* matchesCron.
Matches(fields, date) == \A f \in DOMAIN FieldRange : date[f] \in fields[f]

-----------------------------------------------------------------------------
(* The calendar. *)

\* The days of a year before month m.
DaysBefore[m \in Nat] == IF m <= 1 THEN 0 ELSE DaysBefore[m - 1] + DaysIn[m - 1]

DaysInYear   == DaysBefore[Len(DaysIn) + 1]
MinutesInDay == HoursInDay * MinutesInHour

DayOf(t) == t \div MinutesInDay
MonthOf(d) == Max({m \in DOMAIN DaysIn : DaysBefore[m] <= d % DaysInYear})

Date(t) ==
  LET d == DayOf(t)
  IN  [minute |-> t % MinutesInHour, hour |-> (t % MinutesInDay) \div MinutesInHour,
       day |-> (d % DaysInYear) - DaysBefore[MonthOf(d)] + 1, month |-> MonthOf(d), weekday |-> d % DaysInWeek]

StartOfNextHour(t)  == (t \div MinutesInHour + 1) * MinutesInHour
StartOfNextDay(t)   == (DayOf(t) + 1) * MinutesInDay
StartOfNextMonth(t) == (DayOf(t) + DaysIn[Date(t).month] - Date(t).day + 1) * MinutesInDay

\* Seeded fault: going to the next hour keeps the minutes.
AdvanceKeepingMinutes(fields, date, t) ==
  IF date.month \notin fields.month THEN StartOfNextMonth(t)
  ELSE IF date.day \notin fields.day \/ date.weekday \notin fields.weekday THEN StartOfNextDay(t)
  ELSE IF date.hour \notin fields.hour THEN t + MinutesInHour
  ELSE t + 1

\* One turn of the search: over the first field that does not match.
Advance(fields, date, t) ==
  IF date.month \notin fields.month THEN StartOfNextMonth(t)
  ELSE IF date.day \notin fields.day \/ date.weekday \notin fields.weekday THEN StartOfNextDay(t)
  ELSE IF date.hour \notin fields.hour THEN StartOfNextHour(t)
  ELSE t + 1

\* nextOccurrence of a time after minute t.
NextOccurrence(fields, after) ==
  LET start == after + 1
      limit == start + YearsAhead * DaysInYear * MinutesInDay
      search[t \in Nat] ==
        IF t >= limit THEN Never
        ELSE LET date == Date(t)
             IN  IF Matches(fields, date) THEN t ELSE search[Advance(fields, date, t)]
  IN  search[start]

\* The search finds the first matching minute after its start, and gives up only if
\* there is none before its limit.
FindsFirst(fields, after) ==
  LET limit == after + 1 + YearsAhead * DaysInYear * MinutesInDay
      all   == {t \in after + 1..limit - 1 : Matches(fields, Date(t))}
  IN  NextOccurrence(fields, after) = IF all = {} THEN Never ELSE Min(all)

-----------------------------------------------------------------------------
(* Parsing and searching, one schedule at a time. *)

VARIABLE parsed  \* the result of the last parse

CronInit == parsed = Never

\* Cron.parse.
Parse ==
  \E m \in Parts.minute, h \in Parts.hour, d \in Parts.day, mo \in Parts.month, w \in Parts.weekday :
    parsed' = ParseCron([minute |-> m, hour |-> h, day |-> d, month |-> mo, weekday |-> w])

\* What Cron.next answers is what Cron.matches says of every minute up to it.
NextIsFirstMatch == parsed # Never => \A after \in Starts : FindsFirst(parsed, after)

-----------------------------------------------------------------------------
(***************************************************************************)
(* src/async/cron-runner.ts.  An interval of half a minute looks at the    *)
(* clock, so each minute that the runner has run through has seen a tick.  *)
(*                                                                         *)
(* Time stands in the minutes of Moments, dates of the real calendar in    *)
(* their order; no other minute matches the schedules, and a tick in one   *)
(* that does not match changes nothing.  The call of the handler by a      *)
(* start() with runImmediately has no effect on the schedule.              *)
(***************************************************************************)

CONSTANTS Moments,    \* the minutes looked at: dates in ascending order
          Schedules,  \* schedules, as the sets of minutes and hours that match
          MaxStarts   \* bound: calls of start

\* What Date's getters give.
ASSUME MomentsAssumption ==
  /\ Moments # <<>>
  /\ Moments \in Seq([year : Nat, month : Nat, date : Nat, hours : Nat, minutes : Nat])

VARIABLES schedule,         \* the fields of options.schedule
          now,              \* the minute: an index of Moments
          running,
          lastFiredMinute,
          ticked,           \* a tick has come in this minute since start()
          since,            \* the minute of the last start()
          fired,            \* history: per minute, how often the handler was called by a tick
          starts,           \* history: per minute, the calls of start()
          through           \* history: minutes that the runner ran through

runnerVars == <<schedule, now, running, lastFiredMinute, ticked, since, fired, starts, through>>

RunnerInit ==
  /\ schedule \in Schedules
  /\ now = 1 /\ running = FALSE /\ lastFiredMinute = -1
  /\ ticked = FALSE /\ since = 0
  /\ fired = [m \in DOMAIN Moments |-> 0] /\ starts = [m \in DOMAIN Moments |-> 0]
  /\ through = {}

Due(m) == Moments[m].minutes \in schedule.minutes /\ Moments[m].hours \in schedule.hours

\* currentMinute of tick, whose months have 43800 minutes each.
MinuteNumber(date) ==
  date.year * 525960 + date.month * 43800 + date.date * 1440 + date.hours * 60 + date.minutes

StartCalls == FoldFunction(LAMBDA a, b : a + b, 0, starts)

StartRunner ==
  /\ ~running
  /\ StartCalls < MaxStarts
  /\ running' = TRUE /\ lastFiredMinute' = -1
  /\ ticked' = FALSE /\ since' = now
  /\ starts' = [starts EXCEPT ![now] = @ + 1]
  /\ UNCHANGED <<schedule, now, fired, through>>

StopRunner ==
  /\ running
  /\ running' = FALSE
  /\ UNCHANGED <<schedule, now, lastFiredMinute, ticked, since, fired, starts, through>>

Fire ==
  /\ fired' = [fired EXCEPT ![now] = @ + 1]
  /\ lastFiredMinute' = MinuteNumber(Moments[now])

\* tick.
RunnerTick ==
  /\ running
  /\ ticked' = TRUE
  /\ \/ Due(now) /\ MinuteNumber(Moments[now]) # lastFiredMinute /\ Fire
     \/ ~Due(now) /\ UNCHANGED <<fired, lastFiredMinute>>
     \/ MinuteNumber(Moments[now]) = lastFiredMinute /\ UNCHANGED <<fired, lastFiredMinute>>
  /\ UNCHANGED <<schedule, now, running, since, starts, through>>

\* The next minute; only the one of start() may pass without a tick.
MinutePasses ==
  /\ now < Len(Moments)
  /\ running => ticked \/ since = now
  /\ now' = now + 1 /\ ticked' = FALSE
  /\ through' = IF running /\ since # now THEN through \cup {now} ELSE through
  /\ UNCHANGED <<schedule, running, lastFiredMinute, since, fired, starts>>

RunnerNext == StartRunner \/ StopRunner \/ RunnerTick \/ MinutePasses

RunnerSpec == RunnerInit /\ [][RunnerNext]_runnerVars

-----------------------------------------------------------------------------
(* Properties. *)

LastFiredBefore(m) == LET before == {l \in 1..m - 1 : fired[l] > 0}
                      IN  IF before = {} THEN 0 ELSE Max(before)

\* A minute that is not due is not fired in; one that is, twice only if the runner was
\* started again in it, and not at all only if it has the number of the minute fired
\* in before it, which minutes of two months can share (tick).
FiresOncePerMinute ==
  \A m \in DOMAIN Moments :
    /\ fired[m] > 0 => Due(m)
    /\ fired[m] <= 1 + starts[m]
    /\ m \in through /\ Due(m) /\ fired[m] = 0 =>
         /\ LastFiredBefore(m) # 0
         /\ MinuteNumber(Moments[LastFiredBefore(m)]) = MinuteNumber(Moments[m])

\* "The runner checks every 30 seconds whether the current minute matches the
\* schedule, executing the handler when it does."
EveryMatchFires == \A m \in through : Due(m) => fired[m] > 0
=============================================================================
